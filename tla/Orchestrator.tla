---------------------------- MODULE Orchestrator ----------------------------
(***************************************************************************)
(* The approval-gated action layer of dAIly: the LangGraph session graph   *)
(* (orchestrator/graph.py, nodes.py), the checkpointed thread a user has   *)
(* for a day, and the front ends that drive it: the text chat loop         *)
(* (cli.py), the voice loop (voice/loop.py) and the LiveKit worker         *)
(* (worker/llm_bridge.py).                                                 *)
(*                                                                         *)
(* Several front ends may be attached to the same thread: the thread id is *)
(* user-{id}-{date}.  A run of the graph loads the latest checkpoint into  *)
(* memory, executes one node per superstep on that copy, and writes a      *)
(* checkpoint in the background after each.                                *)
(*                                                                         *)
(* A draft (ActionDraft) is a number: 0 is None, and each call of the LLM  *)
(* that yields a draft takes the next number.  A decision is "none",       *)
(* "confirm", "reject" or "edit" (for every "edit:<instruction>").         *)
(***************************************************************************)
EXTENDS Naturals

CONSTANTS
    Sessions,     \* front-end processes attached to the user's thread of the day
    Kind,         \* Kind[s] is "chat", "voice" or "worker"
    Volatile,     \* TRUE: MemorySaver, the thread dies with the process
    MaxDrafts,    \* bound: drafts the LLM ever returns
    MaxConfirms,  \* bound: confirmations given to one preview
    MaxStarts     \* bound: session starts

ASSUME KindAssumption == Kind \in [Sessions -> {"chat", "voice", "worker"}]

ASSUME BoundsAssumption ==
    /\ Volatile \in BOOLEAN
    /\ MaxDrafts \in Nat
    /\ MaxConfirms \in Nat
    /\ MaxStarts \in Nat

VARIABLES
    thread,    \* latest persisted checkpoint of the thread
    run,       \* run[s]: the graph run in s's memory, or Idle
    front,     \* front[s]: where the loop of s is
    first,     \* first[s]: the loop's first_turn flag
    shown,     \* shown[s]: the draft previewed at s's current prompt, 0 if none
    made,      \* drafts made so far
    starts,    \* session starts so far
    sends,     \* sends[d]: times the provider carried out draft d
    confirms,  \* confirms[d]: times a user answered "confirm" to a preview of d
               \* (to a prompt without a preview, if d = 0)
    last,      \* last[d]: the user's latest answer to a preview of d
    approved,  \* drafts that were pending when approval_node returned "confirm"
    tasks,     \* fire-and-forget writes of a "sent" row not yet done: <<session, draft>>
    audit,     \* drafts with a row in action_log that says "sent"
    crashed    \* TRUE once a process died between calling a provider and the checkpoint

threadVars == <<thread, run, front, first, shown>>
userVars == <<confirms, last>>
logVars == <<tasks, audit>>
vars == <<thread, run, front, first, shown, made, starts, sends, confirms,
          last, approved, tasks, audit, crashed>>

Drafts == 1..MaxDrafts
Decisions == {"none", "confirm", "reject", "edit"}
Nodes == {"talk", "draft", "approval", "execute"}  \* "talk": respond or summarise_thread

\* The LangGraph channels this module tracks (SessionState): user is whether
\* active_user_id has left its default 0.  asked: the interrupt payload of
\* approval_node is stored with the checkpoint.
Thread == [next: Nodes \cup {"end"}, pending: 0..MaxDrafts, decision: Decisions,
           user: BOOLEAN, asked: BOOLEAN]

\* pc is the node about to run ("calling": execute_node awaits the provider).
\* entry: the run began with a new message ("turn") or with Command(resume=...).
\* answer: the resume value approval_node's interrupt() will return.
\* redraft: draft_node treated its call as an edit of the pending draft.
\* delivered: the provider carried the action out.
Run == [pc: Nodes \cup {"idle", "calling"}, pending: 0..MaxDrafts,
        decision: Decisions, user: BOOLEAN, entry: {"turn", "resume"},
        answer: Decisions, redraft: BOOLEAN, delivered: BOOLEAN]

Fronts == {"off", "listening", "turn", "check", "approve", "decided", "edit"}

NewThread == [next |-> "end", pending |-> 0, decision |-> "none",
              user |-> FALSE, asked |-> FALSE]

Idle == [pc |-> "idle", pending |-> 0, decision |-> "none", user |-> FALSE,
         entry |-> "turn", answer |-> "none", redraft |-> FALSE, delivered |-> FALSE]

Init ==
    /\ thread = NewThread
    /\ run = [s \in Sessions |-> Idle]
    /\ front = [s \in Sessions |-> "off"]
    /\ first = [s \in Sessions |-> TRUE]
    /\ shown = [s \in Sessions |-> 0]
    /\ made = 0
    /\ starts = 0
    /\ sends = [d \in Drafts |-> 0]
    /\ confirms = [d \in 0..MaxDrafts |-> 0]
    /\ last = [d \in 0..MaxDrafts |-> "none"]
    /\ approved = {}
    /\ tasks = {}
    /\ audit = {}
    /\ crashed = FALSE

(***************************************************************************)
(* LangGraph: checkpoints, supersteps, the end of a run                    *)
(***************************************************************************)
MCheckpointWithoutUser(r, node, ask) ==  \* mutant: active_user_id is not a channel
    [next |-> node, pending |-> r.pending, decision |-> r.decision,
     user |-> FALSE, asked |-> ask]

Checkpoint(r, node, ask) ==
    [next |-> node, pending |-> r.pending, decision |-> r.decision,
     user |-> r.user, asked |-> ask]

\* A node returned and r.pc is the next one.  The checkpoint is written while
\* the next node runs (durability "async"), so it may not be there yet.
Superstep(s, r) ==
    /\ run' = [run EXCEPT ![s] = r]
    /\ thread' \in {thread, Checkpoint(r, r.pc, FALSE)}
    /\ UNCHANGED front

MReturnLeavesAfterEdit(s, c) ==  \* mutant: the approval loop breaks after an edit too
    /\ run' = [run EXCEPT ![s] = Idle]
    /\ thread' = c
    /\ front' = [front EXCEPT ![s] = IF front[s] = "turn" THEN "check" ELSE "listening"]

\* The run of s is over; ainvoke has waited for its last checkpoint, c, and the
\* front end goes on: the bridge yields the last message; the loops look at
\* aget_state().next, except after a confirm or reject.
Return(s, c) ==
    /\ run' = [run EXCEPT ![s] = Idle]
    /\ thread' = c
    /\ front' = [front EXCEPT ![s] =
                    IF Kind[s] = "worker" \/ front[s] = "decided"
                    THEN "listening" ELSE "check"]

MLoadedUnfinished(node, entry, answer, user) ==  \* mutant: a new message first
    [Idle EXCEPT !.pc = IF thread.next = "execute" THEN "execute" ELSE node,  \* finishes the old run
                 !.pending = thread.pending, !.decision = thread.decision,
                 !.user = user, !.entry = entry, !.answer = answer]

\* The run of s begins from the latest checkpoint, at node.
Loaded(node, entry, answer, user) ==
    [Idle EXCEPT !.pc = node, !.pending = thread.pending,
                 !.decision = thread.decision, !.user = user,
                 !.entry = entry, !.answer = answer]

(***************************************************************************)
(* Front ends                                                              *)
(***************************************************************************)
\* run_voice_session, _run_chat_session, entrypoint: the initial state is
\* loaded and kept for the first turn.
Start(s) ==
    /\ front[s] = "off"
    /\ starts < MaxStarts
    /\ starts' = starts + 1
    /\ front' = [front EXCEPT ![s] = "listening"]
    /\ first' = [first EXCEPT ![s] = TRUE]
    /\ UNCHANGED <<thread, run, shown, made, sends, approved, crashed>>
    /\ UNCHANGED <<userVars, logVars>>

\* astream_session: a respond turn streamed straight from the LLM.  The graph
\* does not run, and the loop clears first_turn.  The chat loop never streams.
Stream(s) ==
    /\ front[s] = "listening"
    /\ Kind[s] # "chat"
    /\ first' = [first EXCEPT ![s] = FALSE]
    /\ UNCHANGED <<thread, run, front, shown, made, starts, sends, approved, crashed>>
    /\ UNCHANGED <<userVars, logVars>>

\* run_session with a new message: initial_state (with active_user_id) is part
\* of the input on the first turn only, any pending interrupt is discarded, and
\* route_intent picks the node.
Turn(s, node) ==
    /\ front[s] = "listening"
    /\ run' = [run EXCEPT ![s] =
                  Loaded(node, "turn", "none", first[s] \/ thread.user)]
    /\ thread' \in {thread, Checkpoint(run'[s], node, FALSE)}
    /\ front' = [front EXCEPT ![s] = "turn"]
    /\ first' = [first EXCEPT ![s] = FALSE]
    /\ UNCHANGED <<shown, made, starts, sends, approved, crashed>>
    /\ UNCHANGED <<userVars, logVars>>

\* After a run: the graph is interrupted (next is not empty), so the preview of
\* the stored interrupt is shown and the loop waits for an answer; or it is not.
Check(s) ==
    /\ front[s] = "check"
    /\ \/ /\ thread.next = "end"
          /\ front' = [front EXCEPT ![s] = "listening"]
          /\ shown' = [shown EXCEPT ![s] = 0]
       \/ /\ thread.next # "end"
          /\ front' = [front EXCEPT ![s] = "approve"]
          /\ shown' = [shown EXCEPT ![s] = IF thread.asked THEN thread.pending ELSE 0]
    /\ UNCHANGED <<thread, run, first, made, starts, sends, approved, crashed>>
    /\ UNCHANGED <<userVars, logVars>>

\* _handle_approval_flow, _handle_voice_approval: the user's words (an empty
\* input is "reject") become a decision and Command(resume=decision) is run on
\* the thread as it is now.
Answer(s, a) ==
    /\ front[s] = "approve"
    /\ a = "confirm" => confirms[shown[s]] < MaxConfirms
    /\ confirms' = IF a = "confirm" THEN [confirms EXCEPT ![shown[s]] = @ + 1] ELSE confirms
    /\ last' = [last EXCEPT ![shown[s]] = a]
    /\ shown' = [shown EXCEPT ![s] = 0]
    /\ \/ /\ thread.next = "end"
          /\ front' = [front EXCEPT ![s] = "listening"]
          /\ UNCHANGED run
       \/ /\ thread.next # "end"
          /\ front' = [front EXCEPT ![s] = IF a = "edit" THEN "edit" ELSE "decided"]
          /\ run' = [run EXCEPT ![s] = Loaded(thread.next, "resume", a, thread.user)]
    /\ UNCHANGED <<thread, first, made, starts, sends, approved, crashed>>
    /\ UNCHANGED logVars

\* The process of s is over: its memory and the audit tasks it had not run are
\* gone, and with a MemorySaver the thread too.
Gone(s) ==
    /\ front' = [front EXCEPT ![s] = "off"]
    /\ run' = [run EXCEPT ![s] = Idle]
    /\ shown' = [shown EXCEPT ![s] = 0]
    /\ tasks' = {t \in tasks : t[1] # s}

\* "exit", "quit" or a closed room between turns; a crash, a kill or an error
\* that leaves the loop (OpenAIError: break) at any other point.
End(s) ==
    /\ front[s] # "off"
    /\ Gone(s)
    /\ thread' = IF Volatile THEN NewThread ELSE thread
    /\ crashed' = (crashed \/ run[s].pc = "calling")
    /\ UNCHANGED <<first, made, starts, sends, approved, audit>>
    /\ UNCHANGED userVars

\* The worker's user speaks over the reply: livekit cancels the LLM stream, and
\* with it the run, and listens again.
Interrupt(s) ==
    /\ Kind[s] = "worker"
    /\ front[s] = "turn"
    /\ front' = [front EXCEPT ![s] = "listening"]
    /\ run' = [run EXCEPT ![s] = Idle]
    /\ crashed' = (crashed \/ run[s].pc = "calling")
    /\ UNCHANGED <<thread, first, shown, made, starts, sends, approved>>
    /\ UNCHANGED <<userVars, logVars>>

(***************************************************************************)
(* Nodes of the graph                                                      *)
(***************************************************************************)
\* respond_node, summarise_thread_node: every error becomes a message; no
\* channel this module tracks is written; END.
Talk(s) ==
    /\ run[s].pc = "talk"
    /\ Return(s, Checkpoint(run[s], "end", FALSE))
    /\ UNCHANGED <<first, shown, made, starts, sends, approved, crashed>>
    /\ UNCHANGED <<userVars, logVars>>

\* draft_node when the LLM's reply parses: an "edit:" decision with a pending
\* draft re-drafts that draft, anything else drafts the last message.
Drafted(r, d) ==
    [r EXCEPT !.pc = "approval", !.pending = d, !.decision = "none", !.answer = "none",
              !.redraft = (r.decision = "edit" /\ r.pending # 0)]

DraftSucceeds(s) ==
    /\ run[s].pc = "draft"
    /\ made < MaxDrafts
    /\ made' = made + 1
    /\ Superstep(s, Drafted(run[s], made + 1))
    /\ UNCHANGED <<first, shown, starts, sends, approved, crashed>>
    /\ UNCHANGED <<userVars, logVars>>

\* draft_node when the call or the parsing fails: only a message is returned,
\* pending_action and approval_decision stay, and the edge to approval is taken.
DraftFails(s) ==
    /\ run[s].pc = "draft"
    /\ Superstep(s, [run[s] EXCEPT !.pc = "approval", !.answer = "none"])
    /\ UNCHANGED <<first, shown, made, starts, sends, approved, crashed>>
    /\ UNCHANGED <<userVars, logVars>>

\* approval_node with no pending draft: card_text() of None raises.  A loop
\* re-raises and ends; the worker's stream fails and it listens again.
ApprovalRaises(s) ==
    /\ run[s].pc = "approval"
    /\ run[s].pending = 0
    /\ IF Kind[s] = "worker"
       THEN /\ front' = [front EXCEPT ![s] = "listening"]
            /\ run' = [run EXCEPT ![s] = Idle]
            /\ UNCHANGED <<shown, tasks>>
       ELSE Gone(s)
    /\ thread' = IF Volatile /\ Kind[s] # "worker" THEN NewThread
                 ELSE Checkpoint(run[s], "approval", FALSE)
    /\ UNCHANGED <<first, made, starts, sends, approved, audit, crashed>>
    /\ UNCHANGED userVars

MApprovalPausesUnsaved(s) ==  \* mutant: the interrupt is not stored with the thread
    /\ run[s].pc = "approval"
    /\ run[s].pending # 0
    /\ run[s].answer = "none"
    /\ Return(s, thread)
    /\ UNCHANGED <<first, shown, made, starts, sends, approved, crashed>>
    /\ UNCHANGED <<userVars, logVars>>

\* approval_node, first pass: interrupt() pauses the graph, storing the preview.
ApprovalPauses(s) ==
    /\ run[s].pc = "approval"
    /\ run[s].pending # 0
    /\ run[s].answer = "none"
    /\ Return(s, Checkpoint(run[s], "approval", TRUE))
    /\ UNCHANGED <<first, shown, made, starts, sends, approved, crashed>>
    /\ UNCHANGED <<userVars, logVars>>

MDecidedEditConfirms(r) ==  \* mutant: whatever is not a rejection approves
    [r EXCEPT !.pc = "execute", !.answer = "none",
              !.decision = IF r.answer = "reject" THEN "reject" ELSE "confirm"]

MDecidedKeepsOld(r) ==  \* mutant: a decision already in the state wins
    [r EXCEPT !.pc = IF r.answer = "edit" THEN "draft" ELSE "execute", !.answer = "none",
              !.decision = IF r.decision = "none" THEN r.answer ELSE r.decision]

MDecidedApprove(r) ==  \* mutant: the front end's word is stored, not the decision
    [r EXCEPT !.pc = IF r.answer = "edit" THEN "draft" ELSE "execute", !.answer = "none",
              !.decision = IF r.answer = "confirm" THEN "yes" ELSE r.answer]

\* approval_node run again by a resume: interrupt() returns the answer, and
\* route_after_approval sends "edit:" to draft and all else to execute.
Decided(r) ==
    [r EXCEPT !.pc = IF r.answer = "edit" THEN "draft" ELSE "execute",
              !.decision = r.answer, !.answer = "none"]

ApprovalReturns(s) ==
    /\ run[s].pc = "approval"
    /\ run[s].pending # 0
    /\ run[s].answer # "none"
    /\ Superstep(s, Decided(run[s]))
    /\ approved' = IF run[s].answer = "confirm"
                   THEN approved \cup {run[s].pending} ELSE approved
    /\ UNCHANGED <<first, shown, made, starts, sends, crashed>>
    /\ UNCHANGED <<userVars, logVars>>

MClearedKeepsDraft(r) == [r EXCEPT !.decision = "none"]  \* mutant: pending_action stays

\* What every branch of execute_node returns: both channels cleared.
Cleared(r) == [r EXCEPT !.pending = 0, !.decision = "none"]

\* asyncio.create_task(_log_action(...)).  Only rows that say "sent" are kept here:
\* a rejected or failed row claims nothing.  (Without a user the insert breaks the
\* foreign key and is swallowed, but then no call was made either.)
LogTask(s, outcome) ==
    tasks' = IF outcome = "sent" THEN tasks \cup {<<s, run[s].pending>>} ELSE tasks

\* execute_node, decision is not "confirm"; or it is and building the executor
\* or validate() raises ValueError (as it must when there is no user).
ExecuteRefuses(s) ==
    /\ run[s].pc = "execute"
    /\ LogTask(s, "rejected")
    /\ Return(s, Checkpoint(Cleared(run[s]), "end", FALSE))
    /\ UNCHANGED <<first, shown, made, starts, sends, approved, audit, crashed>>
    /\ UNCHANGED userVars

MExecuteCallsAnyway(s) ==  \* mutant: the decision is not looked at
    /\ run[s].pc = "execute"
    /\ run[s].user
    /\ \E ok \in BOOLEAN :
         /\ run' = [run EXCEPT ![s] = [@ EXCEPT !.pc = "calling", !.delivered = ok]]
         /\ sends' = IF ok THEN [sends EXCEPT ![run[s].pending] = @ + 1] ELSE sends
    /\ UNCHANGED <<thread, front, first, shown, made, starts, approved, crashed>>
    /\ UNCHANGED <<userVars, logVars>>

\* execute_node, "confirm": the executor is built and validated, and its request
\* reaches the provider, or is lost.
ExecuteCalls(s) ==
    /\ run[s].pc = "execute"
    /\ run[s].decision = "confirm"
    /\ run[s].user
    /\ \E ok \in BOOLEAN :
         /\ run' = [run EXCEPT ![s] = [@ EXCEPT !.pc = "calling", !.delivered = ok]]
         /\ sends' = IF ok THEN [sends EXCEPT ![run[s].pending] = @ + 1] ELSE sends
    /\ UNCHANGED <<thread, front, first, shown, made, starts, approved, crashed>>
    /\ UNCHANGED <<userVars, logVars>>

MOutcomesOptimistic(r) == {"sent", "failed"}  \* mutant: result.success is not looked at

\* execute_node after the call: success is reported only by the provider's
\* answer; an error or a lost answer is logged as failed.
Outcomes(r) == IF r.delivered THEN {"sent", "failed"} ELSE {"failed"}

ExecuteReturns(s) ==
    /\ run[s].pc = "calling"
    /\ \E outcome \in Outcomes(run[s]) : LogTask(s, outcome)
    /\ Return(s, Checkpoint(Cleared(run[s]), "end", FALSE))
    /\ UNCHANGED <<first, shown, made, starts, sends, approved, audit, crashed>>
    /\ UNCHANGED userVars

\* A task of _log_action runs: the row is appended, or a database error is
\* swallowed.
WriteLog(t) ==
    /\ t \in tasks
    /\ tasks' = tasks \ {t}
    /\ audit' \in {audit, audit \cup {t[2]}}
    /\ UNCHANGED <<threadVars, made, starts, sends, approved, crashed>>
    /\ UNCHANGED userVars

(***************************************************************************)
(* The system                                                              *)
(***************************************************************************)
GraphStep(s) ==
    \/ Talk(s)
    \/ DraftSucceeds(s)
    \/ DraftFails(s)
    \/ ApprovalRaises(s)
    \/ ApprovalPauses(s)
    \/ ApprovalReturns(s)
    \/ ExecuteRefuses(s)
    \/ ExecuteCalls(s)
    \/ ExecuteReturns(s)

Next ==
    \/ \E s \in Sessions :
         \/ Start(s)
         \/ Stream(s)
         \/ \E node \in {"talk", "draft"} : Turn(s, node)
         \/ Check(s)
         \/ \E a \in {"confirm", "reject", "edit"} : Answer(s, a)
         \/ End(s)
         \/ Interrupt(s)
         \/ GraphStep(s)
    \/ \E t \in tasks : WriteLog(t)

Spec == Init /\ [][Next]_vars
(***************************************************************************)
(* Fairness.  The event loop runs every ready coroutine, and a user does  *)
(* not talk over every reply; one who keeps being prompted at some point   *)
(* confirms or rejects; one who is listened to keeps talking.              *)
(***************************************************************************)
Decides(s) == Answer(s, "confirm") \/ Answer(s, "reject")

Fairness ==
    \A s \in Sessions :
        /\ SF_vars(GraphStep(s))
        /\ WF_vars(Check(s))
        /\ SF_vars(Decides(s))
        /\ SF_vars(Turn(s, "talk"))

FairSpec == Spec /\ Fairness

(***************************************************************************)
(* Properties                                                              *)
(***************************************************************************)
\* Every variable has its type.
TypeOK ==
    /\ thread \in Thread
    /\ run \in [Sessions -> Run]
    /\ front \in [Sessions -> Fronts]
    /\ first \in [Sessions -> BOOLEAN]
    /\ shown \in [Sessions -> 0..MaxDrafts]
    /\ made \in 0..MaxDrafts
    /\ starts \in 0..MaxStarts
    /\ sends \in [Drafts -> Nat]
    /\ confirms \in [0..MaxDrafts -> 0..MaxConfirms]
    /\ last \in [0..MaxDrafts -> Decisions]
    /\ approved \subseteq Drafts
    /\ tasks \subseteq Sessions \X Drafts
    /\ audit \subseteq Drafts
    /\ crashed \in BOOLEAN

\* T-04-16 (nodes.py:775) and ACT-04: whatever the sessions on the thread do,
\* crashes and unpersisted checkpoints included, a draft that was carried out was
\* the pending one when approval_node returned "confirm".
GateNeverBypassed == \A d \in Drafts : sends[d] > 0 => d \in approved

\* ACT-04, for a thread with one front end: a draft is carried out at most as often
\* as the user confirmed a preview of that very draft.
ConfirmedBeforeSent == \A d \in Drafts : sends[d] <= confirms[d]

\* A draft is carried out only while the latest answer the user gave to a preview of
\* it is "confirm": an earlier confirmation that survives in a checkpoint does not
\* outlive a later "reject" or edit.
LastAnswerGoverns ==
    [][\A d \in Drafts : sends'[d] > sends[d] => last[d] = "confirm"]_vars

\* execute_node clears pending_action on every branch: unless a process died between
\* the provider call and the checkpoint, no draft is carried out twice, however many
\* failed re-drafts, restarts and further prompts follow.
AtMostOnceUnlessCrashed == ~crashed => \A d \in Drafts : sends[d] <= 1

\* With a MemorySaver a crash takes the thread with it: no draft is carried out twice
\* at all.
AtMostOnce == \A d \in Drafts : sends[d] <= 1

\* ACT-05, the direction a best-effort log can promise: a row that says "sent" is
\* about an action that was carried out (the log is written after the call, from the
\* state the node was given).
AuditTruthful == \A d \in audit : sends[d] > 0

\* While a loop with the thread to itself waits for a decision, what it showed is the
\* draft a resume would act on.
PromptShowsPending ==
    \A s \in Sessions : front[s] = "approve" =>
        /\ shown[s] # 0
        /\ thread.next = "approval"
        /\ thread.pending = shown[s]

\* The promise of the gate: ApprovalGate with the prompt as the offer, and the
\* confirmed draft on its way from the answer to the provider as the grant.
Offered == {shown[s] : s \in {x \in Sessions : front[x] = "approve" /\ shown[x] # 0}}
Granting(r) ==
    \/ r.pc = "approval" /\ r.answer = "confirm"
    \/ r.pc = "execute" /\ r.decision = "confirm"
Granted == {run[s].pending : s \in {x \in Sessions : Granting(run[x])}}

Gate == INSTANCE ApprovalGate
            WITH offered <- Offered, granted <- Granted, sent <- sends
GatePromise == Gate!GateSpec

\* D-01, "unlimited edit rounds": a prompt of a loop is eventually followed by the
\* draft leaving the thread or by the end of the session, if the user at some point
\* stops editing.
PromptsResolve ==
    \A s \in Sessions : front[s] = "approve" ~> (thread.pending = 0 \/ front[s] = "off")

\* session.py:162 "Pass on first turn only; subsequent turns use persisted state":
\* an action is executed for the session's user.
ExecutesForTheUser == \A s \in Sessions : run[s].pc = "execute" => run[s].user

\* nodes.py:415, "reuse existing type on edit, infer from instruction on fresh draft":
\* a run that began with a new message drafts afresh.
FreshRequestStartsFresh == \A s \in Sessions : run[s].redraft => run[s].entry = "resume"
=============================================================================
