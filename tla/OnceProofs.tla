------------------------------ MODULE OnceProofs ------------------------------
(***************************************************************************)
(* More proofs about Orchestrator: the audit log never claims what did not *)
(* happen, a draft is carried out once, and in the chat loop a request     *)
(* starts afresh and is executed for the user.                             *)
(***************************************************************************)
EXTENDS OrchestratorProofs

FrontStep(s) ==
    \/ Start(s) \/ Stream(s) \/ \E n \in {"talk", "draft"} : Turn(s, n)
    \/ Check(s) \/ \E a \in {"confirm", "reject", "edit"} : Answer(s, a)
    \/ End(s) \/ Interrupt(s)

LEMMA StepKinds ==
    ASSUME [Next]_vars
    PROVE  \/ UNCHANGED vars \/ \E t \in tasks : WriteLog(t)
           \/ \E s \in Sessions : FrontStep(s) \/ GraphStep(s)
  BY DEF Next, FrontStep

(***************************************************************************)
(* The audit log, for any number of front ends                             *)
(***************************************************************************)
\* A task that will write "sent", and a call whose answer is on its way, are about
\* something that was carried out.
AuditCore ==
    /\ AuditTruthful
    /\ \A t \in tasks : sends[t[2]] > 0
    /\ \A s \in Sessions : run[s].pc = "calling" /\ run[s].delivered => sends[run[s].pending] > 0

AuditInv == GateInv /\ AuditCore

LEMMA FrontAudit ==
    ASSUME AuditInv, NEW s \in Sessions, FrontStep(s) PROVE AuditCore'
<1>0. /\ run \in [Sessions -> Run] /\ thread \in Thread
      /\ UNCHANGED <<sends, audit>> /\ tasks' \subseteq tasks
  BY DEF AuditInv, GateInv, TypeOK, FrontStep, Start, Stream, Turn, Check, Answer, End, Gone,
         Interrupt, logVars
<1> DEFINE NoCall == \/ run' = run
                      \/ \E r : run' = [run EXCEPT ![s] = r] /\ r.pc # "calling"
<1>1. NoCall
  <2>1. CASE Start(s) \/ Stream(s) \/ Check(s)
    BY <2>1 DEF Start, Stream, Check
  <2>2. ASSUME NEW n \in {"talk", "draft"}, Turn(s, n) PROVE NoCall
    <3>1. Loaded(n, "turn", "none", first[s] \/ thread.user).pc = n
      BY DEF Loaded, Idle
    <3>2. QED
      BY <2>2, <3>1 DEF Turn
  <2>3. ASSUME NEW a \in {"confirm", "reject", "edit"}, Answer(s, a) PROVE NoCall
    <3>1. Loaded(thread.next, "resume", a, thread.user).pc = thread.next /\ thread.next # "calling"
      BY <1>0 DEF Loaded, Idle, Thread, Nodes
    <3>2. QED
      BY <2>3, <3>1 DEF Answer
  <2>4. CASE End(s) \/ Interrupt(s)
    BY <2>4, IdleFacts DEF End, Gone, Interrupt
  <2>5. QED
    BY <2>1, <2>2, <2>3, <2>4 DEF FrontStep
<1>2. \A x \in Sessions : run'[x].pc = "calling" => run'[x] = run[x]
  BY <1>0, <1>1
<1>3. QED
  BY <1>0, <1>2 DEF AuditInv, AuditCore, AuditTruthful

\* What only counts up.
LEMMA SendsGrow ==
    ASSUME AuditInv, NEW s \in Sessions, GraphStep(s), NEW d \in Drafts, sends[d] > 0
    PROVE  sends'[d] > 0
<1>1. sends \in [Drafts -> Nat]
  BY DEF AuditInv, GateInv, TypeOK
<1>2. CASE ExecuteCalls(s)
  <2>1. sends' = sends \/ sends' = [sends EXCEPT ![run[s].pending] = @ + 1]
    BY <1>2 DEF ExecuteCalls
  <2>2. sends[d] \in Nat
    BY <1>1
  <2>3. sends'[d] = sends[d] \/ sends'[d] = sends[d] + 1
    BY <1>1, <2>1
  <2>4. QED
    BY <2>2, <2>3
<1>3. CASE ~ExecuteCalls(s)
  <2>1. sends' = sends
    BY <1>3 DEF GraphStep, Talk, DraftSucceeds, DraftFails, ApprovalRaises, ApprovalPauses,
                ApprovalReturns, ExecuteRefuses, ExecuteReturns
  <2>2. QED
    BY <2>1
<1>4. QED
  BY <1>2, <1>3

LEMMA GraphAudit ==
    ASSUME AuditInv, NEW s \in Sessions, GraphStep(s) PROVE AuditCore'
<1>0. /\ run \in [Sessions -> Run] /\ tasks \subseteq Sessions \X Drafts /\ audit \subseteq Drafts
      /\ sends \in [Drafts -> Nat] /\ \A x \in Sessions : run[x].pending \in 0..MaxDrafts
      /\ \A x \in Sessions : run[x].pc \in {"calling", "execute"} => run[x].pending \in Drafts
  <2>1. TypeOK /\ GateCore
    BY DEF AuditInv, GateInv
  <2>2. \A x \in Sessions : run[x].pc \in {"calling", "execute"} => run[x].pending # 0
    BY <2>1 DEF GateCore, Vouched
  <2>3. \A x \in Sessions : run[x].pending \in 0..MaxDrafts
    BY <2>1 DEF TypeOK, Run
  <2>4. \A n \in 0..MaxDrafts : n # 0 => n \in Drafts
    BY BoundsAssumption DEF Drafts
  <2>5. QED
    BY <2>1, <2>2, <2>3, <2>4 DEF TypeOK
<1>1. audit' = audit
  BY DEF GraphStep, Talk, DraftSucceeds, DraftFails, ApprovalRaises, ApprovalPauses,
         ApprovalReturns, ExecuteRefuses, ExecuteCalls, ExecuteReturns, logVars
<1>2. AuditTruthful'
  BY <1>0, <1>1, SendsGrow DEF AuditInv, AuditCore, AuditTruthful
<1>3. \A t \in tasks' : \/ t \in tasks
                        \/ ExecuteReturns(s) /\ t = <<s, run[s].pending>> /\ run[s].delivered
  <2>1. CASE ExecuteReturns(s)
    <3>1. PICK outcome \in Outcomes(run[s]) : LogTask(s, outcome)
      BY <2>1 DEF ExecuteReturns
    <3>2. CASE outcome = "sent"
      <4>1. run[s].delivered
        BY <3>2 DEF Outcomes
      <4>2. tasks' = tasks \cup {<<s, run[s].pending>>}
        BY <3>1, <3>2 DEF LogTask
      <4>3. QED
        BY <2>1, <4>1, <4>2
    <3>3. CASE outcome # "sent"
      BY <3>1, <3>3 DEF LogTask
    <3>4. QED
      BY <3>2, <3>3
  <2>2. CASE ApprovalRaises(s)
    <3>1. tasks' \subseteq tasks
      BY <2>2 DEF ApprovalRaises, Gone
    <3>2. QED
      BY <3>1
  <2>3. CASE ExecuteRefuses(s)
    <3>1. tasks' = tasks
      BY <2>3 DEF ExecuteRefuses, LogTask
    <3>2. QED
      BY <3>1
  <2>4. CASE \/ Talk(s) \/ DraftSucceeds(s) \/ DraftFails(s) \/ ApprovalPauses(s)
             \/ ApprovalReturns(s) \/ ExecuteCalls(s)
    <3>1. tasks' = tasks
      BY <2>4 DEF Talk, DraftSucceeds, DraftFails, ApprovalPauses, ApprovalReturns, ExecuteCalls,
                  logVars
    <3>2. QED
      BY <3>1
  <2>5. QED
    BY <2>1, <2>2, <2>3, <2>4 DEF GraphStep
<1>4. ASSUME NEW t \in tasks' PROVE sends'[t[2]] > 0
  <2>1. CASE t \in tasks
    <3>1. t[2] \in Drafts /\ sends[t[2]] > 0
      BY <1>0, <2>1 DEF AuditInv, AuditCore
    <3>2. QED
      BY <3>1, SendsGrow
  <2>2. CASE ExecuteReturns(s) /\ t = <<s, run[s].pending>> /\ run[s].delivered
    <3>1. run[s].pc = "calling" /\ sends' = sends
      BY <2>2 DEF ExecuteReturns
    <3>2. QED
      BY <2>2, <3>1 DEF AuditInv, AuditCore
  <2>3. QED
    BY <1>3, <2>1, <2>2
<1>5. ASSUME NEW x \in Sessions, run'[x].pc = "calling", run'[x].delivered
      PROVE  sends'[run'[x].pending] > 0
  <2>1. CASE ExecuteCalls(s) /\ x = s
    <3>1. PICK ok \in BOOLEAN :
            /\ run' = [run EXCEPT ![s] = [@ EXCEPT !.pc = "calling", !.delivered = ok]]
            /\ sends' = IF ok THEN [sends EXCEPT ![run[s].pending] = @ + 1] ELSE sends
      BY <2>1 DEF ExecuteCalls
    <3>2. run'[s].delivered = ok /\ run'[s].pending = run[s].pending
      BY <1>0, <3>1 DEF Run
    <3>3. run[s].pending \in Drafts
      BY <1>0, <2>1 DEF ExecuteCalls
    <3>4. sends'[run[s].pending] = sends[run[s].pending] + 1 /\ sends[run[s].pending] \in Nat
      BY <1>0, <1>5, <2>1, <3>1, <3>2, <3>3
    <3>5. QED
      BY <2>1, <3>2, <3>4
  <2>2. CASE x # s
    <3>1. run'[x] = run[x]
      BY <1>0, <2>2 DEF GraphStep, Talk, DraftSucceeds, DraftFails, ApprovalRaises, Gone,
             ApprovalPauses, ApprovalReturns, ExecuteRefuses, ExecuteCalls, ExecuteReturns,
             Return, Superstep
    <3>2. run[x].pending \in Drafts /\ sends[run[x].pending] > 0
      BY <1>0, <1>5, <3>1 DEF AuditInv, AuditCore
    <3>3. QED
      BY <3>1, <3>2, SendsGrow
  <2>3. CASE ~ExecuteCalls(s) /\ x = s
    <3>1. run' = [run EXCEPT ![s] = Idle] \/ \E r : Superstep(s, r) /\ r.pc \in {"approval", "draft", "execute"}
      <4>1. CASE DraftSucceeds(s)
        <5>1. Drafted(run[s], made + 1).pc = "approval"
          BY <1>0 DEF Drafted, Run
        <5>2. QED
          BY <4>1, <5>1 DEF DraftSucceeds
      <4>2. CASE DraftFails(s)
        <5>1. [run[s] EXCEPT !.pc = "approval", !.answer = "none"].pc = "approval"
          BY <1>0 DEF Run
        <5>2. QED
          BY <4>2, <5>1 DEF DraftFails
      <4>3. CASE ApprovalReturns(s)
        <5>1. Decided(run[s]).pc \in {"draft", "execute"}
          BY <1>0 DEF Decided, Run
        <5>2. QED
          BY <4>3, <5>1 DEF ApprovalReturns
      <4>4. CASE Talk(s) \/ ApprovalRaises(s) \/ ApprovalPauses(s) \/ ExecuteRefuses(s)
                 \/ ExecuteReturns(s)
        BY <4>4 DEF Talk, ApprovalRaises, Gone, ApprovalPauses, ExecuteRefuses, ExecuteReturns, Return
      <4>5. QED
        BY <2>3, <4>1, <4>2, <4>3, <4>4 DEF GraphStep
    <3>2. run'[s].pc # "calling"
      BY <1>0, <3>1, IdleFacts DEF Superstep
    <3>3. QED
      BY <1>5, <2>3, <3>2
  <2>4. QED
    BY <2>1, <2>2, <2>3
<1>6. QED
  BY <1>2, <1>4, <1>5 DEF AuditCore

\* A row of action_log that says "sent" is about an action that was carried out
\* (ACT-05), however many front ends share the thread and whenever they die: _log_action
\* gets its outcome after the provider's answer.
THEOREM AuditNeverLies == Spec => []AuditTruthful
<1>1. Init => AuditCore
  BY IdleFacts DEF Init, AuditCore, AuditTruthful
<1>2. AuditInv /\ [Next]_vars => AuditCore'
  <2> SUFFICES ASSUME AuditInv, [Next]_vars PROVE AuditCore'
    OBVIOUS
  <2>1. ASSUME NEW s \in Sessions, FrontStep(s) PROVE AuditCore'
    BY <2>1, FrontAudit
  <2>2. ASSUME NEW s \in Sessions, GraphStep(s) PROVE AuditCore'
    BY <2>2, GraphAudit
  <2>3. ASSUME NEW t \in tasks, WriteLog(t) PROVE AuditCore'
    BY <2>3 DEF WriteLog, threadVars, AuditInv, AuditCore, AuditTruthful
  <2>4. CASE UNCHANGED vars
    BY <2>4 DEF vars, AuditInv, AuditCore, AuditTruthful
  <2>5. QED
    BY <2>1, <2>2, <2>3, <2>4, StepKinds
<1>3. QED
  BY <1>1, <1>2, GateInvariant, PTL DEF Spec, AuditInv, AuditCore

(***************************************************************************)
(* A front end that has the thread to itself                               *)
(***************************************************************************)
\* Where a process that dies in the middle of a call may call again: the thread
\* survives it, or the run was cancelled and the loop goes on.
MayRepeat(v) == crashed /\ ~(Volatile /\ Kind[v] # "worker")

\* The draft is being carried out, or nothing refers to it any more.
Spent(v, d) ==
    \/ run[v].pc = "calling" /\ run[v].pending = d
    \/ thread.pending # d /\ run[v].pending # d

OnceInv(v) ==
    /\ thread.pending \in 0..made /\ run[v].pending \in 0..made
    /\ \A d \in Drafts : sends[d] > 0 => d <= made
    /\ MayRepeat(v) \/ \A d \in Drafts : sends[d] <= 1 /\ (sends[d] > 0 => Spent(v, d))

LEMMA MadeType == ASSUME TypeOK PROVE made \in Nat /\ made \in 0..MaxDrafts /\ 0 \in 0..made
  BY BoundsAssumption DEF TypeOK

\* A step that carries nothing out: what refers to a draft afterwards did so before, or
\* the draft is new.
LEMMA QuietOnce ==
    ASSUME TypeOK, NEW v \in Sessions, OnceInv(v), made' \in {made, made + 1}, sends' = sends,
           crashed => crashed',
           \/ thread'.pending \in {0, thread.pending, run[v].pending}
           \/ made' = made + 1 /\ thread'.pending = made',
           \/ run'[v].pending \in {0, thread.pending, run[v].pending}
           \/ made' = made + 1 /\ run'[v].pending = made',
           \/ MayRepeat(v)' \/ run[v].pc # "calling"
           \/ run'[v] = run[v] /\ thread' = thread
           \/ thread'.pending = 0 /\ run'[v].pending = 0
    PROVE  OnceInv(v)'
<1>1. made \in Nat /\ \A d \in Drafts : d \in Nat /\ d # 0 /\ sends[d] \in Nat
  <2>1. Drafts \subseteq Nat \ {0} /\ sends \in [Drafts -> Nat]
    BY BoundsAssumption DEF Drafts, TypeOK
  <2>2. QED
    BY <2>1, MadeType
<1>2. thread'.pending \in 0..made' /\ run'[v].pending \in 0..made'
  BY <1>1 DEF OnceInv
<1>3. \A d \in Drafts : sends'[d] > 0 => d <= made'
  BY <1>1 DEF OnceInv
<1>4. MayRepeat(v) => MayRepeat(v)'
  BY DEF MayRepeat
<1>5. ASSUME ~MayRepeat(v)', NEW d \in Drafts, sends'[d] > 0 PROVE Spent(v, d)'
  <2>1. Spent(v, d) /\ d <= made
    BY <1>4, <1>5 DEF OnceInv
  <2>2. d # made + 1
    BY <1>1, <2>1
  <2>3. CASE run'[v] = run[v] /\ thread' = thread
    BY <2>1, <2>3 DEF Spent
  <2>4. CASE thread'.pending = 0 /\ run'[v].pending = 0
    BY <1>1, <2>4 DEF Spent
  <2>5. CASE run[v].pc # "calling"
    BY <1>1, <2>1, <2>2, <2>5 DEF Spent
  <2>6. QED
    BY <1>5, <2>3, <2>4, <2>5
<1>6. ~MayRepeat(v)' => \A d \in Drafts : sends'[d] <= 1
  BY <1>4 DEF OnceInv
<1>7. QED
  BY <1>2, <1>3, <1>5, <1>6 DEF OnceInv

LEMMA FrontOnce ==
    ASSUME TypeOK, NEW v \in Sessions, SoloInv(v), OnceInv(v), FrontStep(v) PROVE OnceInv(v)'
<1>0. /\ run \in [Sessions -> Run] /\ Idle.pending = 0 /\ NewThread.pending = 0
      /\ UNCHANGED <<made, sends>> /\ made' \in {made, made + 1}
      /\ crashed => crashed'
  BY DEF TypeOK, Idle, NewThread, FrontStep, Start, Stream, Turn, Check, Answer, End, Interrupt
<1>1. front[v] \in {"off", "listening", "check", "approve"} => run[v].pc # "calling"
  BY IdleFacts DEF SoloInv, SoloThread
<1>2. CASE Start(v) \/ Stream(v) \/ Check(v)
  <2>1. UNCHANGED <<thread, run, crashed>>
    BY <1>2 DEF Start, Stream, Check
  <2>2. QED
    BY <1>0, <2>1, QuietOnce
<1>3. ASSUME NEW n \in {"talk", "draft"}, Turn(v, n) PROVE OnceInv(v)'
  <2> DEFINE r == Loaded(n, "turn", "none", first[v] \/ thread.user)
  <2>1. r.pending = thread.pending
    BY DEF Loaded, Idle
  <2>2. run'[v] = r /\ thread' \in {thread, Checkpoint(r, n, FALSE)} /\ run[v].pc # "calling"
    BY <1>0, <1>1, <1>3 DEF Turn
  <2> HIDE DEF r
  <2>3. thread'.pending = thread.pending
    BY <2>1, <2>2 DEF Checkpoint
  <2>4. QED
    BY <1>0, <2>1, <2>2, <2>3, QuietOnce
<1>4. ASSUME NEW a \in {"confirm", "reject", "edit"}, Answer(v, a) PROVE OnceInv(v)'
  <2>1. thread' = thread /\ run[v].pc # "calling"
    BY <1>1, <1>4 DEF Answer
  <2>2. run'[v] = run[v] \/ run'[v] = Loaded(thread.next, "resume", a, thread.user)
    BY <1>0, <1>4 DEF Answer
  <2>3. Loaded(thread.next, "resume", a, thread.user).pending = thread.pending
    BY DEF Loaded, Idle
  <2>4. QED
    BY <1>0, <2>1, <2>2, <2>3, QuietOnce
<1>5. CASE End(v)
  <2>1. /\ run'[v] = Idle /\ thread' = (IF Volatile THEN NewThread ELSE thread)
        /\ crashed' = (crashed \/ run[v].pc = "calling")
    BY <1>0, <1>5 DEF End, Gone
  <2>2. run[v].pc # "calling" \/ MayRepeat(v)' \/ (thread'.pending = 0 /\ run'[v].pending = 0)
    BY <1>0, <2>1 DEF MayRepeat
  <2>3. QED
    BY <1>0, <2>1, <2>2, QuietOnce
<1>6. CASE Interrupt(v)
  <2>1. run'[v] = Idle /\ thread' = thread /\ crashed' = (crashed \/ run[v].pc = "calling")
        /\ Kind[v] = "worker"
    BY <1>0, <1>6 DEF Interrupt
  <2>2. run[v].pc # "calling" \/ MayRepeat(v)'
    BY <2>1 DEF MayRepeat
  <2>3. QED
    BY <1>0, <2>1, <2>2, QuietOnce
<1>7. QED
  BY <1>2, <1>3, <1>4, <1>5, <1>6 DEF FrontStep

LEMMA GraphOnce ==
    ASSUME TypeOK, NEW v \in Sessions, SoloInv(v), GateCore, OnceInv(v), GraphStep(v)
    PROVE  OnceInv(v)'
<1>0. /\ run \in [Sessions -> Run] /\ run[v] \in Run /\ Idle.pending = 0 /\ NewThread.pending = 0
      /\ Cleared(run[v]).pending = 0 /\ Cleared(run[v]).pc = run[v].pc
  BY DEF TypeOK, Idle, NewThread, Cleared, Run
<1>1. CASE Talk(v) \/ ApprovalPauses(v)
  <2>1. /\ run'[v] = Idle /\ thread'.pending = run[v].pending /\ run[v].pc # "calling"
        /\ UNCHANGED <<made, sends, crashed>>
    BY <1>0, <1>1 DEF Talk, ApprovalPauses, Return, Checkpoint
  <2>2. QED
    BY <1>0, <2>1, QuietOnce
<1>2. CASE DraftSucceeds(v)
  <2> DEFINE r == Drafted(run[v], made + 1)
  <2>1. r.pending = made + 1
    BY <1>0 DEF Drafted, Run
  <2>2. /\ run'[v] = r /\ thread' \in {thread, Checkpoint(r, r.pc, FALSE)} /\ run[v].pc # "calling"
        /\ made' = made + 1 /\ UNCHANGED <<sends, crashed>>
    BY <1>0, <1>2 DEF DraftSucceeds, Superstep
  <2> HIDE DEF r
  <2>3. thread'.pending = thread.pending \/ thread'.pending = made + 1
    BY <2>1, <2>2 DEF Checkpoint
  <2>4. QED
    BY <1>0, <2>1, <2>2, <2>3, QuietOnce
<1>3. CASE DraftFails(v) \/ ApprovalReturns(v)
  <2>1. PICK r : /\ Superstep(v, r) /\ r.pending = run[v].pending
    <3>1. [run[v] EXCEPT !.pc = "approval", !.answer = "none"].pending = run[v].pending
      BY <1>0 DEF Run
    <3>2. Decided(run[v]).pending = run[v].pending
      BY <1>0 DEF Decided, Run
    <3>3. QED
      BY <1>3, <3>1, <3>2 DEF DraftFails, ApprovalReturns
  <2>2. /\ run'[v] = r /\ thread' \in {thread, Checkpoint(r, r.pc, FALSE)} /\ run[v].pc # "calling"
        /\ UNCHANGED <<made, sends, crashed>>
    BY <1>0, <1>3, <2>1 DEF DraftFails, ApprovalReturns, Superstep
  <2>3. thread'.pending = thread.pending \/ thread'.pending = run[v].pending
    BY <2>1, <2>2 DEF Checkpoint
  <2>4. QED
    BY <1>0, <2>1, <2>2, <2>3, QuietOnce
<1>4. CASE ApprovalRaises(v)
  <2>1. /\ run'[v] = Idle /\ thread'.pending \in {0, run[v].pending} /\ run[v].pc # "calling"
        /\ UNCHANGED <<made, sends, crashed>>
    BY <1>0, <1>4 DEF ApprovalRaises, Gone, Checkpoint
  <2>2. QED
    BY <1>0, <2>1, QuietOnce
<1>5. CASE ExecuteRefuses(v) \/ ExecuteReturns(v)
  <2>1. run'[v] = Idle /\ thread'.pending = 0 /\ UNCHANGED <<made, sends, crashed>>
    BY <1>0, <1>5 DEF ExecuteRefuses, ExecuteReturns, Return, Checkpoint
  <2>2. QED
    BY <1>0, <2>1, QuietOnce
<1>6. CASE ExecuteCalls(v)
  <2>1. PICK ok \in BOOLEAN :
          /\ run' = [run EXCEPT ![v] = [@ EXCEPT !.pc = "calling", !.delivered = ok]]
          /\ sends' = IF ok THEN [sends EXCEPT ![run[v].pending] = @ + 1] ELSE sends
    BY <1>6 DEF ExecuteCalls
  <2>2. run'[v].pc = "calling" /\ run'[v].pending = run[v].pending
    BY <1>0, <2>1 DEF Run
  <2>3. UNCHANGED <<thread, made, crashed>> /\ run[v].pc = "execute"
    BY <1>6 DEF ExecuteCalls
  <2>4. /\ \A d \in Drafts : sends[d] \in Nat /\ d \in Nat
        /\ \A d \in Drafts \ {run[v].pending} : sends'[d] = sends[d]
        /\ run[v].pending \in Drafts =>
              sends'[run[v].pending] \in {sends[run[v].pending], sends[run[v].pending] + 1}
    BY <2>1 DEF TypeOK, Drafts
  <2>5. run[v].pending <= made /\ made \in Nat
    BY MadeType DEF OnceInv
  <2>6. \A d \in Drafts : sends'[d] > 0 => d <= made'
    BY <2>3, <2>4, <2>5 DEF OnceInv
  <2>7. ASSUME ~MayRepeat(v), NEW d \in Drafts
        PROVE  sends'[d] <= 1 /\ (sends'[d] > 0 => Spent(v, d)')
    <3>1. sends[d] <= 1 /\ (sends[d] > 0 => Spent(v, d)) /\ sends[d] \in Nat
      BY <2>4, <2>7 DEF OnceInv
    <3>2. CASE d = run[v].pending
      <4>1. ~Spent(v, d)
        BY <2>3, <3>2 DEF Spent
      <4>2. sends[d] = 0
        BY <3>1, <4>1
      <4>3. sends'[d] <= 1
        BY <2>4, <3>2, <4>2
      <4>4. QED
        BY <2>2, <3>2, <4>3 DEF Spent
    <3>3. CASE d # run[v].pending
      BY <2>2, <2>3, <2>4, <3>1, <3>3 DEF Spent
    <3>4. QED
      BY <3>2, <3>3
  <2>8. thread'.pending \in 0..made' /\ run'[v].pending \in 0..made'
    BY <2>2, <2>3 DEF OnceInv
  <2>9. MayRepeat(v)' <=> MayRepeat(v)
    BY <2>3 DEF MayRepeat
  <2>10. QED
    BY <2>6, <2>7, <2>8, <2>9 DEF OnceInv
<1>7. QED
  BY <1>1, <1>2, <1>3, <1>4, <1>5, <1>6 DEF GraphStep

LEMMA Once == ASSUME NEW v, Sessions = {v} PROVE Spec => []OnceInv(v)
<1>1. Init => OnceInv(v)
  BY BoundsAssumption DEF Init, OnceInv, NewThread, Idle, Drafts
<1>2. TypeOK /\ SoloInv(v) /\ GateInv /\ OnceInv(v) /\ [Next]_vars => OnceInv(v)'
  <2> SUFFICES ASSUME TypeOK, SoloInv(v), GateCore, OnceInv(v), [Next]_vars PROVE OnceInv(v)'
    BY DEF GateInv
  <2>1. CASE FrontStep(v)
    BY <2>1, FrontOnce
  <2>2. CASE GraphStep(v)
    BY <2>2, GraphOnce
  <2>3. CASE UNCHANGED <<thread, run, made, sends, crashed>>
    BY <2>3 DEF OnceInv, MayRepeat, Spent
  <2>4. ASSUME NEW t \in tasks, WriteLog(t) PROVE UNCHANGED <<thread, run, made, sends, crashed>>
    BY <2>4 DEF WriteLog, threadVars
  <2>5. UNCHANGED vars => UNCHANGED <<thread, run, made, sends, crashed>>
    BY DEF vars
  <2>6. QED
    BY <2>1, <2>2, <2>3, <2>4, <2>5, StepKinds
<1>3. QED
  BY <1>1, <1>2, SoloInvariant, GateInvariant, TypeCorrect, PTL DEF Spec

\* execute_node takes the draft out of the thread with its answer: with the thread to
\* itself, a front end repeats no action unless it died, or was cancelled, during the call.
THEOREM SoloAtMostOnce ==
    ASSUME NEW v, Sessions = {v} PROVE Spec => []AtMostOnceUnlessCrashed
<1>1. OnceInv(v) => AtMostOnceUnlessCrashed
  BY DEF OnceInv, MayRepeat, AtMostOnceUnlessCrashed
<1>2. QED
  BY <1>1, Once, PTL

\* The MemorySaver of the chat loop forgets the draft with the process that was carrying
\* it out: there no action is repeated at all.
THEOREM VolatileAtMostOnce ==
    ASSUME NEW v, Sessions = {v}, Volatile, Kind[v] # "worker" PROVE Spec => []AtMostOnce
<1>1. OnceInv(v) => AtMostOnce
  BY DEF OnceInv, MayRepeat, AtMostOnce
<1>2. QED
  BY <1>1, Once, PTL

(***************************************************************************)
(* The chat loop                                                           *)
(***************************************************************************)
\* The thread is the loop's own memory: a new message never finds the decision of an
\* unfinished edit, nor a thread without the user once the first turn is over.
ChatThread(v) ==
    /\ front[v] # "off" /\ run[v].pc = "idle" => first[v] \/ thread.user
    /\ front[v] \in {"check", "approve"} => thread.user
    /\ front[v] = "off" => thread = NewThread
    /\ front[v] = "listening" => thread.decision # "edit"
    /\ front[v] = "check" /\ thread.next = "end" => thread.decision # "edit"

ChatRun(v) ==
    /\ run[v].pc # "idle" => run[v].user
    /\ run[v].redraft => run[v].entry = "resume"
    /\ run[v].pc # "idle" /\ run[v].entry = "turn" => run[v].decision # "edit" /\ run[v].answer = "none"
    /\ run[v].pc = "talk" => run[v].entry = "turn"
    /\ front[v] = "decided" => \/ run[v].pc \in {"execute", "calling"}
                               \/ run[v].pc = "approval" /\ run[v].answer \notin {"none", "edit"}

ChatInv(v) == ChatThread(v) /\ ChatRun(v)

LEMMA IdleChat ==
    /\ Idle.pc = "idle" /\ ~Idle.redraft /\ Idle.answer = "none"
    /\ NewThread.decision = "none" /\ NewThread.next = "end"
  BY DEF Idle, NewThread

LEMMA FrontChat ==
    ASSUME TypeOK, NEW v \in Sessions, SoloInv(v), Volatile, Kind[v] = "chat", ChatInv(v),
           FrontStep(v)
    PROVE  ChatInv(v)'
<1>0. /\ run \in [Sessions -> Run] /\ front \in [Sessions -> Fronts] /\ thread \in Thread
      /\ first \in [Sessions -> BOOLEAN] /\ ChatThread(v) /\ ChatRun(v) /\ SoloThread(v)
  BY DEF TypeOK, ChatInv, SoloInv
<1>1. CASE Start(v)
  <2>1. front'[v] = "listening" /\ first'[v] /\ UNCHANGED <<thread, run>> /\ thread = NewThread
    BY <1>0, <1>1 DEF Start, ChatThread
  <2>2. QED
    BY <1>0, <2>1, IdleChat DEF ChatInv, ChatThread, ChatRun
<1>2. ~Stream(v) /\ ~Interrupt(v)
  BY DEF Stream, Interrupt
<1>3. ASSUME NEW n \in {"talk", "draft"}, Turn(v, n) PROVE ChatInv(v)'
  <2> DEFINE u == first[v] \/ thread.user
             r == Loaded(n, "turn", "none", u)
  <2>1. /\ r.pc = n /\ r.user = u /\ r.entry = "turn" /\ r.answer = "none" /\ ~r.redraft
        /\ r.decision = thread.decision
    BY DEF Loaded, Idle
  <2>2. run'[v] = r /\ front'[v] = "turn" /\ front[v] = "listening" /\ run[v].pc = "idle"
    BY <1>0, <1>3, IdleChat DEF Turn, SoloThread
  <2>3. u /\ thread.decision # "edit"
    BY <1>0, <2>2 DEF ChatThread
  <2> HIDE DEF r, u
  <2>4. QED
    BY <2>1, <2>2, <2>3 DEF ChatInv, ChatThread, ChatRun
<1>4. CASE Check(v)
  <2>1. UNCHANGED <<thread, run, first>> /\ run[v].pc = "idle" /\ front[v] = "check"
    BY <1>0, <1>4, IdleChat DEF Check, SoloThread
  <2>2. \/ thread.next = "end" /\ front'[v] = "listening"
        \/ thread.next # "end" /\ front'[v] = "approve"
    BY <1>0, <1>4 DEF Check
  <2>3. QED
    BY <1>0, <2>1, <2>2 DEF ChatInv, ChatThread, ChatRun
<1>5. ASSUME NEW a \in {"confirm", "reject", "edit"}, Answer(v, a) PROVE ChatInv(v)'
  <2>1. /\ thread.asked /\ thread.next = "approval" /\ thread.user /\ UNCHANGED thread
        /\ front[v] = "approve"
    BY <1>0, <1>5 DEF Answer, SoloThread, ChatThread
  <2> DEFINE r == Loaded("approval", "resume", a, thread.user)
  <2>2. /\ r.pc = "approval" /\ r.user = thread.user /\ r.entry = "resume" /\ r.answer = a
        /\ ~r.redraft
    BY DEF Loaded, Idle
  <2>3. run'[v] = r /\ front'[v] = IF a = "edit" THEN "edit" ELSE "decided"
    BY <1>0, <1>5, <2>1 DEF Answer
  <2> HIDE DEF r
  <2>4. QED
    BY <2>1, <2>2, <2>3 DEF ChatInv, ChatThread, ChatRun
<1>6. CASE End(v)
  <2>1. front'[v] = "off" /\ run'[v] = Idle /\ thread' = NewThread
    BY <1>0, <1>6 DEF End, Gone
  <2>2. QED
    BY <2>1, IdleChat DEF ChatInv, ChatThread, ChatRun
<1>7. QED
  BY <1>1, <1>2, <1>3, <1>4, <1>5, <1>6 DEF FrontStep

\* A run that ends leaves a thread that knows the user.
LEMMA ReturnChat ==
    ASSUME TypeOK, NEW v \in Sessions, SoloInv(v), Kind[v] = "chat", ChatInv(v),
           run[v].pc # "idle", NEW c \in Thread, Return(v, c), c.user = run[v].user,
           c.next = "end" => c.decision # "edit",
           front[v] = "decided" => c.next = "end"
    PROVE  ChatInv(v)'
<1>1. /\ run'[v] = Idle /\ thread' = c /\ c.user
      /\ front'[v] = IF front[v] = "decided" THEN "listening" ELSE "check"
  BY DEF TypeOK, Return, ChatInv, ChatRun
<1>2. QED
  BY <1>1, IdleChat DEF ChatInv, ChatThread, ChatRun

LEMMA SuperstepChat ==
    ASSUME TypeOK, NEW v \in Sessions, SoloInv(v), ChatInv(v), run[v].pc # "idle", NEW r \in Run,
           Superstep(v, r), r.user = run[v].user, r.pc \in {"approval", "draft", "execute"},
           r.redraft => r.entry = "resume",
           r.entry = "turn" => r.decision # "edit" /\ r.answer = "none",
           front[v] = "decided" => r.pc = "execute"
    PROVE  ChatInv(v)'
<1>1. /\ run'[v] = r /\ front'[v] = front[v] /\ run[v].user
      /\ front[v] \notin {"off", "listening", "check", "approve"}
  BY IdleChat DEF TypeOK, Superstep, ChatInv, ChatRun, SoloInv, SoloThread
<1>2. QED
  BY <1>1 DEF ChatInv, ChatThread, ChatRun

LEMMA GraphChat ==
    ASSUME TypeOK, NEW v \in Sessions, SoloInv(v), Volatile, Kind[v] = "chat", ChatInv(v),
           GraphStep(v)
    PROVE  ChatInv(v)'
<1>0. /\ run \in [Sessions -> Run] /\ run[v] \in Run /\ ChatThread(v) /\ ChatRun(v) /\ SoloAnswer(v)
      /\ Cleared(run[v]) \in Run
  BY ClearedType DEF TypeOK, ChatInv, SoloInv
<1>1. CASE Talk(v)
  <2> DEFINE c == Checkpoint(run[v], "end", FALSE)
  <2>1. c \in Thread /\ c.user = run[v].user /\ c.next = "end" /\ c.decision = run[v].decision
    BY <1>0, CheckpointType DEF Checkpoint
  <2>2. run[v].pc = "talk" /\ Return(v, c)
    BY <1>1 DEF Talk
  <2>3. run[v].decision # "edit" /\ front[v] # "decided"
    BY <1>0, <2>2 DEF ChatRun
  <2> HIDE DEF c
  <2>4. QED
    BY <2>1, <2>2, <2>3, ReturnChat
<1>2. CASE DraftSucceeds(v)
  <2> DEFINE r == Drafted(run[v], made + 1)
  <2>1. made + 1 \in 0..MaxDrafts /\ run[v].pc = "draft" /\ Superstep(v, r)
    BY <1>2, BoundsAssumption DEF DraftSucceeds, TypeOK
  <2>2. /\ r.pc = "approval" /\ r.user = run[v].user /\ r.entry = run[v].entry
        /\ r.decision = "none" /\ r.answer = "none"
        /\ r.redraft => run[v].decision = "edit"
    BY <1>0 DEF Drafted, Run
  <2>3. r \in Run
    BY <1>0, <2>1 DEF Drafted, Run, Nodes, Decisions
  <2>4. (r.redraft => r.entry = "resume") /\ front[v] # "decided"
    <3>1. run[v].entry \in {"turn", "resume"}
      BY <1>0 DEF Run
    <3>2. QED
      BY <1>0, <2>1, <2>2, <3>1 DEF ChatRun
  <2> HIDE DEF r
  <2>5. QED
    BY <2>1, <2>2, <2>3, <2>4, SuperstepChat
<1>3. CASE DraftFails(v)
  <2> DEFINE r == [run[v] EXCEPT !.pc = "approval", !.answer = "none"]
  <2>1. run[v].pc = "draft" /\ Superstep(v, r)
    BY <1>3 DEF DraftFails
  <2>2. /\ r \in Run /\ r.pc = "approval" /\ r.user = run[v].user /\ r.entry = run[v].entry
        /\ r.decision = run[v].decision /\ r.answer = "none" /\ r.redraft = run[v].redraft
    BY <1>0 DEF Run, Nodes, Decisions
  <2> HIDE DEF r
  <2>3. QED
    BY <1>0, <2>1, <2>2, SuperstepChat DEF ChatRun
<1>4. CASE ApprovalRaises(v)
  <2>1. front'[v] = "off" /\ run'[v] = Idle /\ thread' = NewThread
    BY <1>0, <1>4 DEF ApprovalRaises, Gone, TypeOK
  <2>2. QED
    BY <2>1, IdleChat DEF ChatInv, ChatThread, ChatRun
<1>5. CASE ApprovalPauses(v)
  <2> DEFINE c == Checkpoint(run[v], "approval", TRUE)
  <2>1. c \in Thread /\ c.user = run[v].user /\ c.next = "approval"
    BY <1>0, CheckpointType DEF Checkpoint, Nodes
  <2>2. run[v].pc = "approval" /\ run[v].answer = "none" /\ Return(v, c)
    BY <1>5 DEF ApprovalPauses
  <2>3. front[v] # "decided"
    BY <1>0, <2>2 DEF ChatRun
  <2> HIDE DEF c
  <2>4. QED
    BY <2>1, <2>2, <2>3, ReturnChat
<1>6. CASE ApprovalReturns(v)
  <2> DEFINE r == Decided(run[v])
  <2>1. run[v].pc = "approval" /\ run[v].answer # "none" /\ Superstep(v, r)
    BY <1>6 DEF ApprovalReturns
  <2>2. /\ r.pc = (IF run[v].answer = "edit" THEN "draft" ELSE "execute") /\ r.user = run[v].user
        /\ r.entry = run[v].entry /\ r.answer = "none" /\ r.redraft = run[v].redraft
    BY <1>0 DEF Decided, Run
  <2>3. r \in Run
    BY <1>0, <2>2 DEF Decided, Run, Nodes, Decisions
  <2>4. r.entry # "turn"
    BY <1>0, <2>1, <2>2 DEF ChatRun
  <2> HIDE DEF r
  <2>5. QED
    BY <1>0, <2>1, <2>2, <2>3, <2>4, SuperstepChat DEF ChatRun
<1>7. CASE ExecuteRefuses(v) \/ ExecuteReturns(v)
  <2> DEFINE c == Checkpoint(Cleared(run[v]), "end", FALSE)
  <2>1. c \in Thread /\ c.user = run[v].user /\ c.next = "end" /\ c.decision = "none"
    BY <1>0, CheckpointType DEF Checkpoint, Cleared, Run
  <2>2. run[v].pc # "idle" /\ Return(v, c)
    BY <1>7 DEF ExecuteRefuses, ExecuteReturns
  <2> HIDE DEF c
  <2>3. QED
    BY <2>1, <2>2, ReturnChat
<1>8. CASE ExecuteCalls(v)
  <2>1. PICK ok \in BOOLEAN :
          run' = [run EXCEPT ![v] = [@ EXCEPT !.pc = "calling", !.delivered = ok]]
    BY <1>8 DEF ExecuteCalls
  <2> DEFINE r == [run[v] EXCEPT !.pc = "calling", !.delivered = ok]
  <2>2. /\ r.pc = "calling" /\ r.user = run[v].user /\ r.entry = run[v].entry
        /\ r.decision = run[v].decision /\ r.answer = run[v].answer /\ r.redraft = run[v].redraft
    BY <1>0 DEF Run
  <2>3. run'[v] = r
    BY <1>0, <2>1
  <2> HIDE DEF r
  <2>4. run[v].pc = "execute" /\ UNCHANGED <<thread, front, first>>
    BY <1>8 DEF ExecuteCalls
  <2>5. front[v] \notin {"off", "listening", "check", "approve"}
    BY <2>4, IdleChat DEF SoloInv, SoloThread
  <2>6. QED
    BY <1>0, <2>2, <2>3, <2>4, <2>5 DEF ChatInv, ChatThread, ChatRun
<1>9. QED
  BY <1>1, <1>2, <1>3, <1>4, <1>5, <1>6, <1>7, <1>8 DEF GraphStep

LEMMA Chat ==
    ASSUME NEW v, Sessions = {v}, Volatile, Kind[v] = "chat" PROVE Spec => []ChatInv(v)
<1>1. Init => ChatInv(v)
  BY IdleChat DEF Init, ChatInv, ChatThread, ChatRun
<1>2. TypeOK /\ SoloInv(v) /\ ChatInv(v) /\ [Next]_vars => ChatInv(v)'
  <2> SUFFICES ASSUME TypeOK, SoloInv(v), ChatInv(v), [Next]_vars PROVE ChatInv(v)'
    OBVIOUS
  <2>1. CASE FrontStep(v)
    BY <2>1, FrontChat
  <2>2. CASE GraphStep(v)
    BY <2>2, GraphChat
  <2>3. CASE UNCHANGED <<thread, run, front, first>>
    BY <2>3 DEF ChatInv, ChatThread, ChatRun
  <2>4. ASSUME NEW t \in tasks, WriteLog(t) PROVE UNCHANGED <<thread, run, front, first>>
    BY <2>4 DEF WriteLog, threadVars
  <2>5. UNCHANGED vars => UNCHANGED <<thread, run, front, first>>
    BY DEF vars
  <2>6. QED
    BY <2>1, <2>2, <2>3, <2>4, <2>5, StepKinds
<1>3. QED
  BY <1>1, <1>2, SoloInvariant, TypeCorrect, PTL DEF Spec

\* The chat loop's initial state reaches the thread with its first turn (session.py:162),
\* so that execute_node acts for the user.
THEOREM ChatHasUser ==
    ASSUME NEW v, Sessions = {v}, Volatile, Kind[v] = "chat" PROVE Spec => []ExecutesForTheUser
<1>1. ChatInv(v) => ExecutesForTheUser
  BY DEF ChatInv, ChatRun, ExecutesForTheUser
<1>2. QED
  BY <1>1, Chat, PTL

\* In the chat loop draft_node never takes a new request for an edit (nodes.py:415): the
\* decision of an edit is gone before the next message.
THEOREM ChatStartsFresh ==
    ASSUME NEW v, Sessions = {v}, Volatile, Kind[v] = "chat" PROVE Spec => []FreshRequestStartsFresh
<1>1. ChatInv(v) => FreshRequestStartsFresh
  BY DEF ChatInv, ChatRun, FreshRequestStartsFresh
<1>2. QED
  BY <1>1, Chat, PTL
=============================================================================
