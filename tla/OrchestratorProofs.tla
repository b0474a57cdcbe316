-------------------------- MODULE OrchestratorProofs -------------------------
(***************************************************************************)
(* Proofs about Orchestrator, for every set of sessions, kind of front end *)
(* and bound.                                                              *)
(***************************************************************************)
EXTENDS Orchestrator, TLAPS

(***************************************************************************)
(* Types                                                                   *)
(***************************************************************************)
LEMMA CheckpointType ==
    ASSUME NEW r \in Run, NEW n \in Nodes \cup {"end"}, NEW b \in BOOLEAN
    PROVE  Checkpoint(r, n, b) \in Thread
  BY DEF Checkpoint, Thread, Run

LEMMA LoadedType ==
    ASSUME TypeOK, NEW n \in Nodes, NEW e \in {"turn", "resume"},
           NEW a \in Decisions, NEW u \in BOOLEAN
    PROVE  Loaded(n, e, a, u) \in Run
  BY DEF TypeOK, Loaded, Idle, Run, Thread

LEMMA IdleType == Idle \in Run /\ NewThread \in Thread
  BY BoundsAssumption DEF Idle, Run, NewThread, Thread, Decisions

LEMMA ClearedType == ASSUME NEW r \in Run PROVE Cleared(r) \in Run
<1>1. 0 \in 0..MaxDrafts /\ "none" \in Decisions
  BY BoundsAssumption DEF Decisions
<1>2. QED
  BY <1>1 DEF Cleared, Run

LEMMA InitType == Init => TypeOK
<1>1. 0 \in 0..MaxDrafts /\ 0 \in 0..MaxConfirms /\ 0 \in 0..MaxStarts /\ 0 \in Nat
  BY BoundsAssumption
<1>2. "none" \in Decisions /\ "off" \in Fronts
  BY DEF Decisions, Fronts
<1>3. ASSUME Init PROVE first \in [Sessions -> BOOLEAN] /\ crashed \in BOOLEAN
  BY <1>3 DEF Init
<1>4. ASSUME Init PROVE /\ approved \subseteq Drafts
                        /\ tasks \subseteq Sessions \X Drafts
                        /\ audit \subseteq Drafts
  BY <1>4 DEF Init
<1>5. ASSUME Init PROVE /\ thread \in Thread
                        /\ run \in [Sessions -> Run]
                        /\ front \in [Sessions -> Fronts]
                        /\ shown \in [Sessions -> 0..MaxDrafts]
  BY <1>1, <1>2, <1>5, IdleType DEF Init
<1>6. ASSUME Init PROVE /\ made \in 0..MaxDrafts
                        /\ starts \in 0..MaxStarts
                        /\ sends \in [Drafts -> Nat]
                        /\ confirms \in [0..MaxDrafts -> 0..MaxConfirms]
                        /\ last \in [0..MaxDrafts -> Decisions]
  BY <1>1, <1>2, <1>6 DEF Init
<1>7. QED
  BY <1>3, <1>4, <1>5, <1>6 DEF TypeOK

\* What the two ways a step ends have in common.
LEMMA ReturnType ==
    ASSUME TypeOK, NEW s \in Sessions, NEW c \in Thread, Return(s, c)
    PROVE  run' \in [Sessions -> Run] /\ thread' \in Thread /\ front' \in [Sessions -> Fronts]
  BY IdleType DEF TypeOK, Return, Fronts

LEMMA SuperstepType ==
    ASSUME TypeOK, NEW s \in Sessions, NEW r \in Run, r.pc \in Nodes, Superstep(s, r)
    PROVE  run' \in [Sessions -> Run] /\ thread' \in Thread /\ front' \in [Sessions -> Fronts]
<1>1. Checkpoint(r, r.pc, FALSE) \in Thread
  BY CheckpointType
<1>2. QED
  BY <1>1 DEF TypeOK, Superstep

LEMMA GoneType ==
    ASSUME TypeOK, NEW s \in Sessions, Gone(s)
    PROVE  /\ front' \in [Sessions -> Fronts]
           /\ run' \in [Sessions -> Run]
           /\ shown' \in [Sessions -> 0..MaxDrafts]
           /\ tasks' \subseteq Sessions \X Drafts
  BY IdleType, BoundsAssumption DEF TypeOK, Gone, Fronts

LEMMA FrontType ==
    ASSUME TypeOK, NEW s \in Sessions,
           \/ Start(s) \/ Stream(s) \/ \E n \in {"talk", "draft"} : Turn(s, n)
           \/ Check(s) \/ \E a \in {"confirm", "reject", "edit"} : Answer(s, a)
           \/ End(s) \/ Interrupt(s)
    PROVE  TypeOK'
<1>1. CASE Start(s)
  BY <1>1, BoundsAssumption DEF TypeOK, Start, Fronts, userVars, logVars
<1>2. CASE Stream(s)
  BY <1>2 DEF TypeOK, Stream, Fronts, userVars, logVars
<1>3. ASSUME NEW n \in {"talk", "draft"}, Turn(s, n) PROVE TypeOK'
  <2>1. (first[s] \/ thread.user) \in BOOLEAN /\ "none" \in Decisions /\ n \in Nodes
    BY DEF Nodes, Decisions, TypeOK, Thread
  <2>2. Loaded(n, "turn", "none", first[s] \/ thread.user) \in Run
    BY <2>1, LoadedType
  <2>3. run' \in [Sessions -> Run] /\ run'[s] \in Run
    BY <2>2, <1>3 DEF Turn, TypeOK
  <2>4. Checkpoint(run'[s], n, FALSE) \in Thread
    BY <2>1, <2>3, CheckpointType
  <2>5. QED
    BY <1>3, <2>3, <2>4 DEF TypeOK, Turn, Fronts, userVars, logVars
<1>4. CASE Check(s)
  <2>1. thread.pending \in 0..MaxDrafts /\ 0 \in 0..MaxDrafts
    BY BoundsAssumption DEF TypeOK, Thread
  <2>2. shown' \in [Sessions -> 0..MaxDrafts]
    BY <1>4, <2>1 DEF Check, TypeOK
  <2>3. front' \in [Sessions -> Fronts]
    BY <1>4 DEF Check, TypeOK, Fronts
  <2>4. QED
    BY <1>4, <2>2, <2>3 DEF TypeOK, Check, userVars, logVars
<1>5. ASSUME NEW a \in {"confirm", "reject", "edit"}, Answer(s, a) PROVE TypeOK'
  <2>1. a \in Decisions
    BY DEF Decisions
  <2>2. thread.next # "end" => Loaded(thread.next, "resume", a, thread.user) \in Run
    BY <2>1, LoadedType DEF TypeOK, Thread
  <2>3. run' \in [Sessions -> Run] /\ front' \in [Sessions -> Fronts]
    BY <1>5, <2>2 DEF Answer, TypeOK, Fronts
  <2>4. shown' \in [Sessions -> 0..MaxDrafts]
    BY <1>5, BoundsAssumption DEF Answer, TypeOK
  <2>5. confirms' \in [0..MaxDrafts -> 0..MaxConfirms]
    BY <1>5, BoundsAssumption DEF Answer, TypeOK
  <2>6. last' \in [0..MaxDrafts -> Decisions]
    BY <1>5, <2>1 DEF Answer, TypeOK
  <2>7. QED
    BY <1>5, <2>3, <2>4, <2>5, <2>6 DEF Answer, TypeOK, logVars
<1>6. CASE End(s)
  BY <1>6, GoneType, IdleType DEF TypeOK, End, userVars
<1>7. CASE Interrupt(s)
  BY <1>7, IdleType DEF TypeOK, Interrupt, Fronts, userVars, logVars
<1>8. QED
  BY <1>1, <1>2, <1>3, <1>4, <1>5, <1>6, <1>7

LEMMA GraphType ==
    ASSUME TypeOK, NEW s \in Sessions, GraphStep(s),
           run[s].pc = "calling" => run[s].pending # 0
    PROVE  TypeOK'
<1>0. run[s] \in Run /\ run[s].pending \in 0..MaxDrafts
  BY DEF TypeOK, Run
<1>1. CASE Talk(s)
  <2>1. Checkpoint(run[s], "end", FALSE) \in Thread
    BY <1>0, CheckpointType
  <2>2. QED
    BY <1>1, <2>1, ReturnType DEF TypeOK, Talk, userVars, logVars
<1>2. CASE DraftSucceeds(s)
  <2>1. made + 1 \in 0..MaxDrafts
    BY <1>2, BoundsAssumption DEF DraftSucceeds, TypeOK
  <2>2. /\ Drafted(run[s], made + 1) \in Run
        /\ Drafted(run[s], made + 1).pc \in Nodes
    BY <1>0, <2>1 DEF Drafted, Run, Nodes, Decisions
  <2>3. QED
    BY <1>2, <2>1, <2>2, SuperstepType DEF TypeOK, DraftSucceeds, userVars, logVars
<1>3. CASE DraftFails(s)
  <2>1. /\ [run[s] EXCEPT !.pc = "approval", !.answer = "none"] \in Run
        /\ [run[s] EXCEPT !.pc = "approval", !.answer = "none"].pc \in Nodes
    BY <1>0 DEF Run, Nodes, Decisions
  <2>2. QED
    BY <1>3, <2>1, SuperstepType DEF TypeOK, DraftFails, userVars, logVars
<1>4. CASE ApprovalRaises(s)
  <2>1. Checkpoint(run[s], "approval", FALSE) \in Thread
    BY <1>0, CheckpointType DEF Nodes
  <2>2. thread' \in Thread
    BY <1>4, <2>1, IdleType DEF ApprovalRaises
  <2>3. /\ front' \in [Sessions -> Fronts]
        /\ run' \in [Sessions -> Run]
        /\ shown' \in [Sessions -> 0..MaxDrafts]
        /\ tasks' \subseteq Sessions \X Drafts
    <3>1. CASE Kind[s] = "worker"
      BY <1>4, <3>1, IdleType DEF ApprovalRaises, TypeOK, Fronts
    <3>2. CASE Kind[s] # "worker"
      BY <1>4, <3>2, GoneType DEF ApprovalRaises
    <3>3. QED
      BY <3>1, <3>2
  <2>4. QED
    BY <1>4, <2>2, <2>3 DEF TypeOK, ApprovalRaises, userVars
<1>5. CASE ApprovalPauses(s)
  <2>1. Checkpoint(run[s], "approval", TRUE) \in Thread
    BY <1>0, CheckpointType DEF Nodes
  <2>2. QED
    BY <1>5, <2>1, ReturnType DEF TypeOK, ApprovalPauses, userVars, logVars
<1>6. CASE ApprovalReturns(s)
  <2>1. Decided(run[s]) \in Run /\ Decided(run[s]).pc \in Nodes
    <3>1. run[s].answer \in Decisions /\ "none" \in Decisions
      BY <1>0 DEF Run, Decisions
    <3>2. "draft" \in Nodes /\ "execute" \in Nodes
      BY DEF Nodes
    <3>3. QED
      BY <1>0, <3>1, <3>2 DEF Decided, Run
  <2>2. approved' \subseteq Drafts
    <3>1. run[s].pending \in Drafts
      BY <1>0, <1>6, BoundsAssumption DEF ApprovalReturns, Drafts
    <3>2. QED
      BY <1>6, <3>1 DEF ApprovalReturns, TypeOK
  <2>3. QED
    BY <1>6, <2>1, <2>2, SuperstepType DEF TypeOK, ApprovalReturns, userVars, logVars
<1>7. CASE ExecuteRefuses(s)
  <2>1. Checkpoint(Cleared(run[s]), "end", FALSE) \in Thread
    BY <1>0, ClearedType, CheckpointType
  <2>2. tasks' \subseteq Sessions \X Drafts
    BY <1>7 DEF ExecuteRefuses, LogTask, TypeOK
  <2>3. QED
    BY <1>7, <2>1, <2>2, ReturnType DEF TypeOK, ExecuteRefuses, userVars
<1>8. CASE ExecuteCalls(s)
  <2>1. PICK ok \in BOOLEAN :
          /\ run' = [run EXCEPT ![s] = [@ EXCEPT !.pc = "calling", !.delivered = ok]]
          /\ sends' = IF ok THEN [sends EXCEPT ![run[s].pending] = @ + 1] ELSE sends
    BY <1>8 DEF ExecuteCalls
  <2>2. [run[s] EXCEPT !.pc = "calling", !.delivered = ok] \in Run
    BY <1>0 DEF Run
  <2>3. sends' \in [Drafts -> Nat]
    <3>1. sends \in [Drafts -> Nat] /\ \A d \in Drafts : sends[d] + 1 \in Nat
      BY DEF TypeOK
    <3>2. CASE ok
      BY <2>1, <3>1, <3>2
    <3>3. CASE ~ok
      BY <2>1, <3>1, <3>3
    <3>4. QED
      BY <3>2, <3>3
  <2>4. QED
    BY <1>8, <2>1, <2>2, <2>3 DEF TypeOK, ExecuteCalls, userVars, logVars
<1>9. CASE ExecuteReturns(s)
  <2>1. Checkpoint(Cleared(run[s]), "end", FALSE) \in Thread
    BY <1>0, ClearedType, CheckpointType
  <2>2. tasks' \subseteq Sessions \X Drafts
    <3>1. run[s].pending \in Drafts
      BY <1>0, <1>9 DEF ExecuteReturns, Drafts
    <3>2. QED
      BY <1>9, <3>1 DEF ExecuteReturns, LogTask, TypeOK
  <2>3. QED
    BY <1>9, <2>1, <2>2, ReturnType DEF TypeOK, ExecuteReturns, userVars
<1>10. QED
  BY <1>1, <1>2, <1>3, <1>4, <1>5, <1>6, <1>7, <1>8, <1>9 DEF GraphStep

(***************************************************************************)
(* The gate, for any number of sessions on the thread.                     *)
(***************************************************************************)
\* x (a checkpoint or a run) at node execute holds a draft, and if its decision is
\* "confirm", the draft is in A.
Vouched(node, x, A) ==
    node = "execute" => x.pending # 0 /\ (x.decision = "confirm" => x.pending \in A)

\* GateNeverBypassed is not inductive: a run may start from whatever checkpoint is the
\* latest, written by any session and possibly before a crash, so the checkpoint has
\* to carry the same promise as the runs.
GateCore ==
    /\ Vouched(thread.next, thread, approved)
    /\ \A s \in Sessions : Vouched(run[s].pc, run[s], approved)
    /\ \A s \in Sessions : run[s].pc = "calling" => run[s].pending # 0
    /\ GateNeverBypassed

GateInv == TypeOK /\ GateCore

LEMMA InitGate == Init => GateCore
  BY DEF Init, GateCore, Vouched, GateNeverBypassed, NewThread, Idle

\* A step that only replaces the run of s, or drops it, and leaves a vouched thread.
LEMMA LocalGate ==
    ASSUME GateInv, NEW s \in Sessions, NEW r,
           run' = [run EXCEPT ![s] = r],
           Vouched(r.pc, r, approved'), r.pc = "calling" => r.pending # 0,
           Vouched(thread'.next, thread', approved'),
           approved \subseteq approved', sends' = sends
    PROVE  GateCore'
<1>1. \A x \in Sessions : run'[x] = IF x = s THEN r ELSE run[x]
  BY DEF GateInv, TypeOK
<1>2. \A x \in Sessions : Vouched(run'[x].pc, run'[x], approved')
  BY <1>1 DEF GateInv, GateCore, Vouched
<1>3. \A x \in Sessions : run'[x].pc = "calling" => run'[x].pending # 0
  BY <1>1 DEF GateInv, GateCore
<1>4. GateNeverBypassed'
  BY DEF GateInv, GateCore, GateNeverBypassed
<1>5. QED
  BY <1>2, <1>3, <1>4 DEF GateCore

LEMMA IdleGate ==
    ASSUME NEW A
    PROVE  Vouched(Idle.pc, Idle, A) /\ Idle.pc # "calling" /\ Vouched(NewThread.next, NewThread, A)
  BY DEF Vouched, Idle, NewThread

LEMMA CheckpointGate ==
    ASSUME NEW r \in Run, NEW n, NEW b, NEW A
    PROVE  /\ Checkpoint(r, n, b).next = n
           /\ Vouched(n, r, A) => Vouched(n, Checkpoint(r, n, b), A)
  BY DEF Vouched, Checkpoint

LEMMA FrontGate ==
    ASSUME GateInv, NEW s \in Sessions,
           \/ Start(s) \/ Stream(s) \/ \E n \in {"talk", "draft"} : Turn(s, n)
           \/ Check(s) \/ \E a \in {"confirm", "reject", "edit"} : Answer(s, a)
           \/ End(s) \/ Interrupt(s)
    PROVE  GateCore'
<1>0. TypeOK /\ GateCore /\ thread \in Thread /\ Vouched(thread.next, thread, approved)
  BY DEF GateInv, GateCore, TypeOK
<1>1. CASE Start(s) \/ Stream(s) \/ Check(s)
  BY <1>0, <1>1 DEF Start, Stream, Check, GateCore, GateNeverBypassed
<1>2. ASSUME NEW n \in {"talk", "draft"}, Turn(s, n) PROVE GateCore'
  <2> DEFINE r == Loaded(n, "turn", "none", first[s] \/ thread.user)
  <2>1. (first[s] \/ thread.user) \in BOOLEAN /\ "none" \in Decisions /\ n \in Nodes
    BY <1>0 DEF Nodes, Decisions, TypeOK, Thread
  <2>2. r \in Run
    BY <1>0, <2>1, LoadedType
  <2>3. r.pc = n
    BY DEF Loaded, Idle
  <2>4. run' = [run EXCEPT ![s] = r] /\ run'[s] = r
    BY <1>2, <1>0 DEF Turn, TypeOK
  <2>5. Vouched(r.pc, r, approved') /\ r.pc # "calling"
    BY <2>3 DEF Vouched
  <2>6. Vouched(thread'.next, thread', approved')
    <3>1. thread' = thread \/ thread' = Checkpoint(r, n, FALSE)
      BY <1>2, <2>4 DEF Turn
    <3>2. Checkpoint(r, n, FALSE).next = n
      BY DEF Checkpoint
    <3>3. QED
      BY <1>0, <1>2, <3>1, <3>2 DEF Vouched, Turn
  <2> HIDE DEF r
  <2>7. QED
    BY <1>2, <2>4, <2>5, <2>6, LocalGate DEF Turn
<1>3. ASSUME NEW a \in {"confirm", "reject", "edit"}, Answer(s, a) PROVE GateCore'
  <2>1. UNCHANGED <<thread, approved, sends>>
    BY <1>3 DEF Answer
  <2>2. CASE UNCHANGED run
    BY <1>0, <2>1, <2>2 DEF GateCore, GateNeverBypassed
  <2>3. CASE run' = [run EXCEPT ![s] = Loaded(thread.next, "resume", a, thread.user)]
    <3> DEFINE r == Loaded(thread.next, "resume", a, thread.user)
    <3>1. r.pc = thread.next /\ r.pending = thread.pending /\ r.decision = thread.decision
      BY DEF Loaded, Idle
    <3>2. Vouched(r.pc, r, approved') /\ r.pc # "calling"
      BY <1>0, <2>1, <3>1 DEF Vouched, Thread, Nodes
    <3> HIDE DEF r
    <3>3. QED
      BY <1>0, <2>1, <2>3, <3>2, LocalGate DEF r
  <2>4. QED
    BY <1>3, <2>2, <2>3 DEF Answer
<1>4. CASE End(s)
  <2>1. run' = [run EXCEPT ![s] = Idle] /\ approved' = approved /\ sends' = sends
    BY <1>4 DEF End, Gone
  <2>2. Vouched(thread'.next, thread', approved')
    BY <1>0, <1>4, <2>1, IdleGate DEF End
  <2>3. QED
    BY <2>1, <2>2, IdleGate, LocalGate
<1>5. CASE Interrupt(s)
  <2>1. /\ run' = [run EXCEPT ![s] = Idle]
        /\ thread' = thread /\ approved' = approved /\ sends' = sends
    BY <1>5 DEF Interrupt
  <2>2. QED
    BY <1>0, <2>1, IdleGate, LocalGate
<1>6. QED
  BY <1>1, <1>2, <1>3, <1>4, <1>5

\* A superstep is harmless when the run it leaves is vouched for.
LEMMA SuperstepGate ==
    ASSUME GateInv, NEW s \in Sessions, NEW r \in Run, Superstep(s, r),
           Vouched(r.pc, r, approved'), r.pc # "calling",
           approved \subseteq approved', sends' = sends
    PROVE  GateCore'
<1>1. thread' = thread \/ thread' = Checkpoint(r, r.pc, FALSE)
  BY DEF Superstep
<1>2. Vouched(thread.next, thread, approved')
  BY DEF GateInv, GateCore, Vouched
<1>3. /\ Checkpoint(r, r.pc, FALSE).next = r.pc
      /\ Vouched(r.pc, Checkpoint(r, r.pc, FALSE), approved')
  BY CheckpointGate
<1>4. CASE thread' = thread
  BY <1>2, <1>4, LocalGate DEF Superstep
<1>5. CASE thread' = Checkpoint(r, r.pc, FALSE)
  <2>1. Vouched(thread'.next, thread', approved')
    BY <1>3, <1>5
  <2>2. QED
    BY <2>1, LocalGate DEF Superstep
<1>6. QED
  BY <1>1, <1>4, <1>5

\* So is the end of a run at any node but execute.
LEMMA ReturnGate ==
    ASSUME GateInv, NEW s \in Sessions, NEW r \in Run, NEW n \in {"end", "approval"}, NEW b,
           Return(s, Checkpoint(r, n, b)), approved' = approved, sends' = sends
    PROVE  GateCore'
<1>1. thread' = Checkpoint(r, n, b) /\ run' = [run EXCEPT ![s] = Idle]
  BY DEF Return
<1>2. Vouched(thread'.next, thread', approved')
  BY <1>1, CheckpointGate DEF Vouched
<1>3. QED
  BY <1>1, <1>2, IdleGate, LocalGate

LEMMA GraphGate ==
    ASSUME GateInv, NEW s \in Sessions, GraphStep(s)
    PROVE  GateCore'
<1>0. /\ TypeOK /\ GateCore /\ run[s] \in Run /\ Cleared(run[s]) \in Run
      /\ Vouched(run[s].pc, run[s], approved)
  BY ClearedType DEF GateInv, GateCore, TypeOK
<1>1. CASE Talk(s)
  BY <1>0, <1>1, ReturnGate DEF Talk
<1>2. CASE DraftSucceeds(s)
  <2> DEFINE r == Drafted(run[s], made + 1)
  <2>1. made + 1 \in 0..MaxDrafts
    BY <1>0, <1>2, BoundsAssumption DEF DraftSucceeds, TypeOK
  <2>2. r \in Run /\ r.pc = "approval"
    BY <1>0, <2>1 DEF Drafted, Run, Nodes, Decisions
  <2>3. Vouched(r.pc, r, approved') /\ r.pc # "calling"
    BY <2>2 DEF Vouched
  <2> HIDE DEF r
  <2>4. QED
    BY <1>2, <2>2, <2>3, SuperstepGate DEF DraftSucceeds, r
<1>3. CASE DraftFails(s)
  <2> DEFINE r == [run[s] EXCEPT !.pc = "approval", !.answer = "none"]
  <2>1. r \in Run /\ r.pc = "approval"
    BY <1>0 DEF Run, Nodes, Decisions
  <2>2. Vouched(r.pc, r, approved') /\ r.pc # "calling"
    BY <2>1 DEF Vouched
  <2> HIDE DEF r
  <2>3. QED
    BY <1>3, <2>1, <2>2, SuperstepGate DEF DraftFails, r
<1>4. CASE ApprovalRaises(s)
  <2>1. /\ run' = [run EXCEPT ![s] = Idle] /\ approved' = approved /\ sends' = sends
        /\ thread' = NewThread \/ thread' = Checkpoint(run[s], "approval", FALSE)
    BY <1>4 DEF ApprovalRaises, Gone
  <2>2. Vouched(thread'.next, thread', approved')
    <3>1. CASE thread' = NewThread
      BY <3>1, IdleGate
    <3>2. CASE thread' = Checkpoint(run[s], "approval", FALSE)
      BY <3>2 DEF Checkpoint, Vouched
    <3>3. QED
      BY <2>1, <3>1, <3>2
  <2>3. QED
    BY <2>1, <2>2, IdleGate, LocalGate
<1>5. CASE ApprovalPauses(s)
  BY <1>0, <1>5, ReturnGate DEF ApprovalPauses
<1>6. CASE ApprovalReturns(s)
  <2> DEFINE r == Decided(run[s])
  <2>1. /\ r.pc \in {"draft", "execute"} /\ r.pending = run[s].pending
        /\ r.decision = run[s].answer
    BY <1>0 DEF Decided, Run
  <2>2. r \in Run
    BY <1>0, <2>1 DEF Decided, Run, Nodes, Decisions
  <2>3. Vouched(r.pc, r, approved') /\ r.pc # "calling" /\ approved \subseteq approved'
    BY <1>6, <2>1 DEF ApprovalReturns, Vouched
  <2> HIDE DEF r
  <2>4. QED
    BY <1>6, <2>2, <2>3, SuperstepGate DEF ApprovalReturns, r
<1>7. CASE ExecuteRefuses(s)
  BY <1>0, <1>7, ReturnGate DEF ExecuteRefuses
<1>8. CASE ExecuteCalls(s)
  <2>1. PICK ok \in BOOLEAN :
          /\ run' = [run EXCEPT ![s] = [@ EXCEPT !.pc = "calling", !.delivered = ok]]
          /\ sends' = IF ok THEN [sends EXCEPT ![run[s].pending] = @ + 1] ELSE sends
    BY <1>8 DEF ExecuteCalls
  <2>2. run[s].pending # 0 /\ run[s].pending \in approved
    BY <1>0, <1>8 DEF ExecuteCalls, Vouched
  <2>3. \A d \in Drafts : d # run[s].pending => sends'[d] = sends[d]
    BY <1>0, <2>1 DEF TypeOK
  <2>4. GateNeverBypassed'
    BY <1>0, <1>8, <2>2, <2>3 DEF GateCore, GateNeverBypassed, ExecuteCalls
  <2>5. \A x \in Sessions : x # s => run'[x] = run[x]
    BY <1>0, <2>1 DEF TypeOK
  <2>6. run'[s].pc = "calling" /\ run'[s].pending = run[s].pending
    BY <1>0, <2>1 DEF TypeOK, Run
  <2>7. UNCHANGED <<thread, approved>>
    BY <1>8 DEF ExecuteCalls
  <2>8. \A x \in Sessions : Vouched(run'[x].pc, run'[x], approved')
    BY <1>0, <2>5, <2>6, <2>7 DEF GateCore, Vouched
  <2>9. QED
    BY <1>0, <2>2, <2>4, <2>5, <2>6, <2>7, <2>8 DEF GateCore
<1>9. CASE ExecuteReturns(s)
  BY <1>0, <1>9, ReturnGate DEF ExecuteReturns
<1>10. QED
  BY <1>1, <1>2, <1>3, <1>4, <1>5, <1>6, <1>7, <1>8, <1>9 DEF GraphStep

LEMMA WriteLogGate ==
    ASSUME GateInv, NEW t \in tasks, WriteLog(t)
    PROVE  GateInv'
<1>1. tasks' \subseteq Sessions \X Drafts /\ audit' \subseteq Drafts
  BY DEF GateInv, TypeOK, WriteLog
<1>2. TypeOK'
  BY <1>1 DEF GateInv, TypeOK, WriteLog, threadVars, userVars
<1>3. QED
  BY <1>2 DEF GateInv, GateCore, GateNeverBypassed, WriteLog, threadVars

LEMMA NextGate == GateInv /\ [Next]_vars => GateInv'
<1> SUFFICES ASSUME GateInv, [Next]_vars PROVE GateInv'
  OBVIOUS
<1>1. ASSUME NEW s \in Sessions, GraphStep(s) PROVE GateInv'
  BY <1>1, GraphGate, GraphType DEF GateInv, GateCore
<1>2. ASSUME NEW s \in Sessions,
             \/ Start(s) \/ Stream(s) \/ \E n \in {"talk", "draft"} : Turn(s, n)
             \/ Check(s) \/ \E a \in {"confirm", "reject", "edit"} : Answer(s, a)
             \/ End(s) \/ Interrupt(s)
      PROVE  GateInv'
  BY <1>2, FrontGate, FrontType DEF GateInv
<1>3. CASE UNCHANGED vars
  BY <1>3 DEF GateInv, GateCore, GateNeverBypassed, TypeOK, vars
<1>4. QED
  BY <1>1, <1>2, <1>3, WriteLogGate DEF Next

THEOREM GateInvariant == Spec => []GateInv
<1>1. Init => GateInv
  BY InitType, InitGate DEF GateInv
<1>2. QED
  BY <1>1, NextGate, PTL DEF Spec

\* Every reachable state is well typed, for all constants.
THEOREM TypeCorrect == Spec => []TypeOK
  BY GateInvariant, PTL DEF GateInv

\* However many sessions share the thread, whatever they are and wherever they die, no
\* draft is carried out that approval_node did not return "confirm" for (ACT-04).
THEOREM GateHolds == Spec => []GateNeverBypassed
  BY GateInvariant, PTL DEF GateInv, GateCore

(***************************************************************************)
(* One front end on the thread.                                            *)
(***************************************************************************)

Credit(r, d) == IF Granting(r) /\ r.pending = d THEN 1 ELSE 0

\* What holds when v has the thread to itself: an interrupt is stored only with a
\* draft, the prompt shows that draft, a resume finds it, and every confirmation is
\* either still on its way to the provider or accounts for at most one send.
SoloThread(v) ==
    /\ thread.asked => thread.next = "approval" /\ thread.pending # 0
    /\ front[v] = "check" => thread.next = "end" \/ thread.asked
    /\ front[v] = "approve" => thread.asked /\ shown[v] = thread.pending
    /\ front[v] \in {"off", "listening", "check", "approve"} => run[v] = Idle

SoloAnswer(v) ==
    /\ run[v].answer # "none" => /\ run[v].pc = "approval"
                                 /\ run[v].pending # 0
                                 /\ last[run[v].pending] = run[v].answer
    /\ run[v].pc = "execute" /\ run[v].decision = "confirm"
         => last[run[v].pending] = "confirm"

SoloBooks(v) == \A d \in Drafts : sends[d] + Credit(run[v], d) <= confirms[d]

SoloInv(v) == SoloThread(v) /\ SoloAnswer(v) /\ SoloBooks(v)

LEMMA IdleFacts ==
    /\ Idle.pc = "idle" /\ Idle.answer = "none" /\ ~Granting(Idle)
    /\ \A d \in Drafts : Credit(Idle, d) = 0
    /\ NewThread.asked = FALSE
  BY DEF Idle, Granting, Credit, NewThread

LEMMA BooksBalance ==
    ASSUME TypeOK, NEW v \in Sessions, SoloBooks(v)
    PROVE  \A d \in Drafts : /\ sends[d] \in Nat /\ confirms[d] \in Nat
                             /\ sends[d] <= confirms[d]
<1>1. \A d \in Drafts : sends[d] \in Nat /\ confirms[d] \in Nat
  BY BoundsAssumption DEF TypeOK, Drafts
<1>2. QED
  BY <1>1 DEF SoloBooks, Credit

LEMMA InitSolo == ASSUME NEW v \in Sessions, Init PROVE SoloInv(v)
<1>1. run[v] = Idle /\ thread = NewThread /\ front[v] = "off"
  BY DEF Init
<1>2. SoloBooks(v)
  BY <1>1, IdleFacts, BoundsAssumption DEF SoloBooks, Init, Drafts
<1>3. QED
  BY <1>1, <1>2, IdleFacts DEF SoloInv, SoloThread, SoloAnswer

\* A step after which v has no run, and no new prompt.
LEMMA DropSolo ==
    ASSUME TypeOK, NEW v \in Sessions, SoloInv(v), run'[v] = Idle,
           thread'.asked => thread'.next = "approval" /\ thread'.pending # 0,
           front'[v] = "check" => thread'.next = "end" \/ thread'.asked,
           front'[v] # "approve", sends' = sends, confirms' = confirms
    PROVE  SoloInv(v)'
<1>1. SoloThread(v)' /\ SoloAnswer(v)'
  BY IdleFacts DEF SoloThread, SoloAnswer
<1>2. SoloBooks(v)'
  BY IdleFacts, BooksBalance DEF SoloBooks, SoloInv
<1>3. QED
  BY <1>1, <1>2 DEF SoloInv

LEMMA ReturnSolo ==
    ASSUME TypeOK, NEW v \in Sessions, SoloInv(v), NEW r \in Run, NEW n, NEW b \in BOOLEAN,
           Return(v, Checkpoint(r, n, b)),
           \/ n = "end" /\ b = FALSE
           \/ n = "approval" /\ b = TRUE /\ r.pending # 0,
           sends' = sends, confirms' = confirms
    PROVE  SoloInv(v)'
<1>1. run'[v] = Idle /\ front'[v] \in {"listening", "check"}
  BY DEF Return, TypeOK
<1>2. thread'.next = n /\ thread'.asked = b /\ thread'.pending = r.pending
  BY DEF Return, Checkpoint
<1>3. QED
  BY <1>1, <1>2, DropSolo

LEMMA SuperstepSolo ==
    ASSUME TypeOK, NEW v \in Sessions, SoloInv(v), NEW r \in Run, Superstep(v, r),
           run[v].pc # "idle", r.answer = "none",
           r.pc = "execute" /\ r.decision = "confirm" =>
               Granting(run[v]) /\ r.pending = run[v].pending /\ last[r.pending] = "confirm",
           sends' = sends, confirms' = confirms, last' = last
    PROVE  SoloInv(v)'
<1>1. run'[v] = r /\ front' = front
  BY DEF Superstep, TypeOK
<1>2. front[v] \notin {"off", "listening", "check", "approve"}
  BY IdleFacts DEF SoloInv, SoloThread
<1>3. thread' = thread \/ thread'.asked = FALSE
  BY DEF Superstep, Checkpoint
<1>4. SoloThread(v)'
  BY <1>1, <1>2, <1>3 DEF SoloInv, SoloThread
<1>5. SoloAnswer(v)'
  BY <1>1 DEF SoloAnswer
<1>6. \A d \in Drafts : Credit(r, d) = 0 \/ Credit(r, d) = Credit(run[v], d)
  BY DEF Credit, Granting
<1>7. SoloBooks(v)'
  BY <1>1, <1>6, BooksBalance DEF SoloInv, SoloBooks
<1>8. QED
  BY <1>4, <1>5, <1>7 DEF SoloInv
LEMMA FrontSolo ==
    ASSUME TypeOK, NEW v \in Sessions, SoloInv(v),
           \/ Start(v) \/ Stream(v) \/ \E n \in {"talk", "draft"} : Turn(v, n)
           \/ Check(v) \/ \E a \in {"confirm", "reject", "edit"} : Answer(v, a)
           \/ End(v) \/ Interrupt(v)
    PROVE  SoloInv(v)'
<1>0. SoloThread(v) /\ SoloAnswer(v) /\ SoloBooks(v)
  BY DEF SoloInv
<1>1. CASE Start(v) \/ Stream(v)
  <2>1. /\ front'[v] = "listening" /\ run[v] = Idle
        /\ UNCHANGED <<thread, run, sends, confirms>>
    BY <1>0, <1>1 DEF Start, Stream, SoloThread, TypeOK, userVars
  <2>2. QED
    BY <1>0, <2>1, DropSolo DEF SoloThread
<1>2. ASSUME NEW n \in {"talk", "draft"}, Turn(v, n) PROVE SoloInv(v)'
  <2> DEFINE r == Loaded(n, "turn", "none", first[v] \/ thread.user)
  <2>1. r.pc = n /\ r.answer = "none"
    BY DEF Loaded, Idle
  <2>2. run'[v] = r /\ front'[v] = "turn" /\ UNCHANGED <<sends, confirms, last>>
    BY <1>2 DEF Turn, TypeOK, userVars
  <2> HIDE DEF r
  <2>3. thread' = thread \/ thread'.asked = FALSE
    BY <1>2 DEF Turn, Checkpoint
  <2>4. SoloThread(v)' /\ SoloAnswer(v)'
    BY <1>0, <2>1, <2>2, <2>3 DEF SoloThread, SoloAnswer
  <2>5. \A d \in Drafts : Credit(r, d) = 0
    BY <2>1 DEF Credit, Granting
  <2>6. SoloBooks(v)'
    BY <1>0, <2>2, <2>5, BooksBalance DEF SoloBooks
  <2>7. QED
    BY <2>4, <2>6 DEF SoloInv
<1>3. CASE Check(v)
  <2>1. /\ run[v] = Idle /\ run' = run /\ thread' = thread
        /\ UNCHANGED <<sends, confirms, last>>
    BY <1>0, <1>3 DEF Check, SoloThread, userVars
  <2>2. CASE thread.next = "end"
    <3>1. front'[v] = "listening"
      BY <1>3, <2>2 DEF Check, TypeOK
    <3>2. QED
      BY <1>0, <2>1, <3>1, DropSolo DEF SoloThread
  <2>3. CASE thread.next # "end"
    <3>1. thread.asked /\ front'[v] = "approve" /\ shown'[v] = thread.pending
      BY <1>0, <1>3, <2>3 DEF Check, TypeOK, SoloThread
    <3>2. SoloThread(v)' /\ SoloAnswer(v)'
      BY <1>0, <2>1, <3>1, IdleFacts DEF SoloThread, SoloAnswer
    <3>3. SoloBooks(v)'
      BY <1>0, <2>1 DEF SoloBooks
    <3>4. QED
      BY <3>2, <3>3 DEF SoloInv
  <2>4. QED
    BY <2>2, <2>3
<1>4. ASSUME NEW a \in {"confirm", "reject", "edit"}, Answer(v, a) PROVE SoloInv(v)'
  <2>1. /\ thread.asked /\ thread.next = "approval" /\ run[v] = Idle
        /\ shown[v] = thread.pending /\ thread.pending # 0
    BY <1>0, <1>4 DEF Answer, SoloThread
  <2> DEFINE r == Loaded("approval", "resume", a, thread.user)
  <2>2. r.pc = "approval" /\ r.answer = a /\ r.pending = thread.pending
    BY DEF Loaded, Idle
  <2>3. run'[v] = r /\ front'[v] \in {"edit", "decided"}
    BY <1>4, <2>1 DEF Answer, TypeOK
  <2> HIDE DEF r
  <2>4. thread' = thread /\ sends' = sends /\ last'[thread.pending] = a
    <3>1. /\ thread' = thread /\ sends' = sends
          /\ last' = [last EXCEPT ![thread.pending] = a]
      BY <1>4, <2>1 DEF Answer
    <3>2. thread.pending \in 0..MaxDrafts /\ last \in [0..MaxDrafts -> Decisions]
      BY DEF TypeOK, Thread
    <3>3. QED
      BY <3>1, <3>2
  <2>5. SoloThread(v)' /\ SoloAnswer(v)'
    BY <1>0, <2>1, <2>2, <2>3, <2>4 DEF SoloThread, SoloAnswer
  <2>6. ASSUME NEW d \in Drafts PROVE sends'[d] + Credit(run'[v], d) <= confirms'[d]
    <3>1. sends[d] \in Nat /\ confirms[d] \in Nat /\ sends[d] <= confirms[d]
      BY <1>0, BooksBalance
    <3>2. CASE a = "confirm" /\ d = thread.pending
      <4>1. confirms'[d] = confirms[d] + 1
        <5>1. confirms' = [confirms EXCEPT ![thread.pending] = @ + 1]
          BY <1>4, <2>1, <3>2 DEF Answer
        <5>2. thread.pending \in 0..MaxDrafts /\ confirms \in [0..MaxDrafts -> 0..MaxConfirms]
          BY DEF TypeOK, Thread
        <5>3. QED
          BY <3>2, <5>1, <5>2
      <4>2. Credit(run'[v], d) \in {0, 1}
        BY DEF Credit
      <4>3. QED
        BY <2>4, <3>1, <4>1, <4>2
    <3>3. CASE ~(a = "confirm" /\ d = thread.pending)
      <4>1. confirms'[d] = confirms[d]
        <5>1. CASE a # "confirm"
          BY <1>4, <5>1 DEF Answer
        <5>2. CASE d # thread.pending
          <6>1. confirms' = confirms \/ confirms' = [confirms EXCEPT ![thread.pending] = @ + 1]
            BY <1>4, <2>1 DEF Answer
          <6>2. d \in 0..MaxDrafts /\ confirms \in [0..MaxDrafts -> 0..MaxConfirms]
            BY BoundsAssumption DEF TypeOK, Drafts
          <6>3. QED
            BY <5>2, <6>1, <6>2
        <5>3. QED
          BY <3>3, <5>1, <5>2
      <4>2. Credit(run'[v], d) = 0
        BY <2>2, <2>3, <3>3 DEF Credit, Granting
      <4>3. QED
        BY <2>4, <3>1, <4>1, <4>2
    <3>4. QED
      BY <3>2, <3>3
  <2>7. SoloBooks(v)'
    BY <2>6 DEF SoloBooks
  <2>8. QED
    BY <2>5, <2>7 DEF SoloInv
<1>5. CASE End(v)
  <2>1. /\ run'[v] = Idle /\ front'[v] = "off" /\ sends' = sends /\ confirms' = confirms
        /\ thread' = NewThread \/ thread' = thread
    BY <1>5 DEF End, Gone, TypeOK, userVars
  <2>2. QED
    BY <1>0, <2>1, IdleFacts, DropSolo DEF SoloThread
<1>6. CASE Interrupt(v)
  <2>1. /\ run'[v] = Idle /\ front'[v] = "listening"
        /\ UNCHANGED <<thread, sends, confirms>>
    BY <1>6 DEF Interrupt, TypeOK, userVars
  <2>2. QED
    BY <1>0, <2>1, DropSolo DEF SoloThread
<1>7. QED
  BY <1>1, <1>2, <1>3, <1>4, <1>5, <1>6

LEMMA GraphSolo ==
    ASSUME TypeOK, NEW v \in Sessions, SoloInv(v), GraphStep(v)
    PROVE  SoloInv(v)'
<1>0. /\ SoloThread(v) /\ SoloAnswer(v) /\ SoloBooks(v)
      /\ run[v] \in Run /\ Cleared(run[v]) \in Run
  BY ClearedType DEF SoloInv, TypeOK
<1>1. CASE Talk(v)
  BY <1>0, <1>1, ReturnSolo DEF Talk, userVars
<1>2. CASE DraftSucceeds(v)
  <2> DEFINE r == Drafted(run[v], made + 1)
  <2>1. made + 1 \in 0..MaxDrafts
    BY <1>2, BoundsAssumption DEF DraftSucceeds, TypeOK
  <2>2. r \in Run /\ r.pc = "approval" /\ r.answer = "none"
    BY <1>0, <2>1 DEF Drafted, Run, Nodes, Decisions
  <2> HIDE DEF r
  <2>3. QED
    BY <1>2, <2>2, SuperstepSolo DEF DraftSucceeds, userVars, r
<1>3. CASE DraftFails(v)
  <2> DEFINE r == [run[v] EXCEPT !.pc = "approval", !.answer = "none"]
  <2>1. r \in Run /\ r.pc = "approval" /\ r.answer = "none"
    BY <1>0 DEF Run, Nodes, Decisions
  <2> HIDE DEF r
  <2>2. QED
    BY <1>3, <2>1, SuperstepSolo DEF DraftFails, userVars, r
<1>4. CASE ApprovalRaises(v)
  <2>1. /\ run'[v] = Idle /\ front'[v] \in {"off", "listening"}
        /\ sends' = sends /\ confirms' = confirms
    BY <1>4 DEF ApprovalRaises, Gone, TypeOK, userVars
  <2>2. thread'.asked = FALSE
    BY <1>4, IdleFacts DEF ApprovalRaises, Checkpoint
  <2>3. QED
    BY <2>1, <2>2, DropSolo
<1>5. CASE ApprovalPauses(v)
  BY <1>0, <1>5, ReturnSolo DEF ApprovalPauses, userVars
<1>6. CASE ApprovalReturns(v)
  <2> DEFINE r == Decided(run[v])
  <2>1. /\ r.pc \in {"draft", "execute"} /\ r.pending = run[v].pending
        /\ r.decision = run[v].answer /\ r.answer = "none"
    BY <1>0 DEF Decided, Run
  <2>2. r \in Run
    BY <1>0, <2>1 DEF Decided, Run, Nodes, Decisions
  <2>3. r.decision = "confirm" => /\ Granting(run[v])
                                  /\ last[r.pending] = "confirm"
    BY <1>0, <1>6, <2>1 DEF ApprovalReturns, Granting, SoloAnswer
  <2> HIDE DEF r
  <2>4. QED
    BY <1>6, <2>1, <2>2, <2>3, SuperstepSolo DEF ApprovalReturns, userVars, r
<1>7. CASE ExecuteRefuses(v)
  BY <1>0, <1>7, ReturnSolo DEF ExecuteRefuses, userVars
<1>8. CASE ExecuteCalls(v)
  <2>1. PICK ok \in BOOLEAN :
          /\ run' = [run EXCEPT ![v] = [@ EXCEPT !.pc = "calling", !.delivered = ok]]
          /\ sends' = IF ok THEN [sends EXCEPT ![run[v].pending] = @ + 1] ELSE sends
    BY <1>8 DEF ExecuteCalls
  <2>2. run'[v].pc = "calling" /\ run'[v].answer = run[v].answer
    BY <1>0, <2>1 DEF TypeOK, Run
  <2>3. run[v].answer = "none" /\ Granting(run[v])
    BY <1>0, <1>8 DEF SoloAnswer, ExecuteCalls, Granting
  <2>4. UNCHANGED <<thread, front, shown, confirms, last>>
    BY <1>8 DEF ExecuteCalls, userVars
  <2>5. front[v] \notin {"off", "listening", "check", "approve"}
    BY <1>0, <1>8, IdleFacts DEF ExecuteCalls, SoloThread
  <2>6. SoloThread(v)' /\ SoloAnswer(v)'
    BY <1>0, <2>2, <2>3, <2>4, <2>5 DEF SoloThread, SoloAnswer
  <2>7. ASSUME NEW d \in Drafts PROVE sends'[d] + Credit(run'[v], d) <= confirms'[d]
    <3>1. sends[d] \in Nat /\ confirms[d] \in Nat
      BY <1>0, BooksBalance
    <3>2. Credit(run'[v], d) = 0
      BY <2>2 DEF Credit, Granting
    <3>3. CASE d = run[v].pending
      <4>1. sends[d] + 1 <= confirms[d]
        BY <1>0, <2>3, <3>3 DEF SoloBooks, Credit
      <4>2. sends'[d] = sends[d] \/ sends'[d] = sends[d] + 1
        BY <2>1, <3>3 DEF TypeOK
      <4>3. QED
        BY <2>4, <3>1, <3>2, <4>1, <4>2
    <3>4. CASE d # run[v].pending
      <4>1. sends'[d] = sends[d]
        BY <2>1, <3>4 DEF TypeOK
      <4>2. QED
        BY <1>0, <2>4, <3>1, <3>2, <4>1, BooksBalance
    <3>5. QED
      BY <3>3, <3>4
  <2>8. SoloBooks(v)'
    BY <2>7 DEF SoloBooks
  <2>9. QED
    BY <2>6, <2>8 DEF SoloInv
<1>9. CASE ExecuteReturns(v)
  BY <1>0, <1>9, ReturnSolo DEF ExecuteReturns, userVars
<1>10. QED
  BY <1>1, <1>2, <1>3, <1>4, <1>5, <1>6, <1>7, <1>8, <1>9 DEF GraphStep

LEMMA NextSolo ==
    ASSUME NEW v, Sessions = {v}
    PROVE  TypeOK /\ SoloInv(v) /\ [Next]_vars => SoloInv(v)'
<1> SUFFICES ASSUME TypeOK, SoloInv(v), [Next]_vars PROVE SoloInv(v)'
  OBVIOUS
<1>1. CASE GraphStep(v)
  BY <1>1, GraphSolo
<1>2. CASE \/ Start(v) \/ Stream(v) \/ \E n \in {"talk", "draft"} : Turn(v, n)
           \/ Check(v) \/ \E a \in {"confirm", "reject", "edit"} : Answer(v, a)
           \/ End(v) \/ Interrupt(v)
  BY <1>2, FrontSolo
<1>3. CASE UNCHANGED <<threadVars, sends, userVars>>
  BY <1>3 DEF SoloInv, SoloThread, SoloAnswer, SoloBooks, threadVars, userVars
<1>4. ASSUME NEW t \in tasks, WriteLog(t) PROVE UNCHANGED <<threadVars, sends, userVars>>
  BY <1>4 DEF WriteLog
<1>5. UNCHANGED vars => UNCHANGED <<threadVars, sends, userVars>>
  BY DEF vars, threadVars, userVars
<1>6. QED
  BY <1>1, <1>2, <1>3, <1>4, <1>5 DEF Next

THEOREM SoloInvariant == ASSUME NEW v, Sessions = {v} PROVE Spec => []SoloInv(v)
<1>1. Init => SoloInv(v)
  BY InitSolo
<1>2. TypeOK /\ SoloInv(v) /\ [Next]_vars => SoloInv(v)'
  BY NextSolo
<1>3. QED
  BY <1>1, <1>2, TypeCorrect, PTL DEF Spec

\* A front end with the thread to itself never carries a draft out more often than its
\* user confirmed a preview of that draft, crashes and restarts included (ACT-04).
THEOREM SoloConfirmed ==
    ASSUME NEW v, Sessions = {v} PROVE Spec => []ConfirmedBeforeSent
<1>1. TypeOK /\ SoloInv(v) => ConfirmedBeforeSent
  BY BooksBalance DEF SoloInv, ConfirmedBeforeSent
<1>2. QED
  BY <1>1, SoloInvariant, TypeCorrect, PTL

\* What its prompt shows is what a resume will act on.
THEOREM SoloPrompt ==
    ASSUME NEW v, Sessions = {v} PROVE Spec => []PromptShowsPending
<1>1. SoloInv(v) => PromptShowsPending
  BY DEF SoloInv, SoloThread, PromptShowsPending
<1>2. QED
  BY <1>1, SoloInvariant, PTL
\* Only ExecuteCalls carries anything out, and only the run's pending draft.
LEMMA SendsOnlyInCall ==
    ASSUME TypeOK, NEW v, Sessions = {v}, [Next]_vars
    PROVE  sends' = sends \/ ExecuteCalls(v)
<1>1. CASE UNCHANGED vars
  BY <1>1 DEF vars
<1>2. ASSUME NEW t \in tasks, WriteLog(t) PROVE sends' = sends
  BY <1>2 DEF WriteLog
<1>3. CASE GraphStep(v)
  BY <1>3 DEF GraphStep, Talk, DraftSucceeds, DraftFails, ApprovalRaises, ApprovalPauses,
              ApprovalReturns, ExecuteRefuses, ExecuteReturns
<1>4. CASE \/ Start(v) \/ Stream(v) \/ \E n \in {"talk", "draft"} : Turn(v, n)
           \/ Check(v) \/ \E a \in {"confirm", "reject", "edit"} : Answer(v, a)
           \/ End(v) \/ Interrupt(v)
  BY <1>4 DEF Start, Stream, Turn, Check, Answer, End, Interrupt
<1>5. QED
  BY <1>1, <1>2, <1>3, <1>4 DEF Next

\* The latest answer to a draft's preview governs: after a "reject" or an edit, an old
\* confirmation left in a checkpoint cannot send it.
THEOREM SoloLastAnswer ==
    ASSUME NEW v, Sessions = {v} PROVE Spec => LastAnswerGoverns
<1>1. ASSUME TypeOK, SoloInv(v), [Next]_vars
      PROVE  [\A d \in Drafts : sends'[d] > sends[d] => last[d] = "confirm"]_vars
  <2>1. ASSUME NEW d \in Drafts, sends'[d] > sends[d] PROVE last[d] = "confirm"
    <3>1. sends[d] \in Nat /\ ~(sends[d] > sends[d])
      BY <1>1 DEF TypeOK
    <3>2. ExecuteCalls(v)
      BY <1>1, <2>1, <3>1, SendsOnlyInCall
    <3>3. d = run[v].pending
      BY <1>1, <2>1, <3>1, <3>2 DEF ExecuteCalls, TypeOK
    <3>4. QED
      BY <1>1, <3>2, <3>3 DEF ExecuteCalls, SoloInv, SoloAnswer
  <2>2. QED
    BY <2>1
<1>2. QED
  BY <1>1, SoloInvariant, TypeCorrect, PTL DEF Spec, LastAnswerGoverns

(***************************************************************************)
(* The refinement: every step of a lone front end is a step of the gate.   *)
(***************************************************************************)
LEMMA SoloGateState ==
    ASSUME NEW v, Sessions = {v}
    PROVE  /\ Offered = IF front[v] = "approve" /\ shown[v] # 0 THEN {shown[v]} ELSE {}
           /\ Granted = IF Granting(run[v]) THEN {run[v].pending} ELSE {}
  BY DEF Offered, Granted

LEMMA InitRefines == ASSUME NEW v, Sessions = {v}, Init PROVE Gate!GateInit
<1>1. run[v] = Idle /\ front[v] = "off" /\ sends = [d \in Drafts |-> 0]
  BY DEF Init
<1>2. Offered = {} /\ Granted = {}
  BY <1>1, SoloGateState, IdleFacts
<1>3. QED
  BY <1>1, <1>2 DEF Gate!GateInit

\* A step that leaves no prompt and no grant, or changes neither.
LEMMA LapseRefines ==
    ASSUME sends' = sends, \/ Offered' = {} /\ Granted' = {}
                           \/ Offered' = Offered /\ Granted' = Granted
    PROVE  [Gate!GateNext]_(Gate!gateVars)
  BY DEF Gate!GateNext, Gate!Lapse, Gate!gateVars
LEMMA FrontRefines ==
    ASSUME TypeOK, NEW v, Sessions = {v}, SoloInv(v),
           \/ Start(v) \/ Stream(v) \/ \E n \in {"talk", "draft"} : Turn(v, n)
           \/ Check(v) \/ \E a \in {"confirm", "reject", "edit"} : Answer(v, a)
           \/ End(v) \/ Interrupt(v)
    PROVE  [Gate!GateNext]_(Gate!gateVars)
<1>0. SoloThread(v) /\ v \in Sessions
  BY DEF SoloInv
<1>1. /\ Offered = IF front[v] = "approve" /\ shown[v] # 0 THEN {shown[v]} ELSE {}
      /\ Granted = IF Granting(run[v]) THEN {run[v].pending} ELSE {}
      /\ Offered' = IF front'[v] = "approve" /\ shown'[v] # 0 THEN {shown'[v]} ELSE {}
      /\ Granted' = IF Granting(run'[v]) THEN {run'[v].pending} ELSE {}
  BY DEF Offered, Granted
<1>2. CASE Start(v) \/ Stream(v) \/ End(v) \/ Interrupt(v)
  <2>1. /\ run'[v] = Idle \/ run' = run
        /\ front'[v] \in {"listening", "off"} /\ sends' = sends
    BY <1>0, <1>2 DEF Start, Stream, End, Gone, Interrupt, TypeOK
  <2>2. run'[v] = Idle
    BY <1>0, <1>2, <2>1 DEF Start, Stream, End, Gone, Interrupt, SoloThread, TypeOK
  <2>3. Offered' = {} /\ Granted' = {}
    BY <1>1, <2>1, <2>2, IdleFacts
  <2>4. QED
    BY <2>1, <2>3, LapseRefines
<1>3. ASSUME NEW n \in {"talk", "draft"}, Turn(v, n) PROVE [Gate!GateNext]_(Gate!gateVars)
  <2>1. /\ run'[v] = Loaded(n, "turn", "none", first[v] \/ thread.user)
        /\ front'[v] = "turn" /\ sends' = sends
    BY <1>0, <1>3 DEF Turn, TypeOK
  <2>2. ~Granting(run'[v])
    BY <2>1 DEF Granting, Loaded, Idle
  <2>3. QED
    BY <1>1, <2>1, <2>2, LapseRefines
<1>4. CASE Check(v)
  <2>1. run[v] = Idle /\ run' = run /\ sends' = sends
    BY <1>0, <1>4 DEF Check, SoloThread
  <2>2. Granted = {} /\ Granted' = {}
    BY <1>1, <2>1, IdleFacts
  <2>3. CASE Offered' = {}
    BY <2>1, <2>2, <2>3, LapseRefines
  <2>4. CASE Offered' # {}
    <3>1. shown'[v] \in Drafts /\ Offered' = {shown'[v]}
      <4>1. shown'[v] = thread.pending /\ shown'[v] # 0 /\ Offered' = {shown'[v]}
        BY <1>0, <1>1, <1>4, <2>4 DEF Check, TypeOK, SoloThread
      <4>2. QED
        BY <4>1, BoundsAssumption DEF TypeOK, Thread, Drafts
    <3>2. Gate!Offer(shown'[v])
      BY <2>1, <2>2, <3>1 DEF Gate!Offer
    <3>3. QED
      BY <3>1, <3>2 DEF Gate!GateNext
  <2>5. QED
    BY <2>3, <2>4
<1>5. ASSUME NEW a \in {"confirm", "reject", "edit"}, Answer(v, a)
      PROVE  [Gate!GateNext]_(Gate!gateVars)
  <2>1. /\ thread.asked /\ thread.next = "approval" /\ run[v] = Idle
        /\ shown[v] = thread.pending /\ thread.pending # 0
    BY <1>0, <1>5 DEF Answer, SoloThread
  <2>2. /\ run'[v] = Loaded("approval", "resume", a, thread.user)
        /\ front'[v] \in {"edit", "decided"} /\ sends' = sends
    BY <1>0, <1>5, <2>1 DEF Answer, TypeOK
  <2>3. Offered = {thread.pending} /\ Offered' = {}
    BY <1>1, <1>5, <2>1, <2>2 DEF Answer
  <2>4. /\ run'[v].pc = "approval" /\ run'[v].answer = a
        /\ run'[v].pending = thread.pending
    BY <2>2 DEF Loaded, Idle
  <2>5. CASE a = "confirm"
    <3>1. Granted' = {thread.pending}
      BY <1>1, <2>4, <2>5 DEF Granting
    <3>2. thread.pending \in Drafts
      BY <2>1, BoundsAssumption DEF TypeOK, Thread, Drafts
    <3>3. Gate!Grant(thread.pending)
      BY <2>2, <2>3, <3>1 DEF Gate!Grant
    <3>4. QED
      BY <3>2, <3>3 DEF Gate!GateNext
  <2>6. CASE a # "confirm"
    <3>1. Granted' = {}
      BY <1>1, <2>4, <2>6 DEF Granting
    <3>2. QED
      BY <2>2, <2>3, <3>1, LapseRefines
  <2>7. QED
    BY <2>5, <2>6
<1>6. QED
  BY <1>2, <1>3, <1>4, <1>5
LEMMA GraphRefines ==
    ASSUME GateInv, NEW v, Sessions = {v}, SoloInv(v), GraphStep(v)
    PROVE  [Gate!GateNext]_(Gate!gateVars)
<1>0. /\ TypeOK /\ v \in Sessions /\ run[v] \in Run
      /\ SoloThread(v) /\ SoloAnswer(v)
      /\ front[v] \notin {"off", "listening", "check", "approve"}
  <2>1. run[v].pc # "idle"
    BY DEF GraphStep, Talk, DraftSucceeds, DraftFails, ApprovalRaises, ApprovalPauses,
           ApprovalReturns, ExecuteRefuses, ExecuteCalls, ExecuteReturns
  <2>2. QED
    BY <2>1, IdleFacts DEF GateInv, SoloInv, SoloThread, TypeOK
<1>1. /\ Offered = {}
      /\ Granted = IF Granting(run[v]) THEN {run[v].pending} ELSE {}
      /\ front'[v] # "approve" => Offered' = {}
      /\ Granted' = IF Granting(run'[v]) THEN {run'[v].pending} ELSE {}
  BY <1>0 DEF Offered, Granted
<1>2. ASSUME sends' = sends, front'[v] # "approve", ~Granting(run'[v])
      PROVE  [Gate!GateNext]_(Gate!gateVars)
  BY <1>1, <1>2, LapseRefines
<1>3. ASSUME NEW c, Return(v, c), sends' = sends PROVE [Gate!GateNext]_(Gate!gateVars)
  BY <1>0, <1>2, <1>3, IdleFacts DEF Return, TypeOK
<1>4. CASE Talk(v) \/ ApprovalPauses(v) \/ ExecuteRefuses(v) \/ ExecuteReturns(v)
  BY <1>3, <1>4 DEF Talk, ApprovalPauses, ExecuteRefuses, ExecuteReturns
<1>5. CASE DraftSucceeds(v) \/ DraftFails(v)
  <2>1. run'[v].pc = "approval" /\ run'[v].answer = "none"
    <3>1. \/ run'[v] = Drafted(run[v], made + 1)
          \/ run'[v] = [run[v] EXCEPT !.pc = "approval", !.answer = "none"]
      BY <1>0, <1>5 DEF DraftSucceeds, DraftFails, Superstep, TypeOK
    <3>2. /\ Drafted(run[v], made + 1).pc = "approval"
          /\ Drafted(run[v], made + 1).answer = "none"
      BY <1>0 DEF Drafted, Run
    <3>3. QED
      BY <1>0, <3>1, <3>2 DEF Run
  <2>2. front' = front /\ sends' = sends
    BY <1>5 DEF DraftSucceeds, DraftFails, Superstep
  <2>3. QED
    BY <1>0, <1>2, <2>1, <2>2 DEF Granting
<1>6. CASE ApprovalRaises(v)
  <2>1. run'[v] = Idle /\ front'[v] \in {"off", "listening"} /\ sends' = sends
    BY <1>0, <1>6 DEF ApprovalRaises, Gone, TypeOK
  <2>2. QED
    BY <1>2, <2>1, IdleFacts
<1>7. CASE ApprovalReturns(v)
  <2>1. /\ run'[v] = Decided(run[v]) /\ front' = front /\ sends' = sends
        /\ run[v].pc = "approval" /\ run[v].answer # "none"
    BY <1>0, <1>7 DEF ApprovalReturns, Superstep, TypeOK
  <2>2. /\ run'[v].pc = (IF run[v].answer = "edit" THEN "draft" ELSE "execute")
        /\ run'[v].decision = run[v].answer /\ run'[v].pending = run[v].pending
    BY <1>0, <2>1 DEF Decided, Run
  <2>3. CASE run[v].answer = "confirm"
    <3>1. Granting(run[v]) /\ Granting(run'[v])
      BY <2>1, <2>2, <2>3 DEF Granting
    <3>2. Offered' = Offered /\ Granted' = Granted
      BY <1>0, <1>1, <2>1, <2>2, <3>1
    <3>3. QED
      BY <2>1, <3>2, LapseRefines
  <2>4. CASE run[v].answer # "confirm"
    BY <1>0, <1>2, <2>1, <2>2, <2>4 DEF Granting
  <2>5. QED
    BY <2>3, <2>4
<1>8. CASE ExecuteCalls(v)
  <2>1. PICK ok \in BOOLEAN :
          /\ run' = [run EXCEPT ![v] = [@ EXCEPT !.pc = "calling", !.delivered = ok]]
          /\ sends' = IF ok THEN [sends EXCEPT ![run[v].pending] = @ + 1] ELSE sends
    BY <1>8 DEF ExecuteCalls
  <2>2. run'[v].pc = "calling" /\ front' = front
    BY <1>0, <1>8, <2>1 DEF ExecuteCalls, TypeOK, Run
  <2>3. ~Granting(run'[v])
    BY <2>2 DEF Granting
  <2>4. CASE ~ok
    BY <1>0, <1>2, <2>1, <2>2, <2>3, <2>4
  <2>5. CASE ok
    <3>1. Granted = {run[v].pending} /\ Granted' = {} /\ Offered' = Offered
      BY <1>0, <1>1, <1>8, <2>2, <2>3 DEF ExecuteCalls, Granting
    <3>2. run[v].pending \in Drafts
      <4>1. run[v].pending # 0
        BY <1>0, <1>8 DEF GateInv, GateCore, Vouched, ExecuteCalls
      <4>2. QED
        BY <1>0, <4>1, BoundsAssumption DEF Run, Drafts
    <3>3. Gate!Spend(run[v].pending)
      BY <2>1, <2>5, <3>1 DEF Gate!Spend
    <3>4. QED
      BY <3>2, <3>3 DEF Gate!GateNext
  <2>6. QED
    BY <2>4, <2>5
<1>9. QED
  BY <1>4, <1>5, <1>6, <1>7, <1>8 DEF GraphStep

\* A front end with the thread to itself implements ApprovalGate: nothing is carried
\* out but the draft the user was shown and confirmed, and a confirmation is spent by
\* the first send.
THEOREM SoloGate == ASSUME NEW v, Sessions = {v} PROVE Spec => GatePromise
<1>1. Init => Gate!GateInit
  BY InitRefines
<1>2. GateInv /\ SoloInv(v) /\ [Next]_vars => [Gate!GateNext]_(Gate!gateVars)
  <2> SUFFICES ASSUME GateInv, SoloInv(v), [Next]_vars
               PROVE  [Gate!GateNext]_(Gate!gateVars)
    OBVIOUS
  <2>0. TypeOK
    BY DEF GateInv
  <2>1. CASE GraphStep(v)
    BY <2>1, GraphRefines
  <2>2. CASE \/ Start(v) \/ Stream(v) \/ \E n \in {"talk", "draft"} : Turn(v, n)
             \/ Check(v) \/ \E a \in {"confirm", "reject", "edit"} : Answer(v, a)
             \/ End(v) \/ Interrupt(v)
    BY <2>0, <2>2, FrontRefines
  <2>3. CASE UNCHANGED <<threadVars, sends>>
    <3>1. Offered' = Offered /\ Granted' = Granted /\ sends' = sends
      BY <2>3 DEF threadVars, Offered, Granted
    <3>2. QED
      BY <3>1, LapseRefines
  <2>4. ASSUME NEW t \in tasks, WriteLog(t) PROVE UNCHANGED <<threadVars, sends>>
    BY <2>4 DEF WriteLog
  <2>5. UNCHANGED vars => UNCHANGED <<threadVars, sends>>
    BY DEF vars, threadVars
  <2>6. QED
    BY <2>1, <2>2, <2>3, <2>4, <2>5 DEF Next
<1>3. QED
  BY <1>1, <1>2, GateInvariant, SoloInvariant, PTL DEF Spec, GatePromise, Gate!GateSpec
=============================================================================
