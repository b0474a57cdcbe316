--------------------------- MODULE MCOrchestrator ---------------------------
(* Instances of Orchestrator for TLC.  Volatile and the bounds are given in *)
(* the configurations.                                                      *)
EXTENDS Orchestrator, TLC

CONSTANTS voice, worker, chat

OnlyVoice == {voice}
OnlyChat == {chat}
VoiceAndWorker == {voice, worker}

\* last is read by no action: runs whose properties do not mention it ignore it.
WithoutLast == <<thread, run, front, first, shown, made, starts, sends, confirms,
                 approved, tasks, audit, crashed>>

KindVoice == (voice :> "voice")
KindChat == (chat :> "chat")
KindVoiceAndWorker == (voice :> "voice") @@ (worker :> "worker")
=============================================================================
