-------------------------- MODULE InstanceLifecycle --------------------------
(***************************************************************************)
(* What clients of a workspace instance rely on: the lifecycle in the      *)
(* state file and in op status, when commands are served, and why the      *)
(* instance stopped.  Instance.tla implements it with bridge = ReadyBridge *)
(* read as serving.                                                        *)
(***************************************************************************)

VARIABLES
  state, reason,   \* the published state and its reason
  cause,           \* the first stop reason, "none" while none was given
  serving          \* commands are served

vars == <<state, reason, cause, serving>>

Causes == {"stop_requested", "signal", "container_stopped"}
Ended  == {"stopped", "failed"}

Init == state = "starting" /\ reason = "none" /\ cause = "none" /\ serving = FALSE

\* Somebody wants the instance to stop; later reasons are ignored.
WantStop(c) == cause = "none" /\ cause' = c /\ UNCHANGED <<state, reason, serving>>

StartConnecting ==
  /\ state = "starting"
  /\ state' = "connecting" /\ reason' = "none"
  /\ UNCHANGED <<cause, serving>>

\* Commands may be served from now on, unless the bridge has failed already.
BecomeReady ==
  /\ state \in {"connecting", "reconnecting"}
  /\ state' = "ready" /\ reason' = "none"
  /\ serving' \in BOOLEAN
  /\ UNCHANGED cause

\* A bridge that failed never serves again: only BecomeReady starts serving.
StopServing == serving /\ serving' = FALSE /\ UNCHANGED <<state, reason, cause>>

\* A loss is announced only after commands are refused.
AnnounceLoss ==
  /\ state = "ready" /\ ~serving
  /\ state' = "reconnecting" /\ reason' = "bridge_lost"
  /\ UNCHANGED <<cause, serving>>

\* From every live state, but never twice; commands are refused at once.
AnnounceStop ==
  /\ state \notin Ended \cup {"stopping"}
  /\ state' = "stopping" /\ reason' = cause
  /\ serving' = FALSE
  /\ UNCHANGED cause

\* A clean end repeats the cause it announced.
Stop ==
  /\ state = "stopping" /\ reason = cause /\ cause # "none"
  /\ state' = "stopped"
  /\ UNCHANGED <<reason, cause, serving>>

Fail ==
  /\ state \in {"starting", "stopping"}
  /\ state' = "failed" /\ reason' = "error"
  /\ UNCHANGED <<cause, serving>>

Next ==
  \/ \E c \in Causes : WantStop(c)
  \/ StartConnecting \/ BecomeReady \/ StopServing \/ AnnounceLoss
  \/ AnnounceStop \/ Stop \/ Fail

Spec == Init /\ [][Next]_vars

\* A stopping instance ends, and a wanted stop is announced.
FairSpec ==
  /\ Spec
  /\ WF_vars(Stop \/ Fail)
  /\ WF_vars(cause # "none" /\ AnnounceStop)
=============================================================================
