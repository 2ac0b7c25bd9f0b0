------------------------------ MODULE MCCalls ------------------------------
(* Calls of checked mutations in three scenes for TLC: commands that the   *)
(* guards must refuse, two callers in each other's way, and one caller     *)
(* that submits its command again and again.                               *)
EXTENDS MCCheckedMutation

VARIABLE scene

callsVars == <<vars, scene>>
Scenes == {"guards", "rivals", "retry"}
CallersOf(s) == IF s = "retry" THEN {p1} ELSE {p1, p2}
EnvelopesOf(s) == IF s = "guards" THEN {e1, e4, e5, e6} ELSE {e1}
FaultsOf(s) == IF s = "retry" THEN 3 ELSE 1

Submitting(p) ==
  /\ \E e \in EnvelopesOf(scene) : Start(p, e)
  /\ UNCHANGED <<faults, scene>>
Working(p) == Work(p) /\ UNCHANGED scene
Deciding(e) == ServerDecides(e) /\ UNCHANGED scene
Disturbing(p) == faults < FaultsOf(scene) /\ Fault(p) /\ UNCHANGED scene
Declining == scene # "guards" /\ (\E t \in Cancellable : Cancel(t)) /\ UNCHANGED scene

CallsInit == scene \in Scenes /\ Init
CallsNext ==
  \/ \E p \in CallersOf(scene) : Submitting(p) \/ Working(p) \/ Disturbing(p)
  \/ \E e \in EnvelopesOf(scene) : Deciding(e)
  \/ Declining

\* The fairness of FairSpec, and in the scene "retry" a user who submits again.
CallsSpec ==
  /\ CallsInit /\ [][CallsNext]_callsVars
  /\ \A p \in Callers : WF_callsVars(Working(p))
  /\ \A e \in Envelopes : WF_callsVars(Deciding(e))
  /\ WF_callsVars(scene = "retry" /\ Submitting(p1))

\* Somebody who submits a command again for as long as it takes finds it settled,
\* after up to three faults (CheckedMutation!Settles).
RetrySettles == scene = "retry" => Settles
=============================================================================
