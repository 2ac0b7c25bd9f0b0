------------------------------ MODULE MCTurns ------------------------------
(* The turns of a conversation in one small instance for TLC: the registry *)
(* with handlers that only end, and the gateway with a model, a platform   *)
(* and a database that may never answer.  A behaviour is one of the part   *)
(* that Init chooses.                                                      *)
EXTENDS MCChannelGateway

CONSTANT Few  \* the turns of the gateway; the registry has all of Works

VARIABLE part

InRegistry(A) == part = "registry" /\ A /\ UNCHANGED <<part, handlers, tables, crashes, faults>>
InGateway(A) == part = "gateway" /\ A /\ UNCHANGED part

Handler(w) == Loop(w) \/ RunCallback(w) \/ Timer(w) \/ Outside(w)
ShuttingDown == Shutdown /\ UNCHANGED <<handlers, tables, crashes, faults>>

TurnsInit == part \in {"registry", "gateway"} /\ Init

TurnsNext ==
  \/ InRegistry(RegistryNext)
  \/ InGateway(ShuttingDown) \/ \E w \in Few : InGateway(Handler(w))

\* The fairness of RegistryFairSpec, and of FairSpec with the callback that ends
\* a shutdown.
TurnsSpec ==
  /\ TurnsInit /\ [][TurnsNext]_<<part, vars>>
  /\ \A w \in Works :
       /\ WF_<<part, vars>>(InRegistry(Callback(w)))
       /\ WF_<<part, vars>>(InRegistry(EndTurn(w)))
  /\ WF_<<part, vars>>(InRegistry(Closed))
  /\ \A w \in Few :
       /\ WF_<<part, vars>>(InGateway(RunCallback(w)))
       /\ WF_<<part, vars>>(InGateway(Timer(w)))
       /\ WF_<<part, vars>>(InGateway(StartExpired(w) /\ UNCHANGED <<crashes, faults>>))
  /\ WF_<<part, vars>>(InGateway(Closed /\ UNCHANGED <<handlers, tables, crashes, faults>>))
=============================================================================
