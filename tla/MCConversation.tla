--------------------------- MODULE MCConversation ---------------------------
(* The conversation in one small instance for TLC: the gateway that takes  *)
(* messages and delivers responses, and the changes of working memory that *)
(* messages propose and answer.  A behaviour is one of the part that Init  *)
(* chooses.                                                                *)
EXTENDS MCChannelGateway, MCWorkingMemory

VARIABLE part

ConversationInit ==
  /\ part \in {"gateway", "memory"}
  /\ Init /\ MemoryInit
  /\ part = "gateway" => \A p \in Messages : row[p].change.op \in {"none", "replace"}

\* The last message of a member proposes nothing, for no message could answer it.
Answerable == \A m \in Messages : m[2] = Count[Speaker(m)] => turn'[m].at # "validate"

ConversationNext ==
  \/ part = "gateway" /\ Next /\ UNCHANGED <<part, memoryVars>>
  \/ part = "memory" /\ MemoryNext /\ Answerable /\ UNCHANGED <<part, vars>>

ConversationSpec == ConversationInit /\ [][ConversationNext]_<<part, vars, memoryVars>>
=============================================================================
