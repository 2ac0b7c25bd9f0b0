-------------------------- MODULE MCWorkingMemory --------------------------
EXTENDS WorkingMemory, TLC

\* A proposal and two further messages of one member, one message of the other.
MCCount == "a" :> 3 @@ "b" :> 1

\* The second message of the one says what the other says.
MCSays ==
  [e \in Entries |-> IF e \in {<<"a", 2>>, <<"b", 1>>} THEN "same" ELSE e]
=============================================================================
