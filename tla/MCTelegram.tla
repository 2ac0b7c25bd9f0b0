----------------------------- MODULE MCTelegram -----------------------------
EXTENDS Telegram, TLC
MCUpdates == <<"ann", "bob", "cid">>
ApproverSymmetry == Permutations(Approvers)
=============================================================================
