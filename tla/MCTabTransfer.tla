---------------------------- MODULE MCTabTransfer ----------------------------
(* Instances of TabTransfer for TLC. *)
EXTENDS TabTransfer, TLC
Alike == Permutations(Window \ First) \cup Permutations(Group)

\* A drag neither loses a tab nor leaves two of one (payload.cpp TransferTab,
\* ReceiveTab).
TabsKept == TypeOK /\ NeverLost /\ OneCopy
=============================================================================
