------------------------------- MODULE MCTxSync -------------------------------
(* Two transactions, the second one spends the first and pays to the next  *)
(* address; and four, the second and the third of which spend the output   *)
(* of the first.                                                           *)
EXTENDS TxSync
TwoSpends == << {}, {1} >>
TwoAddrOf == << 1, 2 >>
ConflictSpends == << {}, {1}, {1}, {} >>
ConflictAddrOf == << 1, 1, 1, 1 >>
=============================================================================
