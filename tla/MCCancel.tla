------------------------------- MODULE MCCancel ------------------------------
(***************************************************************************)
(* CancelMailbox for TLC, and two statements the documentation makes of  *)
(* the cancel action that the code does not keep.                          *)
(***************************************************************************)
EXTENDS CancelMailbox, TLC

Symmetric == Permutations(Cancels)

(* EP006_SERVICE_API_CONTRACT.md section 11, step 8: a CANCELLED           *)
(* transition that carries the operation is proof that it was applied.     *)
CancelledRunProvesTheCancel ==
  \A op \in Cancels : TransitionsOf(ledger, op) # {} => CancelProof(op) = "applied"

(* EP006_SERVICE_API_CONTRACT.md section 11, step 3: the CLOSING drain is  *)
(* bounded, so an owner that closes is retired.                            *)
ClosingDrainEnds ==
  (owner.state = "CLOSING") ~> (owner.state = "RETIRED" \/ watcher = "failed")
=============================================================================
