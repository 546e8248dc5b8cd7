------------------------------ MODULE ActionLedger ------------------------------
(***************************************************************************)
(* The abstract promise behind the table agent_actions: a ledger to which  *)
(* rows are only ever added, whose recorded call (target chat and creation *)
(* time) never changes, and whose status moves only along the edges it is  *)
(* given.  The database trigger of migrations/versions/0001_initial.py     *)
(* guards the first half; the edges are the part the code has to keep.     *)
(*                                                                         *)
(* The module is instantiated twice, in WriteActions: with the edges the   *)
(* documentation draws, and with the edges the code can really produce.    *)
(***************************************************************************)

CONSTANTS Actions,   \* ids of rows of agent_actions
          Edges      \* the pairs <<old status, new status>> a row may step along

VARIABLE ledger      \* ledger[a]: the committed row with id a

LedgerInit == \A a \in Actions : ledger[a].status = "absent"

(* What identifies the recorded call; only an absent row may be given one. *)
SameCall(old, new) == new.chat = old.chat /\ new.created = old.created

RowStep(old, new) ==
  /\ old.status = "absent" \/ SameCall(old, new)
  /\ new.status = old.status \/ <<old.status, new.status>> \in Edges

(* One transaction may commit several rows at once. *)
LedgerNext == \A a \in Actions : RowStep(ledger[a], ledger'[a])

LedgerSpec == LedgerInit /\ [][LedgerNext]_ledger
=============================================================================
