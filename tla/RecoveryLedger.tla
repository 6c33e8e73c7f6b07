--------------------------- MODULE RecoveryLedger ---------------------------
(***************************************************************************)
(* What was recovered (recovery_ledger.py): receipts and reversals in the  *)
(* order the source lists them are reconciled in one pass over the rows    *)
(* and one over the reversals.  The ledger grows by any row and is read    *)
(* after each.                                                             *)
(***************************************************************************)
EXTENDS Integers, FiniteSets, FiniteSetsExt, SequencesExt

CONSTANTS
  EventId,      \* event_id
  RecoveryCase, \* eligible cases
  MaxAmount,    \* bound: amounts, in SAR
  MaxRows       \* bound: rows

ASSUME LedgerAssumption == MaxAmount \in Nat /\ MaxRows \in Nat

(* A receipt, a reversal of one, or a row with one of the refused defects:  *)
(* no positive amount, no case, no review, no evidence, another kind.       *)
Row ==
  [kind : {"receipt"}, id : EventId, case : RecoveryCase, amount : 1..MaxAmount]
  \cup [kind : {"reversal"}, id : EventId, case : RecoveryCase,
        amount : 1..MaxAmount, target : EventId]
  \cup [kind : {"defective"}, id : EventId]

VARIABLES rows

LedgerTypeOK == rows \in Seq(Row) /\ Len(rows) <= MaxRows

LedgerInit == rows = <<>>

AddRow(row) == Len(rows) < MaxRows /\ rows' = Append(rows, row)

LedgerNext == \E row \in Row : AddRow(row)

LedgerSpec == LedgerInit /\ [][LedgerNext]_rows

----------------------------------------------------------------------------
(* reconcile.                                                               *)

(* seen, receipts with what remains of them, reversals, errors.             *)
NothingSeen == [seen |-> {}, receipts |-> {}, reversals |-> <<>>, error |-> FALSE]

(* A row of an identity already seen is dropped, and an error unless it     *)
(* equals the first.                                                        *)
Scan(state, row) ==
  LET known == {r \in state.seen : r.id = row.id}
      next == [state EXCEPT !.seen = @ \cup {row}]
  IN IF known # {} THEN [state EXCEPT !.error = @ \/ row \notin known]
     ELSE CASE row.kind = "receipt" ->
                 [next EXCEPT !.receipts = @ \cup {[row |-> row, left |-> row.amount]}]
            [] row.kind = "reversal" -> [next EXCEPT !.reversals = Append(@, row)]
            [] OTHER -> [next EXCEPT !.error = TRUE]

(* Mutant: the amount left is not looked at.                                *)
Matches_UNBOUNDED(receipt, reversal) ==
  receipt.row.id = reversal.target /\ receipt.row.case = reversal.case

Matches(receipt, reversal) ==
  /\ receipt.row.id = reversal.target
  /\ receipt.row.case = reversal.case
  /\ reversal.amount <= receipt.left

ApplyReversal(state, reversal) ==
  LET matched == {r \in state.receipts : Matches(r, reversal)} IN
  IF matched = {} THEN [state EXCEPT !.error = TRUE]
  ELSE [state EXCEPT !.receipts = (@ \ matched) \cup
          {[r EXCEPT !.left = @ - reversal.amount] : r \in matched}]

(* The total per case, or nothing at all after any error.                   *)
reconcile(events) ==
  LET scanned == FoldLeft(Scan, NothingSeen, events)
      settled == FoldLeft(ApplyReversal, scanned, scanned.reversals)
      left(c) == MapThenSumSet(LAMBDA r : r.left,
                               {r \in settled.receipts : r.row.case = c})
  IN IF settled.error THEN [status |-> "needs_review"]
     ELSE [status |-> "reconciled", recovered |-> [c \in RecoveryCase |-> left(c)]]

----------------------------------------------------------------------------
(* What the ledger should say, of the set of its rows: every identity names *)
(* one row, every row is sound, every reversal has its receipt, in its      *)
(* case, and no receipt is reversed beyond its amount; then what is         *)
(* recovered is what came in less what went back.                           *)

Total(set) == MapThenSumSet(LAMBDA r : r.amount, set)

Reversals(set, receipt) ==
  {r \in set : r.kind = "reversal" /\ r.target = receipt.id /\ r.case = receipt.case}

Receipts(set) == {r \in set : r.kind = "receipt"}

Sound(set) ==
  /\ \A r, s \in set : r.id = s.id => r = s
  /\ \A r \in set : r.kind # "defective"
  /\ \A r \in set : r.kind = "reversal" => \E s \in Receipts(set) : r \in Reversals(set, s)
  /\ \A s \in Receipts(set) : Total(Reversals(set, s)) <= s.amount

Expected(set) ==
  IF ~Sound(set) THEN [status |-> "needs_review"]
  ELSE [status |-> "reconciled",
        recovered |-> [c \in RecoveryCase |->
          Total({r \in Receipts(set) : r.case = c})
          - Total({r \in set : r.kind = "reversal" /\ r.case = c})]]

(* The two passes compute just that, so neither the order of the rows nor   *)
(* a repeated row changes the answer, a reversal may precede its receipt,   *)
(* and one bad row withholds every total.                                   *)
ReconcilesTheSet == reconcile(rows) = Expected(ToSet(rows))

=============================================================================
