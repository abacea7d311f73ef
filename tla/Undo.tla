-------------------------------- MODULE Undo --------------------------------
(***************************************************************************)
(* The ledger with a memory of what an undo should give back: the books    *)
(* from before the last message.  "Undo that" right after a message        *)
(* (tools/ledger.py, delete_transactions) deletes the newest batch.        *)
(***************************************************************************)
EXTENDS Ledger

VARIABLE before  \* the committed ledger before the last commit, if that recorded a message

historyVars == <<vars, before>>

Remember ==
  before' = IF ~Committing THEN before ELSE IF op = "record" THEN <<db>> ELSE <<>>

HistoryInit == Init /\ before = <<>>
HistoryNext == Next /\ Remember
HistorySpec == HistoryInit /\ [][HistoryNext]_historyVars

LiveLedger(ledger) ==
  [rows |-> [i \in Ids |-> IF Live(ledger.rows, i) THEN ledger.rows[i] ELSE BlankRow],
   alloc |-> ledger.alloc]

\* Undo right after a message gives back the ledger from before it, to the last
\* balance and allocation: the debts its repayments settled are open again, and
\* nothing it did not record has moved.
UndoRestores ==
  [][Committing /\ op = "delete" /\ before # <<>> /\ targets = LatestBatch(db.rows)
       => LiveLedger(db') = LiveLedger(before[1])]_historyVars
=============================================================================
