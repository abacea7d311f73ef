---------------------------- MODULE LedgerProofs ----------------------------
(***************************************************************************)
(* The ledger's balances hold for every book: any number of people, rows   *)
(* and amounts, and any message or correction of the declared shapes.  And *)
(* where its money goes: no repayment settles more than its amount, the    *)
(* oldest debts are settled first and no repayment stays idle beside an    *)
(* open debt, what the trader stated as paid survives other entries'       *)
(* operations, and the committed event names everyone whose entries        *)
(* changed.  And what is read out of it: statements, reports and pages     *)
(* agree with the rows and with each other.  And that undo gives back the  *)
(* books from before the last message.                                     *)
(***************************************************************************)
EXTENDS Reports, Undo, Sums, TLAPS

(***************************************************************************)
(* The inductive invariant.  A repayment in hand is a live entry with a    *)
(* known amount; while a correction is still to be written, whatever       *)
(* touches its row is still to be taken back; and an allocation of a       *)
(* deleted entry belongs to a repayment that the deletion still has to     *)
(* take back or to move.                                                   *)
(***************************************************************************)
InHand(t, r) == Live(t, r) /\ IsRepayment(t[r]) /\ IsComplete(t[r])

\* An amount not known leaves nothing outstanding, and allocations join entries
\* that exist.
FoundedIn(t, a) ==
  /\ \A i \in Ids : ~IsComplete(t[i]) => t[i].out = Unknown
  /\ \A r, d \in Ids : a[r][d] > 0 => r \in Used(t) /\ d \in Used(t)

SoundIn(t, a) == BalancedIn(t) /\ MatchingIn(t, a) /\ FoundedIn(t, a)

RepaymentsInHand ==
  /\ \A r \in todo : InHand(rows, r)
  /\ paying # NoRow => InHand(rows, paying)

Quiet == op = "idle" => undo = {} /\ change = {} /\ todo = {} /\ paying = NoRow

CorrectionClear ==
  change # {} =>
    /\ op = "correct" /\ paying = NoRow
    /\ \A i \in targets : /\ Live(rows, i) /\ i \notin todo
                          /\ \A j \in Ids : /\ alloc[j][i] > 0 => j \in undo
                                            /\ alloc[i][j] > 0 => i \in undo

AllocationsAccounted ==
  \A r, d \in Ids : alloc[r][d] > 0 =>
    /\ Live(rows, r) \/ r \in undo
    /\ Live(rows, d) \/ (op = "delete" /\ r \in todo \cup undo)

IInv ==
  /\ TypeOK
  /\ SoundIn(rows, alloc)
  /\ SoundIn(db.rows, db.alloc)
  /\ CommittedAllocationsLive
  /\ RepaymentsInHand
  /\ Quiet
  /\ CorrectionClear
  /\ AllocationsAccounted
-----------------------------------------------------------------------------
(* Settling. *)

USE DEF Unknown, Money, NoRow, PositivePart, Lesser, IsRepayment, IsComplete, Live

\* Writing the two derived columns of a row leaves it a row, the others alone.
WithBalance(row, paid, out) == [row EXCEPT !.paid = paid, !.out = out]

SameEntry(new, row) ==
  /\ new.type = row.type /\ new.direction = row.direction
  /\ new.party = row.party /\ new.state = row.state
  /\ new.amount = row.amount

\* A row stays a row, and the same entry, when its balance is written.
LEMMA WriteBalance ==
  ASSUME NEW row \in Row, NEW paid \in Int, NEW out \in Money
  PROVE  /\ WithBalance(row, paid, out) \in Row
         /\ WithBalance(row, paid, out).paid = paid
         /\ WithBalance(row, paid, out).out = out
         /\ SameEntry(WithBalance(row, paid, out), row)
  BY DEF Row, WithBalance, SameEntry

\* Deleting a row changes its state only.
Deleted(row) == [row EXCEPT !.state = "deleted"]

SameExceptState(new, row) ==
  /\ new.type = row.type /\ new.direction = row.direction
  /\ new.party = row.party /\ new.amount = row.amount
  /\ new.paid = row.paid /\ new.out = row.out
  /\ new.state \in {row.state, "deleted"}

\* A deleted row is a row that differs in nothing but its state.
LEMMA DeletedRow ==
  ASSUME NEW row \in Row
  PROVE  /\ Deleted(row) \in Row /\ Deleted(row).state = "deleted"
         /\ SameExceptState(Deleted(row), row)
  BY DEF Row, Deleted, SameExceptState

\* Whatever is settled is a well-typed row whose outstanding is derived.
LEMMA SettleDerives ==
  ASSUME NEW row \in Row
  PROVE  /\ Settle(row) \in Row
         /\ Settle(row).out = SettledOut(row)
         /\ ~IsComplete(row) => Settle(row).out = Unknown
         /\ IsComplete(row) /\ ~IsRepayment(row) =>
              Settle(row).out = PositivePart(row.amount - Settle(row).paid)
         /\ SameEntry(Settle(row), row)
<1>1. SettledPaid(row) \in Int
  BY DEF SettledPaid, PaidByDefault, Row
<1>2. SettledOut(row) \in Money
  BY <1>1 DEF SettledOut, Row
<1>3. Settle(row) = WithBalance(row, SettledPaid(row), SettledOut(row))
  BY DEF Settle, WithBalance
<1>4. /\ Settle(row) \in Row
      /\ Settle(row).paid = SettledPaid(row) /\ Settle(row).out = SettledOut(row)
      /\ SameEntry(Settle(row), row)
  BY <1>1, <1>2, <1>3, WriteBalance
<1>5. QED BY <1>4 DEF SettledOut

\* Money paid into a debt, or taken back out of it, leaves it a row.
LEMMA PayIntoRow ==
  ASSUME NEW row \in Row, NEW money \in Int, row.out - money \in Nat
  PROVE  /\ PayInto(row, money) \in Row
         /\ PayInto(row, money).paid = row.paid + money
         /\ PayInto(row, money).out = row.out - money
         /\ SameEntry(PayInto(row, money), row)
<1>1. PayInto(row, money) = WithBalance(row, row.paid + money, row.out - money)
  BY DEF PayInto, WithBalance, Row
<1>2. row.paid + money \in Int /\ row.out - money \in Money
  BY DEF Row
<1>3. QED BY <1>1, <1>2, WriteBalance

-----------------------------------------------------------------------------
(* Repayments. *)

\* No repayment settles another repayment.
LEMMA SettledAreDebts ==
  ASSUME NEW repayment \in Row, NEW debt, Settles(repayment, debt)
  PROVE  ~IsRepayment(debt)
  BY DEF Settles, SettleableByDirection, Row, Directions

\* Taking a repayment back keeps every balance derived, and leaves none of its
\* money on any debt.
LEMMA ReverseSound ==
  ASSUME TypeOK, SoundIn(rows, alloc), NEW r \in Ids, Reverse(r)
  PROVE  /\ rows' \in [Ids -> Row] /\ alloc' \in [Ids -> [Ids -> Nat]]
         /\ SoundIn(rows', alloc')
         /\ \A i \in Ids : SameEntry(rows'[i], rows[i])
         /\ \A q, d \in Ids : alloc'[q][d] = IF q = r THEN 0 ELSE alloc[q][d]
<1>1. /\ rows \in [Ids -> Row] /\ alloc \in [Ids -> [Ids -> Nat]]
  BY DEF TypeOK
<1>2. /\ alloc' \in [Ids -> [Ids -> Nat]]
      /\ \A q, d \in Ids : alloc'[q][d] = IF q = r THEN 0 ELSE alloc[q][d]
  BY <1>1 DEF Reverse
<1>3. ASSUME NEW d \in Ids
      PROVE  /\ rows'[d] \in Row /\ SameEntry(rows'[d], rows[d])
             /\ rows'[d].paid = rows[d].paid - alloc[r][d]
             /\ rows'[d].out = rows[d].out + (IF alloc[r][d] = 0 THEN 0 ELSE alloc[r][d])
  <2>1. CASE alloc[r][d] = 0
    BY <1>1, <2>1 DEF Reverse, SameEntry, Row
  <2>2. CASE alloc[r][d] # 0
    <3>1. alloc[r][d] \in Nat /\ alloc[r][d] > 0 /\ rows[d] \in Row
      BY <1>1, <2>2
    <3>2. IsComplete(rows[d]) /\ d \in Used(rows) /\ Settles(rows[r], rows[d])
      BY <3>1 DEF SoundIn, MatchingIn, FoundedIn
    <3>3. rows[d].out \in Nat
      BY <1>1, <3>1, <3>2, SettledAreDebts DEF SoundIn, BalancedIn, Row
    <3>4. rows'[d] = PayInto(rows[d], 0 - alloc[r][d])
      BY <2>2 DEF Reverse
    <3>5. rows[d].out - (0 - alloc[r][d]) \in Nat /\ 0 - alloc[r][d] \in Int
      BY <3>1, <3>3
    <3>6. rows[d].paid \in Int
      BY <3>1 DEF Row
    <3>7. /\ rows'[d] \in Row /\ SameEntry(rows'[d], rows[d])
          /\ rows'[d].paid = rows[d].paid + (0 - alloc[r][d])
          /\ rows'[d].out = rows[d].out - (0 - alloc[r][d])
      BY <3>1, <3>4, <3>5, PayIntoRow
    <3>8. QED BY <2>2, <3>1, <3>3, <3>6, <3>7
  <2>3. QED BY <2>1, <2>2
<1>4. rows' \in [Ids -> Row]
  BY <1>3 DEF Reverse
<1>5. \A d \in Ids : rows[d] \in Row /\ alloc[r][d] \in Nat
  BY <1>1
<1>6. BalancedIn(rows')
  <2> SUFFICES ASSUME NEW i \in Ids, i \in Used(rows'), IsComplete(rows'[i]),
                      ~IsRepayment(rows'[i])
               PROVE  rows'[i].out = PositivePart(rows'[i].amount - rows'[i].paid)
    BY DEF BalancedIn
  <2>1. /\ i \in Used(rows) /\ IsComplete(rows[i]) /\ ~IsRepayment(rows[i])
        /\ rows'[i].amount = rows[i].amount
    BY <1>3 DEF SameEntry, Used
  <2>2. /\ rows[i].out = PositivePart(rows[i].amount - rows[i].paid)
        /\ rows[i].amount \in Nat /\ rows[i].paid \in Int
    BY <1>5, <2>1 DEF SoundIn, BalancedIn, Row
  <2>3. alloc[r][i] > 0 => rows[i].paid + rows[i].out = rows[i].amount
    BY DEF SoundIn, MatchingIn
  <2>4. QED BY <1>3, <1>5, <2>1, <2>2, <2>3
<1>7. MatchingIn(rows', alloc')
  <2> SUFFICES ASSUME NEW q \in Ids, NEW d \in Ids, alloc'[q][d] > 0
               PROVE  /\ Settles(rows'[q], rows'[d])
                      /\ IsComplete(rows'[q]) /\ IsComplete(rows'[d])
                      /\ rows'[d].paid + rows'[d].out = rows'[d].amount
    BY DEF MatchingIn
  <2>1. alloc[q][d] > 0
    BY <1>2
  <2>2. /\ Settles(rows[q], rows[d])
        /\ IsComplete(rows[q]) /\ IsComplete(rows[d])
        /\ rows[d].paid + rows[d].out = rows[d].amount
    BY <2>1 DEF SoundIn, MatchingIn
  <2>3. Settles(rows'[q], rows'[d]) /\ IsComplete(rows'[q]) /\ IsComplete(rows'[d])
    BY <1>3, <2>2 DEF SameEntry, Settles
  <2>4. rows[d].paid \in Int /\ rows[d].out \in Int
    BY <1>5 DEF Row
  <2>5. QED BY <1>3, <1>5, <2>2, <2>3, <2>4 DEF SameEntry
<1>8. FoundedIn(rows', alloc')
  <2>1. ASSUME NEW i \in Ids, ~IsComplete(rows'[i])
        PROVE  rows'[i].out = Unknown
    <3>1. ~IsComplete(rows[i])
      BY <1>3, <2>1 DEF SameEntry
    <3>2. rows[i].out = Unknown /\ ~(alloc[r][i] > 0)
      BY <3>1 DEF SoundIn, FoundedIn, MatchingIn
    <3>3. QED BY <1>3, <1>5, <3>2
  <2>2. ASSUME NEW q \in Ids, NEW d \in Ids, alloc'[q][d] > 0
        PROVE  q \in Used(rows') /\ d \in Used(rows')
    BY <1>2, <1>3, <2>2 DEF SoundIn, FoundedIn, Used, SameEntry
  <2>3. QED BY <2>1, <2>2 DEF FoundedIn
<1>9. QED BY <1>2, <1>3, <1>4, <1>6, <1>7, <1>8 DEF SoundIn

\* Paying the oldest open debt keeps every balance derived, and puts the money
\* of the repayment in hand on a live debt.
LEMMA PaySound ==
  ASSUME TypeOK, SoundIn(rows, alloc), paying # NoRow => InHand(rows, paying), PayOldest
  PROVE  /\ rows' \in [Ids -> Row] /\ alloc' \in [Ids -> [Ids -> Nat]] /\ remaining' \in Nat
         /\ SoundIn(rows', alloc')
         /\ \A i \in Ids : SameEntry(rows'[i], rows[i])
         /\ \A q, e \in Ids : alloc'[q][e] > 0 =>
              alloc[q][e] > 0 \/ (InHand(rows, q) /\ Live(rows, e))
<1>1. /\ rows \in [Ids -> Row] /\ alloc \in [Ids -> [Ids -> Nat]]
      /\ remaining \in Nat /\ remaining > 0
      /\ paying \in Ids /\ InHand(rows, paying)
  BY DEF TypeOK, PayOldest
<1>2. PICK d \in OpenDebts(rows, paying) :
        /\ rows' = [rows EXCEPT ![d] = PayInto(@, Lesser(remaining, rows[d].out))]
        /\ alloc' = [alloc EXCEPT ![paying][d] = @ + Lesser(remaining, rows[d].out)]
        /\ remaining' = remaining - Lesser(remaining, rows[d].out)
  BY DEF PayOldest
<1> DEFINE paid == Lesser(remaining, rows[d].out)
<1>3. /\ d \in Ids /\ Live(rows, d) /\ IsComplete(rows[d]) /\ rows[d] \in Row
      /\ Settles(rows[paying], rows[d]) /\ rows[d].out \in Nat /\ rows[d].out > 0
  BY <1>1, <1>2 DEF OpenDebts, Row
<1>4. paid \in Nat /\ paid > 0 /\ paid <= rows[d].out /\ paid <= remaining
  BY <1>1, <1>3
<1> HIDE DEF paid
<1>5. /\ rows' = [rows EXCEPT ![d] = PayInto(@, paid)]
      /\ alloc' = [alloc EXCEPT ![paying][d] = @ + paid]
      /\ remaining' = remaining - paid
  BY <1>2 DEF paid
<1>6. /\ PayInto(rows[d], paid) \in Row
      /\ PayInto(rows[d], paid).paid = rows[d].paid + paid
      /\ PayInto(rows[d], paid).out = rows[d].out - paid
      /\ SameEntry(PayInto(rows[d], paid), rows[d])
  <2>1. paid \in Int /\ rows[d].out - paid \in Nat
    BY <1>3, <1>4
  <2>2. QED BY <1>3, <2>1, PayIntoRow
<1>7. /\ rows' \in [Ids -> Row]
      /\ \A i \in Ids : rows'[i] = IF i = d THEN PayInto(rows[d], paid) ELSE rows[i]
  BY <1>1, <1>3, <1>5, <1>6
<1>8. \A i \in Ids : SameEntry(rows'[i], rows[i])
  BY <1>6, <1>7 DEF SameEntry
<1>9. /\ alloc' \in [Ids -> [Ids -> Nat]]
      /\ \A q, e \in Ids : alloc'[q][e] = IF q = paying /\ e = d THEN alloc[q][e] + paid
                                                              ELSE alloc[q][e]
  BY <1>1, <1>3, <1>4, <1>5
<1>10. ~IsRepayment(rows[d]) /\ rows[d].paid + rows[d].out = rows[d].amount
  <2>1. ~IsRepayment(rows[d])
    BY <1>1, <1>3, SettledAreDebts
  <2>2. rows[d].out = PositivePart(rows[d].amount - rows[d].paid)
    BY <1>3, <2>1 DEF SoundIn, BalancedIn, Used
  <2>3. rows[d].amount \in Int /\ rows[d].paid \in Int
    BY <1>3 DEF Row
  <2>4. QED BY <1>3, <2>1, <2>2, <2>3
<1>11. BalancedIn(rows')
  <2> SUFFICES ASSUME NEW i \in Ids, i \in Used(rows'), IsComplete(rows'[i]),
                      ~IsRepayment(rows'[i])
               PROVE  rows'[i].out = PositivePart(rows'[i].amount - rows'[i].paid)
    BY DEF BalancedIn
  <2>1. CASE i = d
    <3>1. rows[d].amount \in Int /\ rows[d].paid \in Int
      BY <1>3 DEF Row
    <3>2. QED BY <1>3, <1>4, <1>6, <1>7, <1>10, <2>1, <3>1 DEF SameEntry
  <2>2. CASE i # d
    BY <1>7, <2>2 DEF SoundIn, BalancedIn, Used
  <2>3. QED BY <2>1, <2>2
<1>12. MatchingIn(rows', alloc')
  <2> SUFFICES ASSUME NEW q \in Ids, NEW e \in Ids, alloc'[q][e] > 0
               PROVE  /\ Settles(rows'[q], rows'[e])
                      /\ IsComplete(rows'[q]) /\ IsComplete(rows'[e])
                      /\ rows'[e].paid + rows'[e].out = rows'[e].amount
    BY DEF MatchingIn
  <2>1. /\ Settles(rows[q], rows[e])
        /\ IsComplete(rows[q]) /\ IsComplete(rows[e])
        /\ rows[e].paid + rows[e].out = rows[e].amount
    BY <1>1, <1>3, <1>9, <1>10 DEF SoundIn, MatchingIn, InHand
  <2>2. Settles(rows'[q], rows'[e]) /\ IsComplete(rows'[q]) /\ IsComplete(rows'[e])
    BY <1>8, <2>1 DEF SameEntry, Settles
  <2>3. rows[e].paid \in Int /\ rows[e].out \in Int
    BY <1>1 DEF Row
  <2>4. QED BY <1>4, <1>6, <1>7, <2>1, <2>2, <2>3 DEF SameEntry
<1>13. FoundedIn(rows', alloc')
  <2>1. ASSUME NEW i \in Ids, ~IsComplete(rows'[i])
        PROVE  rows'[i].out = Unknown
    BY <1>3, <1>7, <1>8, <2>1 DEF SoundIn, FoundedIn, SameEntry
  <2>2. ASSUME NEW q \in Ids, NEW e \in Ids, alloc'[q][e] > 0
        PROVE  q \in Used(rows') /\ e \in Used(rows')
    BY <1>1, <1>3, <1>8, <1>9, <2>2 DEF SoundIn, FoundedIn, Used, SameEntry, InHand
  <2>3. QED BY <2>1, <2>2 DEF FoundedIn
<1>14. remaining' \in Nat
  BY <1>1, <1>4, <1>5
<1>15. \A q, e \in Ids : alloc'[q][e] > 0 =>
         alloc[q][e] > 0 \/ (InHand(rows, q) /\ Live(rows, e))
  BY <1>1, <1>3, <1>9
<1>16. QED BY <1>7, <1>8, <1>9, <1>11, <1>12, <1>13, <1>14, <1>15 DEF SoundIn

-----------------------------------------------------------------------------
(* The operations keep the invariant. *)

\* The empty ledger satisfies the invariant.
LEMMA InitSound == Init => IInv
<1> SUFFICES ASSUME Init PROVE IInv
  OBVIOUS
<1>1. BlankRow \in Row
  BY DatesAreNumbers DEF BlankRow, Row, Types, Directions
<1>2. /\ rows \in [Ids -> Row] /\ alloc \in [Ids -> [Ids -> Nat]]
      /\ \A i \in Ids : ~IsComplete(rows[i]) /\ rows[i].out = Unknown
      /\ \A r, d \in Ids : alloc[r][d] = 0
  BY <1>1 DEF Init, BlankRow
<1>3. db = [rows |-> rows, alloc |-> alloc] /\ db.rows = rows /\ db.alloc = alloc
  BY DEF Init
<1>4. TypeOK
  BY <1>2, <1>3 DEF Init, TypeOK, Ops
<1>5. SoundIn(rows, alloc)
  BY <1>2 DEF SoundIn, BalancedIn, MatchingIn, FoundedIn
<1>6. QED
  BY <1>2, <1>3, <1>4, <1>5
  DEF Init, IInv, CommittedAllocationsLive, RepaymentsInHand, Quiet, CorrectionClear,
      AllocationsAccounted

\* An entry of a message becomes a live row, settled.
LEMMA NewRowSettled ==
  ASSUME NEW e \in Entries, NEW b \in Nat
  PROVE  /\ NewRow(e, b) \in Row
         /\ NewRow(e, b).state = "live"
         /\ ~IsComplete(NewRow(e, b)) => NewRow(e, b).out = Unknown
         /\ IsComplete(NewRow(e, b)) /\ ~IsRepayment(NewRow(e, b)) =>
              NewRow(e, b).out = PositivePart(NewRow(e, b).amount - NewRow(e, b).paid)
<1> DEFINE raw == [type |-> e.type, direction |-> e.direction, party |-> e.party,
                   amount |-> Stated(e.amount), paid |-> e.paid, out |-> Unknown,
                   date |-> e.date, batch |-> b, state |-> "live"]
<1>1. e \in TransactionInput
  BY InputsAreTyped
<1>2. raw \in Row /\ raw.state = "live"
  BY <1>1 DEF TransactionInput, Row, Stated
<1>3. NewRow(e, b) = Settle(raw)
  BY DEF NewRow
<1> HIDE DEF raw
<1>4. QED BY <1>2, <1>3, SettleDerives DEF SameEntry

\* Live settled rows in ids that nothing used yet, and repayments to apply.
NewRowsIn(new) ==
  /\ new \in SUBSET Ids /\ new \cap Used(rows) = {}
  /\ rows' = [i \in Ids |-> rows'[i]]
  /\ \A i \in Ids \ new : rows'[i] = rows[i]
  /\ \A i \in new : rows'[i] \in Row /\ rows'[i].state = "live"
  /\ \A i \in new : ~IsComplete(rows'[i]) => rows'[i].out = Unknown
  /\ \A i \in new : IsComplete(rows'[i]) /\ ~IsRepayment(rows'[i]) =>
                     rows'[i].out = PositivePart(rows'[i].amount - rows'[i].paid)

RepaymentsAmong(new) == todo' = {r \in new : IsRepayment(rows'[r]) /\ IsComplete(rows'[r])}

\* Rows added at unused ids leave every balance and every allocation sound.
LEMMA NewRowsSound ==
  ASSUME rows \in [Ids -> Row], SoundIn(rows, alloc), UNCHANGED alloc,
         NEW new, NewRowsIn(new)
  PROVE  /\ rows' \in [Ids -> Row]
         /\ SoundIn(rows', alloc')
         /\ \A r, d \in Ids : alloc[r][d] > 0 => rows'[r] = rows[r] /\ rows'[d] = rows[d]
<1> USE DEF NewRowsIn
<1>1. rows' \in [Ids -> Row]
  OBVIOUS
<1>2. \A r, d \in Ids : alloc[r][d] > 0 => rows'[r] = rows[r] /\ rows'[d] = rows[d]
  BY DEF SoundIn, FoundedIn
<1>3. BalancedIn(rows')
  BY DEF SoundIn, BalancedIn, Used
<1>4. MatchingIn(rows', alloc')
  BY <1>2 DEF SoundIn, MatchingIn
<1>5. FoundedIn(rows', alloc')
  BY <1>2 DEF SoundIn, FoundedIn, Used
<1>6. QED BY <1>1, <1>2, <1>3, <1>4, <1>5 DEF SoundIn

\* What persist_transactions writes before it applies any repayment.
LEMMA RecordWrites ==
  ASSUME IInv, RecordMessage
  PROVE  /\ op = "idle" /\ op' = "record"
         /\ UNCHANGED <<alloc, db, undo, change, paying, remaining>>
         /\ \E new \in SUBSET Ids : /\ targets' = new /\ touched' = PartiesOf(rows', new)
                                  /\ NewRowsIn(new) /\ RepaymentsAmong(new)
<1>1. PICK first \in 0 .. MaxRows, n \in 1 .. MaxBatch :
        /\ op = "idle" /\ Used(rows) = 1 .. first /\ first + n <= MaxRows
        /\ \E batch \in [1 .. n -> Entries] : Record(first, n, batch)
  BY DEF RecordMessage
<1>2. PICK batch \in [1 .. n -> Entries] : Record(first, n, batch)
  BY <1>1
<1> DEFINE new == first + 1 .. first + n
<1>3. /\ new \in SUBSET Ids /\ new \cap Used(rows) = {}
      /\ \A i \in new : batch[i - first] \in Entries /\ first + 1 \in Nat
  BY <1>1, BoundsAreNatural DEF Ids
<1>4. /\ rows' = [i \in Ids |-> rows'[i]]
      /\ \A i \in new : rows'[i] = NewRow(batch[i - first], first + 1)
      /\ \A i \in Ids \ new : rows'[i] = rows[i]
  BY <1>2, <1>3 DEF Record
<1>5. NewRowsIn(new)
  <2>1. ASSUME NEW i \in new
        PROVE  /\ rows'[i] \in Row /\ rows'[i].state = "live"
               /\ ~IsComplete(rows'[i]) => rows'[i].out = Unknown
               /\ IsComplete(rows'[i]) /\ ~IsRepayment(rows'[i]) =>
                    rows'[i].out = PositivePart(rows'[i].amount - rows'[i].paid)
    BY <1>3, <1>4, NewRowSettled
  <2> HIDE DEF new
  <2>2. QED BY <1>3, <1>4, <2>1 DEF NewRowsIn
<1>6. /\ RepaymentsAmong(new)
      /\ targets' = new /\ touched' = PartiesOf(rows', new) /\ op' = "record"
      /\ UNCHANGED <<alloc, db, undo, change, paying, remaining>>
  BY <1>2 DEF Record, RepaymentsAmong
<1> HIDE DEF new
<1>7. QED BY <1>1, <1>3, <1>5, <1>6

\* Recording a message's entries keeps the invariant: no allocation meets a new row.
LEMMA RecordKeepsInv ==
  ASSUME IInv, RecordMessage
  PROVE  IInv'
<1>1. /\ op = "idle" /\ op' = "record"
      /\ UNCHANGED <<alloc, db, undo, change, paying, remaining>>
      /\ undo' = {} /\ change' = {} /\ paying' = NoRow
  BY RecordWrites DEF IInv, Quiet
<1>2. PICK new \in SUBSET Ids : /\ targets' = new /\ touched' = PartiesOf(rows', new)
                               /\ NewRowsIn(new) /\ RepaymentsAmong(new)
  BY RecordWrites
<1>3. /\ rows' \in [Ids -> Row] /\ SoundIn(rows', alloc')
      /\ \A r, d \in Ids : alloc[r][d] > 0 => rows'[r] = rows[r] /\ rows'[d] = rows[d]
  BY <1>1, <1>2, NewRowsSound DEF IInv, TypeOK
<1>4. touched' \subseteq Parties
  BY <1>2, <1>3 DEF PartiesOf, NamedParty, Row
<1>5. TypeOK'
  BY <1>1, <1>2, <1>3, <1>4 DEF IInv, TypeOK, Ops, RepaymentsAmong
<1>6. RepaymentsInHand'
  BY <1>1, <1>2 DEF RepaymentsInHand, InHand, RepaymentsAmong, NewRowsIn
<1>7. AllocationsAccounted'
  BY <1>1, <1>3 DEF IInv, AllocationsAccounted
<1>8. QED
  BY <1>1, <1>3, <1>5, <1>6, <1>7
  DEF IInv, CommittedAllocationsLive, Quiet, CorrectionClear

\* The rows a deletion writes.
LEMMA DeleteWrites ==
  ASSUME rows \in [Ids -> Row], NEW S \in SUBSET Ids, Delete(S)
  PROVE  /\ rows' \in [Ids -> Row]
         /\ \A i \in Ids : /\ SameExceptState(rows'[i], rows[i])
                           /\ i \notin S => rows'[i] = rows[i]
                           /\ i \in S => rows'[i].state = "deleted"
<1>1. \A i \in Ids : rows'[i] = IF i \in S THEN Deleted(rows[i]) ELSE rows[i]
  BY DEF Delete, Deleted
<1>2. \A i \in Ids : Deleted(rows[i]) \in Row /\ Deleted(rows[i]).state = "deleted"
                     /\ SameExceptState(Deleted(rows[i]), rows[i])
  BY DeletedRow
<1>3. \A i \in Ids : /\ SameExceptState(rows'[i], rows[i])
                     /\ i \notin S => rows'[i] = rows[i]
                     /\ i \in S => rows'[i].state = "deleted"
  BY <1>1, <1>2 DEF SameExceptState
<1>4. rows' \in [Ids -> Row]
  BY <1>1, <1>2 DEF Delete
<1>5. QED BY <1>3, <1>4

\* Deleting rows leaves every balance as it was, on the deleted rows too.
LEMMA DeleteKeepsInv ==
  ASSUME IInv, NEW S \in SUBSET Ids, Delete(S), \A i \in S : Live(rows, i)
  PROVE  IInv'
<1>1. /\ op = "idle" /\ op' = "delete" /\ targets' = S
      /\ UNCHANGED <<alloc, db, change, paying, remaining>>
      /\ rows \in [Ids -> Row] /\ rows' \in [Ids -> Row]
  BY DeleteWrites DEF Delete, IInv, TypeOK
<1>2. \A i \in Ids : /\ SameExceptState(rows'[i], rows[i])
                     /\ i \notin S => rows'[i] = rows[i]
                     /\ i \in S => rows'[i].state = "deleted" /\ Live(rows, i)
  BY <1>1, DeleteWrites
<1>3. /\ \A r \in Ids : r \in undo' <=> r \in S /\ IsRepayment(rows[r])
      /\ \A r \in Ids : r \in todo' <=> r \notin S /\ \E d \in S : alloc[r][d] > 0
      /\ undo' \subseteq Ids /\ todo' \subseteq Ids
  <2>1. todo' = (UNION {AppliedTo(d) : d \in S}) \ S /\ undo' = {i \in S : IsRepayment(rows[i])}
    BY DEF Delete
  <2>2. undo' \subseteq Ids /\ \A r \in Ids : r \in undo' <=> r \in S /\ IsRepayment(rows[r])
    BY <2>1
  <2>3. todo' \subseteq Ids /\ \A r \in Ids : r \in todo' <=> r \notin S /\ \E d \in S : alloc[r][d] > 0
    BY <2>1 DEF AppliedTo
  <2>4. QED BY <2>2, <2>3
<1>4. /\ rows \in [Ids -> Row] /\ undo = {} /\ change = {} /\ todo = {} /\ paying = NoRow
      /\ SoundIn(rows, alloc)
  BY <1>1 DEF IInv, TypeOK, Quiet
<1>5. \A r, d \in Ids : alloc[r][d] > 0 => /\ Live(rows, r) /\ Live(rows, d)
                                          /\ IsRepayment(rows[r]) /\ IsComplete(rows[r])
  BY <1>1, <1>4 DEF IInv, AllocationsAccounted, SoundIn, MatchingIn, Settles
<1>6. SoundIn(rows', alloc')
  <2>1. BalancedIn(rows')
    BY <1>2, <1>4 DEF SoundIn, BalancedIn, Used, SameExceptState
  <2>2. MatchingIn(rows', alloc')
    BY <1>1, <1>2, <1>4 DEF SoundIn, MatchingIn, Settles, SameExceptState
  <2>3. FoundedIn(rows', alloc')
    BY <1>1, <1>2, <1>4 DEF SoundIn, FoundedIn, Used, SameExceptState
  <2>4. QED BY <2>1, <2>2, <2>3 DEF SoundIn
<1>7. RepaymentsInHand'
  BY <1>1, <1>2, <1>3, <1>4, <1>5 DEF RepaymentsInHand, InHand
<1>8. AllocationsAccounted'
  BY <1>1, <1>2, <1>3, <1>5 DEF AllocationsAccounted
<1>9. TypeOK'
  <2>1. touched' \subseteq Parties
    BY <1>1 DEF Delete, PartiesOf, NamedParty, Row
  <2>2. QED BY <1>1, <1>3, <2>1 DEF IInv, TypeOK, Ops
<1>10. QED
  BY <1>1, <1>4, <1>6, <1>7, <1>8, <1>9
  DEF IInv, CommittedAllocationsLive, Quiet, CorrectionClear

\* The event of a correction names people, whoever had the row before.
LEMMA TouchedTyped ==
  ASSUME rows \in [Ids -> Row], NEW S \in SUBSET Ids
  PROVE  PartiesOf(rows, S) \subseteq Parties
  BY DEF PartiesOf, NamedParty, Row

\* Starting a correction plans to take every allocation off the row.
LEMMA CorrectKeepsInv ==
  ASSUME IInv, op = "idle", NEW i \in Ids, NEW c \in Corrections, Correct(i, c)
  PROVE  IInv'
<1>1. /\ Live(rows, i) /\ op' = "correct" /\ targets' = {i} /\ change' = {c}
      /\ UNCHANGED <<rows, alloc, db, paying, remaining>>
  BY DEF Correct
<1>2. /\ rows \in [Ids -> Row] /\ undo = {} /\ change = {} /\ todo = {} /\ paying = NoRow
      /\ SoundIn(rows, alloc)
  BY DEF IInv, TypeOK, Quiet
<1>3. \A r, d \in Ids : alloc[r][d] > 0 => /\ InHand(rows, r) /\ Live(rows, d)
                                          /\ ~IsRepayment(rows[d])
  BY <1>2, SettledAreDebts
  DEF IInv, AllocationsAccounted, SoundIn, MatchingIn, Settles, InHand
<1>4. CASE IsRepayment(rows[i])
  <2>1. undo' = {i} /\ todo' = {}
    BY <1>4 DEF Correct
  <2>2. QED
    BY <1>1, <1>2, <1>3, <1>4, <2>1, TouchedTyped
    DEF IInv, TypeOK, Ops, RepaymentsInHand, CorrectionClear, AllocationsAccounted, Quiet,
        CommittedAllocationsLive, Correct
<1>5. CASE ~IsRepayment(rows[i])
  <2>1. undo' = AppliedTo(i) /\ todo' = AppliedTo(i)
    BY <1>5 DEF Correct
  <2>2. /\ AppliedTo(i) \subseteq Ids /\ i \notin AppliedTo(i)
        /\ \A r \in AppliedTo(i) : InHand(rows, r)
        /\ \A r \in Ids : alloc[r][i] > 0 => r \in AppliedTo(i)
    BY <1>3, <1>5 DEF AppliedTo, InHand
  <2>3. QED
    BY <1>1, <1>2, <1>3, <1>5, <2>1, <2>2, TouchedTyped
    DEF IInv, TypeOK, Ops, RepaymentsInHand, CorrectionClear, AllocationsAccounted, Quiet,
        CommittedAllocationsLive, Correct, InHand
<1>6. QED BY <1>4, <1>5

\* Taking a repayment back leaves it in hand, with nothing allocated.
LEMMA TakeBackKeepsInv ==
  ASSUME IInv, NEW r \in Ids, TakeBack(r)
  PROVE  IInv'
<1>1. /\ r \in undo /\ Reverse(r) /\ undo' = undo \ {r}
      /\ UNCHANGED <<db, op, targets, change, todo, paying, remaining, touched>>
  BY DEF TakeBack
<1>2. /\ rows' \in [Ids -> Row] /\ alloc' \in [Ids -> [Ids -> Nat]]
      /\ SoundIn(rows', alloc')
      /\ \A i \in Ids : SameEntry(rows'[i], rows[i])
      /\ \A q, d \in Ids : alloc'[q][d] = IF q = r THEN 0 ELSE alloc[q][d]
  BY <1>1, ReverseSound DEF IInv
<1>3. \A i \in Ids : Live(rows', i) = Live(rows, i) /\ InHand(rows', i) = InHand(rows, i)
  BY <1>2 DEF SameEntry, InHand
<1>4. \A q, d \in Ids : alloc'[q][d] > 0 => alloc[q][d] > 0 /\ q # r
  BY <1>2
<1>5. TypeOK'
  BY <1>1, <1>2 DEF IInv, TypeOK
<1>6. RepaymentsInHand'
  BY <1>1, <1>3 DEF IInv, TypeOK, RepaymentsInHand
<1>7. CorrectionClear'
  BY <1>1, <1>3, <1>4 DEF IInv, TypeOK, CorrectionClear
<1>8. AllocationsAccounted'
  BY <1>1, <1>3, <1>4 DEF IInv, AllocationsAccounted
<1>9. QED
  BY <1>1, <1>2, <1>5, <1>6, <1>7, <1>8 DEF IInv, CommittedAllocationsLive, Quiet

\* Taking up the next repayment keeps the invariant, with its amount still to place.
LEMMA ApplyKeepsInv ==
  ASSUME IInv, NEW r \in Ids, Apply(r)
  PROVE  IInv'
<1>1. /\ op # "idle" /\ undo = {} /\ change = {} /\ r \in todo
      /\ todo' = todo \ {r} /\ paying' = r /\ remaining' = rows[r].amount
      /\ UNCHANGED <<db, op, targets, undo, change, touched>>
  BY DEF Apply, ReadyToApply, Due
<1>2. InHand(rows, r) /\ rows \in [Ids -> Row] /\ alloc \in [Ids -> [Ids -> Nat]]
  BY <1>1 DEF IInv, RepaymentsInHand, TypeOK
<1>3. remaining' \in Nat
  BY <1>1, <1>2 DEF InHand, Row
<1>4. /\ rows' \in [Ids -> Row] /\ alloc' \in [Ids -> [Ids -> Nat]]
      /\ SoundIn(rows', alloc')
      /\ \A i \in Ids : Live(rows', i) = Live(rows, i) /\ InHand(rows', i) = InHand(rows, i)
      /\ \A q, d \in Ids : alloc'[q][d] > 0 =>
           alloc[q][d] > 0 /\ (op = "delete" => q # r)
  <2>1. CASE op = "delete"
    <3>1. Reverse(r)
      BY <2>1 DEF Apply
    <3>2. /\ rows' \in [Ids -> Row] /\ alloc' \in [Ids -> [Ids -> Nat]]
          /\ SoundIn(rows', alloc')
          /\ \A i \in Ids : SameEntry(rows'[i], rows[i])
          /\ \A q, d \in Ids : alloc'[q][d] = IF q = r THEN 0 ELSE alloc[q][d]
      BY <3>1, ReverseSound DEF IInv
    <3>3. \A i \in Ids : Live(rows', i) = Live(rows, i) /\ InHand(rows', i) = InHand(rows, i)
      BY <3>2 DEF SameEntry, InHand
    <3>4. \A q, d \in Ids : alloc'[q][d] > 0 => alloc[q][d] > 0 /\ q # r
      BY <3>2
    <3>5. QED BY <3>2, <3>3, <3>4
  <2>2. CASE op # "delete"
    <3>1. UNCHANGED <<rows, alloc>>
      BY <2>2 DEF Apply
    <3>2. QED BY <1>2, <2>2, <3>1 DEF IInv, InHand
  <2>3. QED BY <2>1, <2>2
<1>5. TypeOK'
  BY <1>1, <1>3, <1>4 DEF IInv, TypeOK
<1>6. RepaymentsInHand'
  BY <1>1, <1>2, <1>4 DEF IInv, TypeOK, RepaymentsInHand
<1>7. AllocationsAccounted'
  BY <1>1, <1>4 DEF IInv, AllocationsAccounted, InHand
<1>8. QED
  BY <1>1, <1>4, <1>5, <1>6, <1>7
  DEF IInv, CommittedAllocationsLive, Quiet, CorrectionClear

\* Each turn of the settling loop places money of the repayment in hand only.
LEMMA PayOldestKeepsInv ==
  ASSUME IInv, PayOldest
  PROVE  IInv'
<1>1. UNCHANGED <<db, op, targets, undo, change, todo, paying, touched>> /\ paying # NoRow
  BY DEF PayOldest
<1>2. /\ rows' \in [Ids -> Row] /\ alloc' \in [Ids -> [Ids -> Nat]] /\ remaining' \in Nat
      /\ SoundIn(rows', alloc')
      /\ \A i \in Ids : SameEntry(rows'[i], rows[i])
      /\ \A q, e \in Ids : alloc'[q][e] > 0 =>
           alloc[q][e] > 0 \/ (InHand(rows, q) /\ Live(rows, e))
  BY PaySound DEF IInv, RepaymentsInHand
<1>3. \A i \in Ids : Live(rows', i) = Live(rows, i) /\ InHand(rows', i) = InHand(rows, i)
  BY <1>2 DEF SameEntry, InHand
<1>4. TypeOK'
  BY <1>1, <1>2 DEF IInv, TypeOK
<1>5. RepaymentsInHand'
  BY <1>1, <1>3 DEF IInv, TypeOK, RepaymentsInHand
<1>6. AllocationsAccounted'
  BY <1>1, <1>2, <1>3 DEF IInv, AllocationsAccounted, InHand
<1>7. QED
  BY <1>1, <1>2, <1>4, <1>5, <1>6
  DEF IInv, CommittedAllocationsLive, Quiet, CorrectionClear

\* The end of the settling loop writes no row.
LEMMA PaidKeepsInv ==
  ASSUME IInv, Paid
  PROVE  IInv'
BY DEF IInv, Paid, TypeOK, RepaymentsInHand, InHand, CommittedAllocationsLive, Quiet,
       CorrectionClear, AllocationsAccounted

\* A corrected row is a row in the same state, settled from its new amounts.
LEMMA CorrectedRow ==
  ASSUME NEW row \in Row, NEW c \in Corrections
  PROVE  /\ Corrected(row, c) \in Row
         /\ Corrected(row, c).state = row.state /\ Corrected(row, c).type = row.type
         /\ ~IsComplete(Corrected(row, c)) => Corrected(row, c).out = Unknown
         /\ IsComplete(Corrected(row, c)) /\ ~IsRepayment(Corrected(row, c)) =>
              Corrected(row, c).out =
                PositivePart(Corrected(row, c).amount - Corrected(row, c).paid)
<1>1. c \in Correction
  BY InputsAreTyped
<1> DEFINE amount == Given(c.amount, row.amount)
           paid == IF c.paid # Unknown THEN c.paid
                   ELSE IF c.amount # Unknown /\ IsComplete(row) /\ row.paid = row.amount
                   THEN amount ELSE row.paid
           party == IF c.party = NoParty THEN row.party ELSE c.party
           edited == [row EXCEPT !.amount = amount, !.paid = paid, !.party = party,
                                 !.date = Given(c.date, row.date)]
<1>2. amount \in Money /\ paid \in Int
  BY <1>1 DEF Correction, Row, Given
<1>3. party \in Parties \cup {NoParty} /\ Given(c.date, row.date) \in Dates
  BY <1>1 DEF Correction, Row, Given
<1>4. Corrected(row, c) = Settle(edited)
  BY DEF Corrected, Row
<1> HIDE DEF amount, paid, party
<1>5. edited \in Row /\ edited.state = row.state /\ edited.type = row.type
  BY <1>2, <1>3 DEF Row
<1> HIDE DEF edited
<1>6. QED BY <1>4, <1>5, SettleDerives DEF SameEntry

\* No allocation touches the row when the correction is written.
LEMMA EditKeepsInv ==
  ASSUME IInv, Edit
  PROVE  IInv'
<1>1. /\ op = "correct" /\ undo = {} /\ change' = {}
      /\ UNCHANGED <<alloc, db, op, targets, undo, paying, remaining>>
      /\ rows \in [Ids -> Row] /\ alloc \in [Ids -> [Ids -> Nat]]
      /\ change \subseteq Corrections /\ targets \subseteq Ids
  BY DEF Edit, IInv, TypeOK
<1>2. PICK c \in change, i \in targets :
        LET row == Corrected(rows[i], c)
        IN  /\ rows' = [rows EXCEPT ![i] = row]
            /\ todo' = IF IsRepayment(row) /\ IsComplete(row) THEN {i} ELSE todo
            /\ touched' = touched \cup NamedParty(row.party)
  BY DEF Edit
<1> DEFINE new == Corrected(rows[i], c)
<1>3. /\ i \in Ids /\ c \in Corrections /\ rows[i] \in Row /\ Live(rows, i) /\ i \notin todo
      /\ paying = NoRow
      /\ \A j \in Ids : ~(alloc[j][i] > 0) /\ ~(alloc[i][j] > 0)
  BY <1>1, <1>2 DEF IInv, CorrectionClear
<1>4. /\ new \in Row /\ new.state = "live"
      /\ ~IsComplete(new) => new.out = Unknown
      /\ IsComplete(new) /\ ~IsRepayment(new) => new.out = PositivePart(new.amount - new.paid)
  BY <1>3, CorrectedRow
<1>5. /\ rows' = [rows EXCEPT ![i] = new]
      /\ todo' = IF IsRepayment(new) /\ IsComplete(new) THEN {i} ELSE todo
      /\ touched' = touched \cup NamedParty(new.party)
  BY <1>2
<1> HIDE DEF new
<1>6. /\ rows' \in [Ids -> Row] /\ rows'[i] = new
      /\ \A j \in Ids : j # i => rows'[j] = rows[j]
  BY <1>1, <1>3, <1>4, <1>5
<1>7. SoundIn(rows', alloc')
  <2>1. BalancedIn(rows')
    BY <1>4, <1>6 DEF IInv, SoundIn, BalancedIn, Used
  <2>2. MatchingIn(rows', alloc')
    BY <1>1, <1>3, <1>6 DEF IInv, SoundIn, MatchingIn
  <2>3. FoundedIn(rows', alloc')
    BY <1>1, <1>3, <1>4, <1>6 DEF IInv, SoundIn, FoundedIn, Used
  <2>4. QED BY <2>1, <2>2, <2>3 DEF SoundIn
<1>8. touched' \subseteq Parties
  <2>1. NamedParty(new.party) \subseteq Parties
    BY <1>4 DEF NamedParty, Row
  <2>2. QED BY <1>5, <2>1 DEF IInv, TypeOK
<1>9. RepaymentsInHand'
  BY <1>1, <1>3, <1>4, <1>5, <1>6 DEF IInv, RepaymentsInHand, InHand, TypeOK
<1>10. AllocationsAccounted'
  BY <1>1, <1>3, <1>6 DEF IInv, AllocationsAccounted
<1>11. todo' \subseteq Ids
  BY <1>3, <1>5 DEF IInv, TypeOK
<1>12. TypeOK'
  BY <1>1, <1>6, <1>8, <1>11 DEF IInv, TypeOK
<1>13. QED
  BY <1>1, <1>7, <1>9, <1>10, <1>12
  DEF IInv, CommittedAllocationsLive, Quiet, CorrectionClear

\* Nothing is left to take back or to move when the transaction commits.
LEMMA CommitKeepsInv ==
  ASSUME IInv, Commit
  PROVE  IInv'
<1>1. /\ undo = {} /\ change = {} /\ paying = NoRow /\ todo = {}
      /\ db' = [rows |-> rows, alloc |-> alloc]
      /\ UNCHANGED <<rows, alloc>> /\ Closed
  BY DEF Commit, ReadyToApply
<1>2. db'.rows = rows /\ db'.alloc = alloc
  BY <1>1
<1>3. CommittedAllocationsLive'
  BY <1>1, <1>2 DEF IInv, AllocationsAccounted, CommittedAllocationsLive
<1>4. AllocationsAccounted'
  BY <1>1 DEF IInv, AllocationsAccounted
<1>5. TypeOK'
  BY <1>1 DEF IInv, TypeOK, Ops, Closed
<1>6. QED
  BY <1>1, <1>2, <1>3, <1>4, <1>5
  DEF IInv, RepaymentsInHand, Quiet, CorrectionClear, Closed

\* A rollback gives back what was committed, which was sound.
LEMMA RollbackKeepsInv ==
  ASSUME IInv, Rollback
  PROVE  IInv'
<1>1. /\ rows' = db.rows /\ alloc' = db.alloc /\ UNCHANGED db /\ Closed
  BY DEF Rollback
<1>2. TypeOK'
  BY <1>1 DEF IInv, TypeOK, Ops, Closed
<1>3. AllocationsAccounted' /\ CommittedAllocationsLive'
  BY <1>1 DEF IInv, AllocationsAccounted, CommittedAllocationsLive
<1>4. QED
  BY <1>1, <1>2, <1>3
  DEF IInv, RepaymentsInHand, Quiet, CorrectionClear, Closed

\* Every step of every operation keeps the invariant.
LEMMA StepKeepsInv == IInv /\ [Next]_vars => IInv'
<1> SUFFICES ASSUME IInv, [Next]_vars PROVE IInv'
  OBVIOUS
<1>1. CASE RecordMessage
  BY <1>1, RecordKeepsInv
<1>2. CASE DeleteOne
  <2>1. PICK i \in Ids : Live(rows, i) /\ Delete({i})
    BY <1>2 DEF DeleteOne
  <2>2. {i} \in SUBSET Ids /\ \A j \in {i} : Live(rows, j)
    BY <2>1
  <2>3. QED BY <2>1, <2>2, DeleteKeepsInv
<1>3. CASE DeleteLastMessage
  <2>1. LatestBatch(rows) \in SUBSET Ids /\ \A j \in LatestBatch(rows) : Live(rows, j)
    BY DEF LatestBatch
  <2>2. Delete(LatestBatch(rows))
    BY <1>3 DEF DeleteLastMessage
  <2>3. QED BY <2>1, <2>2, DeleteKeepsInv
<1>4. CASE CorrectOne
  BY <1>4, CorrectKeepsInv DEF CorrectOne
<1>5. CASE PayOldest
  BY <1>5, PayOldestKeepsInv
<1>6. CASE Paid
  BY <1>6, PaidKeepsInv
<1>7. CASE Edit
  BY <1>7, EditKeepsInv
<1>8. CASE Commit
  BY <1>8, CommitKeepsInv
<1>9. CASE \E r \in Ids : TakeBack(r)
  BY <1>9, TakeBackKeepsInv
<1>10. CASE \E r \in Ids : Apply(r)
  BY <1>10, ApplyKeepsInv
<1>11. CASE Rollback
  BY <1>11, RollbackKeepsInv
<1>12. CASE UNCHANGED vars
  BY <1>12
  DEF vars, IInv, TypeOK, RepaymentsInHand, InHand, CommittedAllocationsLive, Quiet,
      CorrectionClear, AllocationsAccounted
<1>13. QED
  BY <1>1, <1>2, <1>3, <1>4, <1>5, <1>6, <1>7, <1>8, <1>9, <1>10, <1>11, <1>12
  DEF Next, Work

-----------------------------------------------------------------------------
(* What holds of every book. *)

\* The inductive invariant holds throughout every sequence of recordings,
\* deletions, corrections, commits and rollbacks.
THEOREM InvariantHolds == Spec => []IInv
<1>1. Init => IInv
  BY InitSound
<1>2. IInv /\ [Next]_vars => IInv'
  BY StepKeepsInv
<1>3. QED BY <1>1, <1>2, PTL DEF Spec

\* Every variable keeps its type: an outstanding never goes below zero, and no
\* allocation is negative.
THEOREM TypeCorrect == Spec => []TypeOK
<1>1. IInv => TypeOK
  BY DEF IInv
<1>2. QED BY <1>1, InvariantHolds, PTL

\* Every debt's outstanding is its amount less what was paid, never below zero,
\* through reversal, correction and re-application.
THEOREM BalancesHold == Spec => []Balanced
<1>1. IInv => Balanced
  BY DEF IInv, SoundIn, Balanced
<1>2. QED BY <1>1, InvariantHolds, PTL

\* Money settles only debts of the repayment's own party, on its own side, and
\* none beyond its amount.
THEOREM AllocationsAlwaysMatch == Spec => []AllocationsMatch
<1>1. IInv => AllocationsMatch
  BY DEF IInv, SoundIn, AllocationsMatch
<1>2. QED BY <1>1, InvariantHolds, PTL

\* No committed allocation starts from or points at a deleted entry.
THEOREM AllocationsStayLive == Spec => []CommittedAllocationsLive
<1>1. IInv => CommittedAllocationsLive
  BY DEF IInv
<1>2. QED BY <1>1, InvariantHolds, PTL
-----------------------------------------------------------------------------
(***************************************************************************)
(* The invariant, on top of IInv.  What a repayment has settled and what   *)
(* of it is still to be placed is within its amount; a repayment that is   *)
(* yet to be applied has settled nothing, unless it is still to be taken   *)
(* back, now or, in a deletion, at the moment it is applied.               *)
(***************************************************************************)
Settled(a, r) == SumFunction(a[r])
PaidInto(a, d) == SumFunction([r \in Ids |-> a[r][d]])

WithinAmountIn(t, a) == \A r \in Ids : Settled(a, r) <= PositivePart(t[r].amount)

InHandNow(r) == IF r = paying THEN remaining ELSE 0
WithinAmount == \A r \in Ids : Settled(alloc, r) + InHandNow(r) <= PositivePart(rows[r].amount)

TodoIsUnplaced ==
  /\ paying \notin todo
  /\ op # "delete" => \A r \in todo : r \in undo \/ \A d \in Ids : alloc[r][d] = 0

IdleIsCommitted == op = "idle" => rows = db.rows /\ alloc = db.alloc

\* Apart from repayments, an entry that is not being corrected has what was paid on it when
\* the operation began.
PaidApartKept ==
  \A i \in Used(db.rows) : ~(op = "correct" /\ i \in targets) =>
    rows[i].paid - PaidInto(alloc, i) = PaidApart(db, i)

\* Whoever an entry belongs to, or belonged to, is named once the entry has changed; and so is
\* everyone whose entry or repayment the operation still has in hand.
Owners(i) ==
  NamedParty(rows[i].party) \cup (IF i \in Used(db.rows) THEN NamedParty(db.rows[i].party) ELSE {})

HandsOf == todo \cup undo \cup (IF paying = NoRow THEN {} ELSE {paying})

ChangesAreNamed ==
  /\ \A i \in Ids : rows[i] # db.rows[i] => Owners(i) \subseteq touched
  /\ \A r \in HandsOf : NamedParty(rows[r].party) \subseteq touched
  /\ op # "idle" => \A i \in targets : NamedParty(rows[i].party) \subseteq touched

MInv ==
  /\ WithinAmount /\ WithinAmountIn(db.rows, db.alloc)
  /\ TodoIsUnplaced /\ IdleIsCommitted
  /\ PaidApartKept /\ ChangesAreNamed
-----------------------------------------------------------------------------
(* Sums over a table of allocations. *)

AllocationTable == [Ids -> [Ids -> Nat]]

\* The rows of a ledger are finitely many.
LEMMA IdsFinite == IsFiniteSet(Ids)
  BY BoundsAreNatural, FS_Interval DEF Ids

\* What a repayment settled, and what was paid into a debt, are sums over all rows.
LEMMA SumsOverIds ==
  ASSUME NEW a \in AllocationTable, NEW r \in Ids
  PROVE  /\ Settled(a, r) = SumFunctionOnSet(a[r], Ids)
         /\ PaidInto(a, r) = SumFunctionOnSet([q \in Ids |-> a[q][r]], Ids)
         /\ Settled(a, r) \in Nat /\ PaidInto(a, r) \in Nat
<1>1. DOMAIN a[r] = Ids /\ \A d \in Ids : a[r][d] \in Nat
  BY DEF AllocationTable
<1> DEFINE column == [q \in Ids |-> a[q][r]]
<1>2. DOMAIN column = Ids /\ \A q \in Ids : column[q] \in Nat
  BY DEF AllocationTable
<1>3. Settled(a, r) = SumFunctionOnSet(a[r], Ids)
  BY <1>1 DEF Settled, SumFunction
<1>4. PaidInto(a, r) = SumFunctionOnSet(column, Ids)
  BY <1>2 DEF PaidInto, SumFunction
<1> HIDE DEF column
<1>5. SumFunctionOnSet(a[r], Ids) \in Nat /\ SumFunctionOnSet(column, Ids) \in Nat
  BY <1>1, <1>2, IdsFinite, SumIsNat
<1>6. QED BY <1>3, <1>4, <1>5 DEF column

\* Table b is table a with the amount m of repayment q placed on debt e.
Places(a, b, q, e, m) ==
  \A x, y \in Ids : b[x][y] = IF x = q /\ y = e THEN a[x][y] + m ELSE a[x][y]

\* Money placed on one debt adds to what its repayment settled and to what was
\* paid into that debt, and to nothing else.
LEMMA SumsOfPlacing ==
  ASSUME NEW a \in AllocationTable, NEW b \in AllocationTable, NEW q \in Ids, NEW e \in Ids, NEW m \in Nat,
         Places(a, b, q, e, m), NEW i \in Ids
  PROVE  /\ Settled(b, i) = Settled(a, i) + (IF i = q THEN m ELSE 0)
         /\ PaidInto(b, i) = PaidInto(a, i) + (IF i = e THEN m ELSE 0)
<1>1. /\ Settled(a, i) = SumFunctionOnSet(a[i], Ids) /\ Settled(b, i) = SumFunctionOnSet(b[i], Ids)
      /\ Settled(a, i) \in Nat /\ PaidInto(a, i) \in Nat
  BY SumsOverIds
<1>2. \A x, y \in Ids : /\ a[x][y] \in Nat /\ b[x][y] \in Nat
                       /\ b[x][y] = IF x = q /\ y = e THEN a[x][y] + m ELSE a[x][y]
  BY DEF AllocationTable, Places
<1>3. Settled(b, i) = Settled(a, i) + (IF i = q THEN m ELSE 0)
  <2>1. CASE i = q
    <3>1. /\ \A y \in Ids : a[i][y] \in Int /\ (y # e => a[i][y] = b[i][y])
          /\ b[i][e] \in Int /\ b[i][e] = a[i][e] + m /\ a[i][e] \in Nat
      BY <1>2, <2>1
    <3>2. SumFunctionOnSet(b[i], Ids) = SumFunctionOnSet(a[i], Ids) - a[i][e] + b[i][e]
      BY <3>1, IdsFinite, SumChanges
    <3>3. QED BY <1>1, <2>1, <3>1, <3>2
  <2>2. CASE i # q
    <3>1. \A y \in Ids : a[i][y] = b[i][y]
      BY <1>2, <2>2
    <3>2. QED BY <1>1, <2>2, <3>1, IdsFinite, SumOfSame
  <2>3. QED BY <2>1, <2>2
<1> DEFINE f == [x \in Ids |-> a[x][i]]
           g == [x \in Ids |-> b[x][i]]
<1>4. PaidInto(a, i) = SumFunctionOnSet(f, Ids) /\ PaidInto(b, i) = SumFunctionOnSet(g, Ids)
  BY SumsOverIds
<1>5. \A x \in Ids : f[x] = a[x][i] /\ g[x] = b[x][i]
  OBVIOUS
<1> HIDE DEF f, g
<1>6. PaidInto(b, i) = PaidInto(a, i) + (IF i = e THEN m ELSE 0)
  <2>1. CASE i = e
    <3>1. /\ \A x \in Ids : f[x] \in Int /\ (x # q => f[x] = g[x])
          /\ g[q] \in Int /\ g[q] = f[q] + m /\ f[q] \in Nat
      BY <1>2, <1>5, <2>1
    <3>2. SumFunctionOnSet(g, Ids) = SumFunctionOnSet(f, Ids) - f[q] + g[q]
      BY <3>1, IdsFinite, SumChanges
    <3>3. QED BY <1>1, <1>4, <2>1, <3>1, <3>2
  <2>2. CASE i # e
    <3>1. \A x \in Ids : f[x] = g[x]
      BY <1>2, <1>5, <2>2
    <3>2. QED BY <1>1, <1>4, <2>2, <3>1, IdsFinite, SumOfSame
  <2>3. QED BY <2>1, <2>2
<1>7. QED BY <1>3, <1>6

\* Taking a repayment back empties its row of the table, and takes from each debt
\* what the repayment had settled of it.
LEMMA SumsOfTakingBack ==
  ASSUME NEW a \in AllocationTable, NEW b \in AllocationTable, NEW q \in Ids,
         \A x, y \in Ids : b[x][y] = IF x = q THEN 0 ELSE a[x][y],
         NEW i \in Ids
  PROVE  /\ Settled(b, i) = IF i = q THEN 0 ELSE Settled(a, i)
         /\ PaidInto(b, i) = PaidInto(a, i) - a[q][i]
<1>1. /\ Settled(a, i) = SumFunctionOnSet(a[i], Ids) /\ Settled(b, i) = SumFunctionOnSet(b[i], Ids)
      /\ PaidInto(a, i) \in Nat
  BY SumsOverIds
<1>2. \A x, y \in Ids : a[x][y] \in Nat /\ b[x][y] \in Nat
  BY DEF AllocationTable
<1>3. Settled(b, i) = IF i = q THEN 0 ELSE Settled(a, i)
  <2>1. CASE i = q
    <3>1. \A y \in Ids : b[i][y] = 0
      BY <2>1
    <3>2. QED BY <1>1, <2>1, <3>1, IdsFinite, SumOfZeros
  <2>2. CASE i # q
    <3>1. \A y \in Ids : a[i][y] = b[i][y]
      BY <2>2
    <3>2. QED BY <1>1, <2>2, <3>1, IdsFinite, SumOfSame
  <2>3. QED BY <2>1, <2>2
<1> DEFINE f == [x \in Ids |-> a[x][i]]
           g == [x \in Ids |-> b[x][i]]
<1>4. PaidInto(a, i) = SumFunctionOnSet(f, Ids) /\ PaidInto(b, i) = SumFunctionOnSet(g, Ids)
  BY SumsOverIds
<1>5. \A x \in Ids : f[x] = a[x][i] /\ g[x] = b[x][i]
  OBVIOUS
<1> HIDE DEF f, g
<1>6. /\ \A x \in Ids : f[x] \in Int /\ (x # q => f[x] = g[x])
      /\ g[q] \in Int /\ g[q] = 0 /\ f[q] = a[q][i] /\ f[q] \in Nat
  BY <1>2, <1>5
<1>7. SumFunctionOnSet(g, Ids) = SumFunctionOnSet(f, Ids) - f[q] + g[q]
  BY <1>6, IdsFinite, SumChanges
<1>8. PaidInto(b, i) = PaidInto(a, i) - a[q][i]
  BY <1>1, <1>4, <1>6, <1>7
<1>9. QED BY <1>3, <1>8

\* A repayment that holds money on no debt has settled nothing.
LEMMA NothingPlaced ==
  ASSUME NEW a \in AllocationTable, NEW r \in Ids, \A d \in Ids : a[r][d] = 0
  PROVE  Settled(a, r) = 0
<1>1. Settled(a, r) = SumFunctionOnSet(a[r], Ids)
  BY SumsOverIds
<1>2. SumFunctionOnSet(a[r], Ids) = 0
  BY IdsFinite, SumOfZeros
<1>3. QED BY <1>1, <1>2
-----------------------------------------------------------------------------
(* The steps that move money. *)

\* What is taken back of a debt comes off what was paid on it and is owed again; no
\* other row changes.
LEMMA ReverseMoney ==
  ASSUME TypeOK, NEW r \in Ids, Reverse(r)
  PROVE  \A d \in Ids : /\ rows'[d].paid = rows[d].paid - alloc[r][d]
                        /\ rows'[d].date = rows[d].date
                        /\ alloc[r][d] = 0 => rows'[d] = rows[d]
                        /\ alloc[r][d] # 0 => rows'[d].out = rows[d].out + alloc[r][d]
<1> SUFFICES ASSUME NEW d \in Ids
             PROVE  /\ rows'[d].paid = rows[d].paid - alloc[r][d]
                    /\ rows'[d].date = rows[d].date
                    /\ alloc[r][d] = 0 => rows'[d] = rows[d]
                    /\ alloc[r][d] # 0 => rows'[d].out = rows[d].out + alloc[r][d]
  OBVIOUS
<1>1. rows[d] \in Row /\ alloc[r][d] \in Nat /\ rows[d].paid \in Int /\ rows[d].out \in Int
  BY DEF TypeOK, Row
<1>2. rows'[d] = IF alloc[r][d] = 0 THEN rows[d] ELSE PayInto(rows[d], 0 - alloc[r][d])
  BY DEF Reverse
<1>3. /\ PayInto(rows[d], 0 - alloc[r][d]).paid = rows[d].paid + (0 - alloc[r][d])
      /\ PayInto(rows[d], 0 - alloc[r][d]).out = rows[d].out - (0 - alloc[r][d])
      /\ PayInto(rows[d], 0 - alloc[r][d]).date = rows[d].date
  BY <1>1 DEF PayInto, Row
<1>4. QED BY <1>1, <1>2, <1>3

\* What one turn of the settling loop does: the amount m of the repayment in hand
\* goes to its oldest open debt d.
PaysOff(d, m) ==
  /\ d \in OpenDebts(rows, paying)
  /\ \A e \in OpenDebts(rows, paying) \ {d} : Older(rows, d, e)
  /\ rows'[d].paid = rows[d].paid + m /\ rows'[d].out = rows[d].out - m
  /\ rows'[d].date = rows[d].date
  /\ \A i \in Ids : i # d => rows'[i] = rows[i]
  /\ Places(alloc, alloc', paying, d, m)
  /\ m <= remaining /\ remaining' = remaining - m

\* The loop pays one amount of the repayment in hand to its oldest open debt.
LEMMA PayMoney ==
  ASSUME TypeOK, PayOldest
  PROVE  \E d \in Ids, m \in Nat : PaysOff(d, m)
<1>1. /\ rows \in [Ids -> Row] /\ alloc \in [Ids -> [Ids -> Nat]]
      /\ remaining \in Nat /\ remaining > 0 /\ paying \in Ids
  BY DEF TypeOK, PayOldest
<1>2. PICK d \in OpenDebts(rows, paying) :
        /\ \A e \in OpenDebts(rows, paying) \ {d} : Older(rows, d, e)
        /\ rows' = [rows EXCEPT ![d] = PayInto(@, Lesser(remaining, rows[d].out))]
        /\ alloc' = [alloc EXCEPT ![paying][d] = @ + Lesser(remaining, rows[d].out)]
        /\ remaining' = remaining - Lesser(remaining, rows[d].out)
  BY DEF PayOldest
<1>3. /\ d \in Ids /\ rows[d] \in Row
      /\ rows[d].out \in Int /\ rows[d].out > 0 /\ rows[d].paid \in Int
  BY <1>1, <1>2 DEF OpenDebts, Row
<1> DEFINE m == Lesser(remaining, rows[d].out)
<1>4. m \in Nat /\ m <= remaining
  BY <1>1, <1>3
<1>5. /\ rows' = [rows EXCEPT ![d] = PayInto(@, m)]
      /\ alloc' = [alloc EXCEPT ![paying][d] = @ + m]
      /\ remaining' = remaining - m
  BY <1>2
<1> HIDE DEF m
<1>6. rows'[d] = PayInto(rows[d], m) /\ \A i \in Ids : i # d => rows'[i] = rows[i]
  BY <1>1, <1>3, <1>5
<1>7. /\ PayInto(rows[d], m).paid = rows[d].paid + m /\ PayInto(rows[d], m).out = rows[d].out - m
      /\ PayInto(rows[d], m).date = rows[d].date
  BY <1>3 DEF PayInto, Row
<1>8. Places(alloc, alloc', paying, d, m)
  BY <1>1, <1>3, <1>5 DEF Places
<1>9. QED BY <1>2, <1>3, <1>4, <1>5, <1>6, <1>7, <1>8 DEF PaysOff

-----------------------------------------------------------------------------
(* The operations keep the invariant. *)

\* The empty ledger satisfies it.
LEMMA InitMoney == Init => MInv
<1> SUFFICES ASSUME Init PROVE MInv
  OBVIOUS
<1>1. /\ TypeOK /\ db.rows = rows /\ db.alloc = alloc
      /\ \A i \in Ids : rows[i].state = "absent"
      /\ \A r, d \in Ids : alloc[r][d] = 0
      /\ op = "idle" /\ targets = {} /\ undo = {} /\ todo = {} /\ paying = NoRow
  BY InitSound DEF Init, IInv, BlankRow
<1>2. \A r \in Ids : Settled(alloc, r) = 0
  BY <1>1, NothingPlaced DEF TypeOK, AllocationTable
<1>3. WithinAmountIn(rows, alloc) /\ WithinAmount
  BY <1>1, <1>2 DEF WithinAmountIn, WithinAmount, InHandNow, TypeOK, Row, Ids
<1>4. Used(db.rows) = {}
  BY <1>1 DEF Used
<1>5. QED
  BY <1>1, <1>3, <1>4
  DEF MInv, TodoIsUnplaced, IdleIsCommitted, PaidApartKept, ChangesAreNamed, HandsOf, Ids

\* While no operation runs, every repayment is within its amount, and the ledger
\* is the committed one.
LEMMA AtRest ==
  ASSUME IInv, MInv, op = "idle"
  PROVE  /\ undo = {} /\ change = {} /\ todo = {} /\ paying = NoRow
         /\ rows = db.rows /\ alloc = db.alloc
         /\ \A r \in Ids : Settled(alloc, r) <= PositivePart(rows[r].amount)
  BY DEF IInv, Quiet, MInv, IdleIsCommitted, WithinAmountIn

\* An operation that has only begun has moved no money.
LEMMA BeginKeepsMoney ==
  ASSUME IInv, MInv, op = "idle", UNCHANGED <<alloc, db, paying>>,
         rows' \in [Ids -> Row],
         \A i \in Used(rows) : rows'[i].amount = rows[i].amount /\ rows'[i].paid = rows[i].paid
  PROVE  /\ WithinAmount' /\ WithinAmountIn(db.rows, db.alloc)' /\ PaidApartKept'
<1>1. /\ paying' = NoRow /\ rows = db.rows /\ alloc = db.alloc
      /\ \A r \in Ids : Settled(alloc, r) <= PositivePart(rows[r].amount)
      /\ alloc \in AllocationTable /\ rows \in [Ids -> Row]
  BY AtRest DEF IInv, TypeOK, AllocationTable
<1>2. ASSUME NEW r \in Ids
      PROVE  Settled(alloc, r) <= PositivePart(rows'[r].amount)
  <2>1. CASE r \in Used(rows)
    BY <1>1, <2>1
  <2>2. CASE r \notin Used(rows)
    <3>1. \A d \in Ids : alloc[r][d] = 0
      BY <1>1, <2>2 DEF IInv, SoundIn, FoundedIn, AllocationTable
    <3>2. Settled(alloc, r) = 0
      BY <1>1, <3>1, NothingPlaced
    <3>3. QED BY <3>2 DEF Row
  <2>3. QED BY <2>1, <2>2
<1>3. WithinAmount'
  <2>1. \A r \in Ids : (InHandNow(r))' = 0
    BY <1>1 DEF InHandNow, Ids
  <2>2. \A r \in Ids : Settled(alloc', r) \in Nat
    BY <1>1, SumsOverIds
  <2>3. QED BY <1>2, <2>1, <2>2 DEF WithinAmount
<1>4. WithinAmountIn(db.rows, db.alloc)'
  BY DEF MInv, WithinAmountIn
<1>5. PaidApartKept'
  <2>1. \A i \in Used(db.rows) : rows'[i].paid - PaidInto(alloc, i) = PaidApart(db, i)
    BY <1>1 DEF PaidApart, PaidInto
  <2>2. QED BY <2>1 DEF PaidApartKept, PaidApart, PaidInto, Used
<1>6. QED BY <1>3, <1>4, <1>5

\* Recording a message names whoever its entries are for, and moves no money yet.
LEMMA RecordKeepsMoney ==
  ASSUME IInv, MInv, RecordMessage
  PROVE  MInv'
<1>1. /\ op = "idle" /\ op' = "record"
      /\ UNCHANGED <<alloc, db, undo, change, paying, remaining>>
      /\ undo = {} /\ paying = NoRow /\ rows = db.rows
      /\ alloc \in AllocationTable /\ rows \in [Ids -> Row]
  BY RecordWrites, AtRest DEF IInv, TypeOK, AllocationTable
<1>2. PICK new \in SUBSET Ids : /\ targets' = new /\ touched' = PartiesOf(rows', new)
                               /\ NewRowsIn(new) /\ RepaymentsAmong(new)
  BY RecordWrites
<1>3. /\ rows' \in [Ids -> Row]
      /\ \A i \in Used(rows) : rows'[i] = rows[i]
      /\ \A r \in new : \A d \in Ids : alloc[r][d] = 0
  <2>1. rows' \in [Ids -> Row]
    BY <1>1, <1>2, NewRowsSound DEF IInv
  <2>2. \A i \in Used(rows) : rows'[i] = rows[i]
    BY <1>2 DEF NewRowsIn, Used
  <2>3. \A r \in new : \A d \in Ids : alloc[r][d] = 0
    BY <1>1, <1>2 DEF NewRowsIn, IInv, SoundIn, FoundedIn, AllocationTable
  <2>4. QED BY <2>1, <2>2, <2>3
<1>4. WithinAmount' /\ WithinAmountIn(db.rows, db.alloc)' /\ PaidApartKept'
  BY <1>1, <1>3, BeginKeepsMoney
<1>5. TodoIsUnplaced'
  BY <1>1, <1>2, <1>3 DEF TodoIsUnplaced, RepaymentsAmong, Ids
<1>6. ChangesAreNamed'
  <2>1. \A i \in new : NamedParty(rows'[i].party) \subseteq touched'
    BY <1>2 DEF PartiesOf
  <2>2. \A i \in Ids : rows'[i] # db.rows[i] => i \in new /\ i \notin Used(db.rows)
    BY <1>1, <1>2 DEF NewRowsIn
  <2>3. \A i \in Ids : rows'[i] # db'.rows[i] => (Owners(i))' \subseteq touched'
    BY <1>1, <2>1, <2>2 DEF Owners, Used
  <2>4. HandsOf' \subseteq new
    BY <1>1, <1>2 DEF HandsOf, RepaymentsAmong
  <2>5. QED BY <1>2, <2>1, <2>3, <2>4 DEF ChangesAreNamed
<1>7. IdleIsCommitted'
  BY <1>1 DEF IdleIsCommitted
<1>8. QED BY <1>4, <1>5, <1>6, <1>7 DEF MInv

\* Deleting entries names whoever they belong to, and the repayments it will move
\* are theirs.
LEMMA DeleteKeepsMoney ==
  ASSUME IInv, MInv, NEW S \in SUBSET Ids, Delete(S)
  PROVE  MInv'
<1>1. /\ op = "idle" /\ op' = "delete" /\ targets' = S /\ touched' = PartiesOf(rows, S)
      /\ UNCHANGED <<alloc, db, change, paying, remaining>>
      /\ undo' = {i \in S : IsRepayment(rows[i])}
      /\ todo' = (UNION {AppliedTo(d) : d \in S}) \ S
  BY DEF Delete
<1>2. /\ paying = NoRow /\ rows = db.rows /\ rows \in [Ids -> Row]
      /\ MatchingIn(rows, alloc)
  BY <1>1, AtRest DEF IInv, TypeOK, SoundIn
<1>3. /\ rows' \in [Ids -> Row]
      /\ \A i \in Ids : /\ SameExceptState(rows'[i], rows[i])
                        /\ i \notin S => rows'[i] = rows[i]
  BY <1>2, DeleteWrites
<1>4. WithinAmount' /\ WithinAmountIn(db.rows, db.alloc)' /\ PaidApartKept'
  BY <1>1, <1>3, BeginKeepsMoney DEF SameExceptState, Used
<1>5. TodoIsUnplaced'
  BY <1>1, <1>2 DEF TodoIsUnplaced, AppliedTo, Ids
<1>6. ChangesAreNamed'
  <2>1. \A i \in Ids : rows'[i].party = rows[i].party
    BY <1>3 DEF SameExceptState
  <2>2. \A i \in S : NamedParty(rows[i].party) \subseteq touched'
    BY <1>1 DEF PartiesOf
  <2>3. \A i \in Ids : rows'[i] # db'.rows[i] => (Owners(i))' \subseteq touched'
    BY <1>1, <1>2, <1>3, <2>1, <2>2 DEF Owners, Used
  <2>4. \A r \in HandsOf' : NamedParty(rows[r].party) \subseteq touched'
    <3> SUFFICES ASSUME NEW r \in HandsOf' PROVE NamedParty(rows[r].party) \subseteq touched'
      OBVIOUS
    <3>1. r \in S \/ \E d \in S : r \in AppliedTo(d)
      BY <1>1, <1>2 DEF HandsOf
    <3>2. ASSUME NEW d \in S, r \in AppliedTo(d)
          PROVE  rows[r].party = rows[d].party
      BY <1>2, <3>2 DEF AppliedTo, MatchingIn, Settles
    <3>3. QED BY <2>2, <3>1, <3>2
  <2>5. HandsOf' \subseteq Ids
    BY <1>1, <1>2 DEF HandsOf, AppliedTo
  <2>6. QED BY <1>1, <2>1, <2>2, <2>3, <2>4, <2>5 DEF ChangesAreNamed
<1>7. IdleIsCommitted'
  BY <1>1 DEF IdleIsCommitted
<1>8. QED BY <1>4, <1>5, <1>6, <1>7 DEF MInv

\* A correction names whoever had the entry, and what it will take back is theirs.
LEMMA CorrectKeepsMoney ==
  ASSUME IInv, MInv, op = "idle", NEW i \in Ids, NEW c \in Corrections, Correct(i, c)
  PROVE  MInv'
<1>1. /\ op' = "correct" /\ targets' = {i} /\ touched' = PartiesOf(rows, {i})
      /\ UNCHANGED <<rows, alloc, db, paying, remaining>>
      /\ undo' = IF IsRepayment(rows[i]) THEN {i} ELSE AppliedTo(i)
      /\ todo' = IF IsRepayment(rows[i]) THEN {} ELSE AppliedTo(i)
  BY DEF Correct
<1>2. /\ paying = NoRow /\ rows = db.rows /\ rows \in [Ids -> Row]
      /\ MatchingIn(rows, alloc)
  BY <1>1, AtRest DEF IInv, TypeOK, SoundIn
<1>3. WithinAmount' /\ WithinAmountIn(db.rows, db.alloc)' /\ PaidApartKept'
  BY <1>1, <1>2, BeginKeepsMoney
<1>4. TodoIsUnplaced'
  BY <1>1, <1>2 DEF TodoIsUnplaced, AppliedTo, Ids
<1>5. ChangesAreNamed'
  <2>1. NamedParty(rows[i].party) \subseteq touched'
    BY <1>1 DEF PartiesOf
  <2>2. \A r \in HandsOf' : r = i \/ r \in AppliedTo(i)
    BY <1>1, <1>2 DEF HandsOf
  <2>3. \A r \in AppliedTo(i) : rows[r].party = rows[i].party
    BY <1>2 DEF AppliedTo, MatchingIn, Settles
  <2>4. QED BY <1>1, <1>2, <2>1, <2>2, <2>3 DEF ChangesAreNamed
<1>6. IdleIsCommitted'
  BY <1>1 DEF IdleIsCommitted
<1>7. QED BY <1>3, <1>4, <1>5, <1>6 DEF MInv

\* What taking back a repayment in hand changes, it changes for a party that is named.
LEMMA ReverseKeepsNames ==
  ASSUME IInv, MInv, NEW r \in Ids, Reverse(r), r \in HandsOf, UNCHANGED <<db, touched>>
  PROVE  \A i \in Ids : rows'[i] # db'.rows[i] => (Owners(i))' \subseteq touched'
<1> SUFFICES ASSUME NEW i \in Ids, rows'[i] # db.rows[i]
             PROVE  (Owners(i))' \subseteq touched
  OBVIOUS
<1>1. TypeOK /\ alloc[r][i] \in Nat /\ NamedParty(rows[r].party) \subseteq touched
  BY DEF IInv, TypeOK, MInv, ChangesAreNamed
<1>2. rows'[i].party = rows[i].party
  BY ReverseSound DEF IInv, SameEntry
<1>3. (Owners(i))' = Owners(i)
  BY <1>2 DEF Owners, Used
<1>4. CASE rows[i] # db.rows[i]
  BY <1>3, <1>4 DEF MInv, ChangesAreNamed
<1>5. CASE rows[i] = db.rows[i]
  <2>1. alloc[r][i] > 0
    BY <1>1, <1>5, ReverseMoney
  <2>2. rows[i].party = rows[r].party
    BY <2>1 DEF IInv, SoundIn, MatchingIn, Settles
  <2>3. QED BY <1>1, <1>3, <1>5, <2>2 DEF Owners
<1>6. QED BY <1>4, <1>5

\* Taking a repayment back keeps what was stated as paid on every debt it settled.
LEMMA ReverseKeepsMoney ==
  ASSUME IInv, MInv, NEW r \in Ids, Reverse(r), UNCHANGED <<db, op, targets>>
  PROVE  /\ PaidApartKept' /\ WithinAmountIn(db.rows, db.alloc)'
         /\ \A i \in Ids : /\ Settled(alloc', i) = IF i = r THEN 0 ELSE Settled(alloc, i)
                           /\ rows'[i].amount = rows[i].amount
                           /\ rows'[i].party = rows[i].party
<1>1. /\ TypeOK /\ alloc \in AllocationTable /\ rows \in [Ids -> Row]
  BY DEF IInv, TypeOK, AllocationTable
<1>2. /\ \A i \in Ids : SameEntry(rows'[i], rows[i])
      /\ \A q, d \in Ids : alloc'[q][d] = IF q = r THEN 0 ELSE alloc[q][d]
      /\ alloc' \in AllocationTable
  BY ReverseSound DEF IInv, AllocationTable
<1>3. \A i \in Ids : /\ Settled(alloc', i) = IF i = r THEN 0 ELSE Settled(alloc, i)
                     /\ PaidInto(alloc', i) = PaidInto(alloc, i) - alloc[r][i]
  BY <1>1, <1>2, SumsOfTakingBack
<1>4. PaidApartKept'
  <2> SUFFICES ASSUME NEW i \in Used(db.rows), ~(op = "correct" /\ i \in targets)
               PROVE  rows'[i].paid - PaidInto(alloc', i) = PaidApart(db, i)
    BY DEF PaidApartKept, PaidApart, Used
  <2>1. i \in Ids /\ rows[i].paid - PaidInto(alloc, i) = PaidApart(db, i)
    BY DEF MInv, PaidApartKept, Used
  <2>2. rows[i].paid \in Int /\ PaidInto(alloc, i) \in Nat /\ alloc[r][i] \in Nat
    BY <1>1, <2>1, SumsOverIds DEF Row, AllocationTable
  <2>3. rows'[i].paid = rows[i].paid - alloc[r][i]
    BY <1>1, <2>1, ReverseMoney
  <2>4. QED BY <1>3, <2>1, <2>2, <2>3
<1>5. WithinAmountIn(db.rows, db.alloc)'
  BY DEF MInv, WithinAmountIn
<1>6. QED BY <1>2, <1>3, <1>4, <1>5 DEF SameEntry

\* A repayment taken back has its whole amount to settle again.
LEMMA TakeBackKeepsMoney ==
  ASSUME IInv, MInv, NEW r \in Ids, TakeBack(r)
  PROVE  MInv'
<1>1. /\ r \in undo /\ Reverse(r) /\ undo' = undo \ {r}
      /\ UNCHANGED <<db, op, targets, change, todo, paying, remaining, touched>>
      /\ op # "idle" /\ rows \in [Ids -> Row] /\ remaining \in Nat
  BY DEF TakeBack, IInv, Quiet, TypeOK
<1>2. /\ PaidApartKept' /\ WithinAmountIn(db.rows, db.alloc)'
      /\ \A i \in Ids : /\ Settled(alloc', i) = IF i = r THEN 0 ELSE Settled(alloc, i)
                        /\ rows'[i].amount = rows[i].amount
                        /\ rows'[i].party = rows[i].party
  BY <1>1, ReverseKeepsMoney
<1>3. \A q, d \in Ids : alloc'[q][d] = IF q = r THEN 0 ELSE alloc[q][d]
  BY <1>1, ReverseSound DEF IInv
<1>4. WithinAmount'
  <2>1. \A i \in Ids : Settled(alloc, i) \in Nat
    BY SumsOverIds DEF IInv, TypeOK, AllocationTable
  <2>2. \A i \in Ids : InHandNow(i) \in Nat /\ (InHandNow(i))' = InHandNow(i)
    BY <1>1 DEF InHandNow
  <2>3. \A i \in Ids : rows[i].amount \in Int
    BY <1>1 DEF Row
  <2>4. \A i \in Ids : Settled(alloc, i) + InHandNow(i) <= PositivePart(rows[i].amount)
    BY DEF MInv, WithinAmount
  <2>5. \A i \in Ids : Settled(alloc', i) + InHandNow(i) <= PositivePart(rows[i].amount)
    BY <1>2, <2>1, <2>2, <2>3, <2>4
  <2>6. QED BY <1>2, <2>2, <2>5 DEF WithinAmount
<1>5. TodoIsUnplaced'
  <2>1. todo \subseteq Ids
    BY DEF IInv, TypeOK
  <2>2. QED BY <1>1, <1>3, <2>1 DEF MInv, TodoIsUnplaced
<1>6. ChangesAreNamed'
  <2>1. \A i \in Ids : rows'[i] # db'.rows[i] => (Owners(i))' \subseteq touched'
    BY <1>1, ReverseKeepsNames DEF HandsOf
  <2>2. HandsOf' \subseteq HandsOf /\ HandsOf \subseteq Ids /\ targets \subseteq Ids
    BY <1>1 DEF HandsOf, IInv, TypeOK
  <2>3. QED BY <1>1, <1>2, <2>1, <2>2 DEF MInv, ChangesAreNamed
<1>7. IdleIsCommitted'
  BY <1>1 DEF IdleIsCommitted
<1>8. QED BY <1>2, <1>4, <1>5, <1>6, <1>7 DEF MInv

\* When a repayment is taken up it has settled nothing, and all of it is in hand.
LEMMA ApplyKeepsMoney ==
  ASSUME IInv, MInv, NEW r \in Ids, Apply(r)
  PROVE  MInv'
<1>1. /\ op # "idle" /\ undo = {} /\ paying = NoRow /\ r \in todo
      /\ todo' = todo \ {r} /\ paying' = r /\ remaining' = rows[r].amount
      /\ UNCHANGED <<db, op, targets, undo, change, touched>>
      /\ rows \in [Ids -> Row] /\ alloc \in AllocationTable
  BY DEF Apply, ReadyToApply, Due, IInv, TypeOK, AllocationTable
<1>2. /\ PaidApartKept' /\ WithinAmountIn(db.rows, db.alloc)'
      /\ \A i \in Ids : /\ Settled(alloc', i) = IF i = r THEN 0 ELSE Settled(alloc, i)
                        /\ rows'[i].amount = rows[i].amount
                        /\ rows'[i].party = rows[i].party
  <2>1. CASE op = "delete"
    <3>1. Reverse(r)
      BY <2>1 DEF Apply
    <3>2. QED BY <1>1, <3>1, ReverseKeepsMoney
  <2>2. CASE op # "delete"
    <3>1. UNCHANGED <<rows, alloc>>
      BY <2>2 DEF Apply
    <3>2. \A d \in Ids : alloc[r][d] = 0
      BY <1>1, <2>2 DEF MInv, TodoIsUnplaced
    <3>3. Settled(alloc, r) = 0
      BY <1>1, <3>2, NothingPlaced
    <3>4. PaidApartKept'
      BY <1>1, <3>1 DEF MInv, PaidApartKept, PaidApart, PaidInto, Used
    <3>5. WithinAmountIn(db.rows, db.alloc)'
      BY <1>1 DEF MInv, WithinAmountIn
    <3>6. QED BY <3>1, <3>3, <3>4, <3>5
  <2>3. QED BY <2>1, <2>2
<1>3. InHand(rows, r) /\ rows[r].amount \in Nat
  BY <1>1 DEF IInv, RepaymentsInHand, InHand, Row
<1>4. WithinAmount'
  <2>1. \A i \in Ids : Settled(alloc, i) \in Nat
    BY <1>1, SumsOverIds
  <2>2. \A i \in Ids : InHandNow(i) = 0 /\ (InHandNow(i))' = IF i = r THEN rows[r].amount ELSE 0
    BY <1>1 DEF InHandNow, Ids
  <2>3. \A i \in Ids : Settled(alloc, i) + InHandNow(i) <= PositivePart(rows[i].amount)
    BY DEF MInv, WithinAmount
  <2>4. \A i \in Ids : Settled(alloc', i) + (InHandNow(i))' <= PositivePart(rows[i].amount)
    BY <1>2, <1>3, <2>1, <2>2, <2>3
  <2>5. QED BY <1>2, <2>4 DEF WithinAmount
<1>5. TodoIsUnplaced'
  <2>1. \A q, d \in Ids : op # "delete" => alloc'[q][d] = alloc[q][d]
    BY DEF Apply
  <2>2. todo \subseteq Ids
    BY DEF IInv, TypeOK
  <2>3. QED BY <1>1, <2>1, <2>2 DEF MInv, TodoIsUnplaced
<1>6. ChangesAreNamed'
  <2>1. r \in HandsOf
    BY <1>1 DEF HandsOf
  <2>2. \A i \in Ids : rows'[i] # db'.rows[i] => (Owners(i))' \subseteq touched'
    <3>1. CASE op = "delete"
      BY <1>1, <2>1, <3>1, ReverseKeepsNames DEF Apply
    <3>2. CASE op # "delete"
      BY <1>1, <3>2 DEF Apply, MInv, ChangesAreNamed, Owners, Used
    <3>3. QED BY <3>1, <3>2
  <2>3. HandsOf' \subseteq HandsOf /\ HandsOf \subseteq Ids /\ targets \subseteq Ids
    BY <1>1 DEF HandsOf, IInv, TypeOK
  <2>4. QED BY <1>1, <1>2, <2>2, <2>3 DEF MInv, ChangesAreNamed
<1>7. IdleIsCommitted'
  BY <1>1 DEF IdleIsCommitted
<1>8. QED BY <1>2, <1>4, <1>5, <1>6, <1>7 DEF MInv

\* What the settling loop places comes out of the repayment in hand, and counts as
\* paid on the debt it settles, whose owner is named.
LEMMA PayOldestKeepsMoney ==
  ASSUME IInv, MInv, PayOldest
  PROVE  MInv'
<1>1. /\ UNCHANGED <<db, op, targets, undo, change, todo, paying, touched>>
      /\ TypeOK /\ paying \in Ids /\ rows \in [Ids -> Row] /\ alloc \in AllocationTable
      /\ remaining \in Nat /\ op # "idle"
  BY DEF PayOldest, IInv, TypeOK, Quiet, AllocationTable
<1>2. PICK d \in Ids, m \in Nat : PaysOff(d, m)
  BY <1>1, PayMoney
<1> USE DEF PaysOff
<1>3. /\ \A i \in Ids : rows'[i].amount = rows[i].amount /\ rows'[i].party = rows[i].party
      /\ alloc' \in AllocationTable
  BY PaySound DEF IInv, RepaymentsInHand, SameEntry, AllocationTable
<1>4. \A i \in Ids : /\ Settled(alloc', i) = Settled(alloc, i) + (IF i = paying THEN m ELSE 0)
                     /\ PaidInto(alloc', i) = PaidInto(alloc, i) + (IF i = d THEN m ELSE 0)
                     /\ Settled(alloc, i) \in Nat /\ PaidInto(alloc, i) \in Nat
  <2> SUFFICES ASSUME NEW i \in Ids
               PROVE  /\ Settled(alloc', i) = Settled(alloc, i) + (IF i = paying THEN m ELSE 0)
                      /\ PaidInto(alloc', i) = PaidInto(alloc, i) + (IF i = d THEN m ELSE 0)
                      /\ Settled(alloc, i) \in Nat /\ PaidInto(alloc, i) \in Nat
    OBVIOUS
  <2>1. /\ Settled(alloc', i) = Settled(alloc, i) + (IF i = paying THEN m ELSE 0)
        /\ PaidInto(alloc', i) = PaidInto(alloc, i) + (IF i = d THEN m ELSE 0)
    BY ONLY <1>1, <1>2, <1>3, SumsOfPlacing, i \in Ids, d \in Ids, m \in Nat
  <2>2. QED BY <1>1, <2>1, SumsOverIds
<1>5. WithinAmount'
  <2>1. \A i \in Ids : /\ InHandNow(i) = IF i = paying THEN remaining ELSE 0
                       /\ (InHandNow(i))' = IF i = paying THEN remaining - m ELSE 0
    BY <1>1, <1>2 DEF InHandNow
  <2>2. \A i \in Ids : Settled(alloc, i) + InHandNow(i) <= PositivePart(rows[i].amount)
    BY DEF MInv, WithinAmount
  <2>3. \A i \in Ids : Settled(alloc', i) + (InHandNow(i))' = Settled(alloc, i) + InHandNow(i)
    BY <1>1, <1>4, <2>1
  <2>4. QED BY <1>3, <2>2, <2>3 DEF WithinAmount
<1>6. PaidApartKept'
  <2> SUFFICES ASSUME NEW i \in Used(db.rows), ~(op = "correct" /\ i \in targets)
               PROVE  rows'[i].paid - PaidInto(alloc', i) = PaidApart(db, i)
    BY <1>1 DEF PaidApartKept, PaidApart, Used
  <2>1. i \in Ids /\ rows[i].paid - PaidInto(alloc, i) = PaidApart(db, i)
    BY DEF MInv, PaidApartKept, Used
  <2>2. rows[i].paid \in Int
    BY <1>1, <2>1 DEF Row
  <2>3. QED BY <1>2, <1>4, <2>1, <2>2
<1>7. WithinAmountIn(db.rows, db.alloc)'
  BY <1>1 DEF MInv, WithinAmountIn
<1>8. TodoIsUnplaced'
  BY <1>1, <1>2 DEF MInv, TodoIsUnplaced, TypeOK, Places
<1>9. ChangesAreNamed'
  <2>1. NamedParty(rows[paying].party) \subseteq touched
    BY <1>1 DEF MInv, ChangesAreNamed, HandsOf, Ids
  <2>2. ASSUME NEW i \in Ids, rows'[i] # db.rows[i]
        PROVE  (Owners(i))' \subseteq touched
    <3>1. (Owners(i))' = Owners(i)
      BY <1>1, <1>3 DEF Owners, Used
    <3>2. CASE rows[i] # db.rows[i]
      BY <3>1, <3>2 DEF MInv, ChangesAreNamed
    <3>3. CASE rows[i] = db.rows[i]
      BY <1>2, <2>1, <2>2, <3>1, <3>3 DEF Owners, OpenDebts, Settles
    <3>4. QED BY <3>2, <3>3
  <2>3. HandsOf' = HandsOf /\ HandsOf \subseteq Ids /\ targets \subseteq Ids
    BY <1>1 DEF HandsOf, TypeOK
  <2>4. QED BY <1>1, <1>3, <2>2, <2>3 DEF MInv, ChangesAreNamed
<1>10. IdleIsCommitted'
  BY <1>1 DEF IdleIsCommitted
<1>11. QED BY <1>5, <1>6, <1>7, <1>8, <1>9, <1>10 DEF MInv

\* The end of the settling loop leaves what could not be placed unallocated.
LEMMA PaidKeepsMoney ==
  ASSUME IInv, MInv, Paid
  PROVE  MInv'
<1>1. /\ UNCHANGED <<rows, alloc, db, op, targets, undo, change, todo, touched>>
      /\ paying' = NoRow /\ op # "idle" /\ alloc \in AllocationTable /\ todo \subseteq Ids
      /\ remaining \in Nat
  BY DEF Paid, IInv, Quiet, TypeOK, AllocationTable
<1>2. WithinAmount'
  <2>1. \A i \in Ids : Settled(alloc, i) \in Nat /\ InHandNow(i) \in Nat /\ (InHandNow(i))' = 0
    <3>1. \A i \in Ids : InHandNow(i) \in Nat /\ (InHandNow(i))' = 0
      BY <1>1 DEF InHandNow, Ids
    <3>2. \A i \in Ids : Settled(alloc, i) \in Nat
      BY <1>1, SumsOverIds
    <3>3. QED BY <3>1, <3>2
  <2>2. \A i \in Ids : Settled(alloc, i) + InHandNow(i) <= PositivePart(rows[i].amount)
    BY DEF MInv, WithinAmount
  <2>3. \A i \in Ids : rows[i].amount \in Int
    BY DEF IInv, TypeOK, Row
  <2>4. \A i \in Ids : Settled(alloc, i) + 0 <= PositivePart(rows[i].amount)
    BY <2>1, <2>2, <2>3
  <2>5. QED BY <1>1, <2>1, <2>4 DEF WithinAmount
<1>3. TodoIsUnplaced' /\ IdleIsCommitted'
  BY <1>1 DEF MInv, TodoIsUnplaced, IdleIsCommitted, Ids
<1>4. WithinAmountIn(db.rows, db.alloc)' /\ PaidApartKept'
  BY <1>1 DEF MInv, WithinAmountIn, PaidApartKept, PaidApart, PaidInto, Used
<1>5. ChangesAreNamed'
  <2>1. HandsOf' \subseteq HandsOf
    BY <1>1 DEF HandsOf
  <2>2. \A i \in Ids : (Owners(i))' = Owners(i)
    BY <1>1 DEF Owners, Used
  <2>3. QED BY <1>1, <2>1, <2>2 DEF MInv, ChangesAreNamed
<1>6. QED BY <1>2, <1>3, <1>4, <1>5 DEF MInv

\* The corrected entry has nothing placed when its amount is written, and both of
\* its owners are named.
LEMMA EditKeepsMoney ==
  ASSUME IInv, MInv, Edit
  PROVE  MInv'
<1>1. /\ op = "correct" /\ undo = {}
      /\ UNCHANGED <<alloc, db, op, targets, undo, paying, remaining>>
      /\ rows \in [Ids -> Row] /\ alloc \in AllocationTable
      /\ change \subseteq Corrections /\ targets \subseteq Ids /\ todo \subseteq Ids
  BY DEF Edit, IInv, TypeOK, AllocationTable
<1>2. PICK c \in change, i \in targets :
        LET row == Corrected(rows[i], c)
        IN  /\ rows' = [rows EXCEPT ![i] = row]
            /\ todo' = IF IsRepayment(row) /\ IsComplete(row) THEN {i} ELSE todo
            /\ touched' = touched \cup NamedParty(row.party)
  BY DEF Edit
<1> DEFINE new == Corrected(rows[i], c)
<1>3. /\ i \in Ids /\ c \in Corrections /\ rows[i] \in Row /\ paying = NoRow
      /\ \A j \in Ids : alloc[i][j] = 0
  BY <1>1, <1>2 DEF IInv, CorrectionClear, AllocationTable
<1>4. new \in Row
  BY <1>3, CorrectedRow
<1>5. /\ rows' = [rows EXCEPT ![i] = new]
      /\ todo' = IF IsRepayment(new) /\ IsComplete(new) THEN {i} ELSE todo
      /\ touched' = touched \cup NamedParty(new.party)
  BY <1>2
<1> HIDE DEF new
<1>6. rows'[i] = new /\ \A j \in Ids : j # i => rows'[j] = rows[j]
  BY <1>1, <1>3, <1>5
<1>7. WithinAmount'
  <2>1. \A j \in Ids : InHandNow(j) = 0 /\ (InHandNow(j))' = 0
    BY <1>1, <1>3 DEF InHandNow, Ids
  <2>2. \A j \in Ids : Settled(alloc, j) + 0 <= PositivePart(rows[j].amount)
    BY <2>1 DEF MInv, WithinAmount
  <2>3. Settled(alloc, i) = 0
    BY <1>1, <1>3, NothingPlaced
  <2>4. Settled(alloc, i) + 0 <= PositivePart(new.amount)
    BY <1>4, <2>3 DEF Row
  <2>5. QED BY <1>1, <1>6, <2>1, <2>2, <2>4 DEF WithinAmount
<1>8. WithinAmountIn(db.rows, db.alloc)' /\ IdleIsCommitted'
  BY <1>1 DEF MInv, WithinAmountIn, IdleIsCommitted
<1>9. TodoIsUnplaced'
  BY <1>1, <1>3, <1>5 DEF MInv, TodoIsUnplaced, Ids
<1>10. PaidApartKept'
  <2> SUFFICES ASSUME NEW j \in Used(db.rows), ~(op = "correct" /\ j \in targets)
               PROVE  rows'[j].paid - PaidInto(alloc, j) = PaidApart(db, j)
    BY <1>1 DEF PaidApartKept, PaidApart, PaidInto, Used
  <2>1. j \in Ids /\ rows'[j] = rows[j]
    BY <1>1, <1>2, <1>6 DEF Used
  <2>2. QED BY <2>1 DEF MInv, PaidApartKept
<1>11. ChangesAreNamed'
  <2>1. NamedParty(rows[i].party) \subseteq touched /\ touched \subseteq touched'
    BY <1>1, <1>2, <1>5 DEF MInv, ChangesAreNamed
  <2>2. i \in Used(db.rows) => NamedParty(db.rows[i].party) \subseteq touched
    BY <1>3, <2>1 DEF MInv, ChangesAreNamed, Owners
  <2>3. (Owners(i))' \subseteq touched'
    BY <1>1, <1>5, <1>6, <2>1, <2>2 DEF Owners, Used
  <2>4. \A j \in Ids : j # i => (Owners(j))' = Owners(j)
    BY <1>1, <1>6 DEF Owners, Used
  <2>5. \A r \in HandsOf' : r = i \/ r \in HandsOf
    BY <1>1, <1>5 DEF HandsOf
  <2>6. HandsOf \subseteq Ids
    BY <1>1, <1>3 DEF HandsOf
  <2>7. NamedParty(rows'[i].party) \subseteq touched'
    BY <1>5, <1>6
  <2>8. QED BY <1>1, <1>6, <2>1, <2>3, <2>4, <2>5, <2>6, <2>7 DEF MInv, ChangesAreNamed
<1>12. QED BY <1>7, <1>8, <1>9, <1>10, <1>11 DEF MInv

\* A ledger at rest that is the committed one satisfies the invariant.
LEMMA RestKeepsMoney ==
  ASSUME TypeOK', Closed, rows' = db'.rows, alloc' = db'.alloc, WithinAmountIn(rows', alloc')
  PROVE  MInv'
<1>1. /\ op' = "idle" /\ paying' = NoRow /\ todo' = {} /\ undo' = {}
  BY DEF Closed
<1>2. WithinAmount'
  <2>1. \A i \in Ids : (InHandNow(i))' = 0
    BY <1>1 DEF InHandNow, Ids
  <2>2. \A i \in Ids : Settled(alloc', i) \in Nat
    BY SumsOverIds DEF TypeOK, AllocationTable
  <2>3. QED BY <2>1, <2>2 DEF WithinAmount, WithinAmountIn
<1>3. PaidApartKept' /\ WithinAmountIn(db.rows, db.alloc)'
  BY DEF PaidApartKept, PaidApart, PaidInto, WithinAmountIn, Used
<1>4. QED
  BY <1>1, <1>2, <1>3
  DEF MInv, TodoIsUnplaced, IdleIsCommitted, ChangesAreNamed, HandsOf, Ids

\* What is committed is within every repayment's amount.
LEMMA CommitKeepsMoney ==
  ASSUME IInv, MInv, Commit
  PROVE  MInv'
<1>1. /\ Closed /\ UNCHANGED <<rows, alloc>> /\ db'.rows = rows /\ db'.alloc = alloc
      /\ paying = NoRow
  BY DEF Commit, ReadyToApply
<1>2. WithinAmountIn(rows, alloc)
  <2>1. alloc \in AllocationTable
    BY DEF IInv, TypeOK, AllocationTable
  <2>2. \A i \in Ids : InHandNow(i) = 0
    BY <1>1 DEF InHandNow, Ids
  <2>3. \A i \in Ids : Settled(alloc, i) \in Nat
    BY <2>1, SumsOverIds
  <2>4. QED BY <2>2, <2>3 DEF MInv, WithinAmount, WithinAmountIn
<1>3. TypeOK'
  BY CommitKeepsInv DEF IInv
<1>4. WithinAmountIn(rows', alloc')
  BY <1>1, <1>2 DEF WithinAmountIn
<1>5. QED BY <1>1, <1>3, <1>4, RestKeepsMoney

\* A rollback gives back the committed ledger.
LEMMA RollbackKeepsMoney ==
  ASSUME IInv, MInv, Rollback
  PROVE  MInv'
<1>1. Closed /\ UNCHANGED db /\ rows' = db.rows /\ alloc' = db.alloc
  BY DEF Rollback
<1>2. TypeOK'
  BY RollbackKeepsInv DEF IInv
<1>3. WithinAmountIn(rows', alloc')
  BY <1>1 DEF MInv, WithinAmountIn
<1>4. QED BY <1>1, <1>2, <1>3, RestKeepsMoney

\* Every step of every operation keeps the money accounted for.
LEMMA StepKeepsMoney == IInv /\ MInv /\ [Next]_vars => MInv'
<1> SUFFICES ASSUME IInv, MInv, [Next]_vars PROVE MInv'
  OBVIOUS
<1>1. CASE RecordMessage
  BY <1>1, RecordKeepsMoney
<1>2. CASE DeleteOne
  BY <1>2, DeleteKeepsMoney DEF DeleteOne
<1>3. CASE DeleteLastMessage
  <2>1. LatestBatch(rows) \in SUBSET Ids
    BY DEF LatestBatch
  <2>2. QED BY <1>3, <2>1, DeleteKeepsMoney DEF DeleteLastMessage
<1>4. CASE CorrectOne
  BY <1>4, CorrectKeepsMoney DEF CorrectOne
<1>5. CASE PayOldest
  BY <1>5, PayOldestKeepsMoney
<1>6. CASE Paid
  BY <1>6, PaidKeepsMoney
<1>7. CASE Edit
  BY <1>7, EditKeepsMoney
<1>8. CASE Commit
  BY <1>8, CommitKeepsMoney
<1>9. CASE \E r \in Ids : TakeBack(r)
  BY <1>9, TakeBackKeepsMoney
<1>10. CASE \E r \in Ids : Apply(r)
  BY <1>10, ApplyKeepsMoney
<1>11. CASE Rollback
  BY <1>11, RollbackKeepsMoney
<1>12. CASE UNCHANGED vars
  <2>1. UNCHANGED <<rows, alloc, db, op, targets, undo, change, todo, paying, remaining, touched>>
    BY <1>12 DEF vars
  <2>2. (\A i \in Ids : (InHandNow(i))' = InHandNow(i) /\ (Owners(i))' = Owners(i)) /\ HandsOf' = HandsOf
    BY <2>1 DEF InHandNow, Owners, HandsOf, Used
  <2>3. WithinAmount' /\ WithinAmountIn(db.rows, db.alloc)' /\ TodoIsUnplaced' /\ IdleIsCommitted'
    BY <2>1, <2>2 DEF MInv, WithinAmount, WithinAmountIn, TodoIsUnplaced, IdleIsCommitted
  <2>4. PaidApartKept' /\ ChangesAreNamed'
    BY <2>1, <2>2 DEF MInv, PaidApartKept, PaidApart, PaidInto, ChangesAreNamed, Used
  <2>5. QED BY <2>3, <2>4 DEF MInv
<1>13. QED
  BY <1>1, <1>2, <1>3, <1>4, <1>5, <1>6, <1>7, <1>8, <1>9, <1>10, <1>11, <1>12
  DEF Next, Work

-----------------------------------------------------------------------------
(* What holds of every book. *)

\* Both invariants together are inductive.
LEMMA MoneyInvariant == Spec => [](IInv /\ MInv)
<1>1. Init => IInv /\ MInv
  BY InitSound, InitMoney
<1>2. (IInv /\ MInv) /\ [Next]_vars => (IInv /\ MInv)'
  BY StepKeepsInv, StepKeepsMoney
<1>3. QED BY <1>1, <1>2, PTL DEF Spec

\* No repayment settles more than its own amount, however often deletions and
\* corrections have taken it back and applied it again.
THEOREM MoneyConserved == Spec => []NoMoneyInvented
<1>1. IInv /\ MInv => NoMoneyInvented
  BY AtRest DEF NoMoneyInvented, Settled
<1>2. QED BY <1>1, MoneyInvariant, PTL

\* The only step that changes the committed ledger is a commit: a rollback leaves
\* it alone, and nothing else ends an operation.
LEMMA CommittingIsCommit ==
  ASSUME [Next]_vars, Committing
  PROVE  Commit
<1>1. CASE RecordMessage
  BY <1>1 DEF RecordMessage, Record, Committing
<1>2. CASE DeleteOne \/ DeleteLastMessage \/ CorrectOne
  BY <1>2 DEF DeleteOne, DeleteLastMessage, Delete, CorrectOne, Correct, Committing
<1>3. CASE PayOldest \/ Paid \/ Edit \/ \E r \in Ids : TakeBack(r) \/ Apply(r)
  BY <1>3 DEF PayOldest, Paid, Edit, TakeBack, Apply, Committing
<1>4. CASE Rollback \/ UNCHANGED vars
  BY <1>4 DEF Rollback, Committing, vars
<1>5. QED BY <1>1, <1>2, <1>3, <1>4 DEF Next, Work

\* What was paid on an entry apart from repayments survives every operation but a
\* correction of that very entry.
THEOREM StatedPaymentsSurvive == Spec => StatedPaymentsKept
<1> DEFINE A == Committing => \A i \in Used(db.rows) :
                  ~(op = "correct" /\ i \in targets) /\ IsComplete(db.rows[i]) =>
                    PaidApart(db', i) = PaidApart(db, i)
<1>1. IInv /\ MInv /\ [Next]_vars => A
  <2> SUFFICES ASSUME MInv, [Next]_vars, Committing, NEW i \in Used(db.rows),
                      ~(op = "correct" /\ i \in targets)
               PROVE  PaidApart(db', i) = PaidApart(db, i)
    OBVIOUS
  <2>1. db'.rows = rows /\ db'.alloc = alloc
    BY CommittingIsCommit DEF Commit
  <2>2. PaidApart(db', i) = rows[i].paid - PaidInto(alloc, i)
    BY <2>1 DEF PaidApart, PaidInto
  <2>3. QED BY <2>2 DEF MInv, PaidApartKept
<1>2. QED BY <1>1, MoneyInvariant, PTL DEF Spec, StatedPaymentsKept

\* The committed event names every party one of whose entries changed.
THEOREM EventsNameEveryChange == Spec => EventNamesEveryChange
<1> DEFINE A == Committing => \A i \in Ids : db'.rows[i] # db.rows[i] =>
                  NamedParty(db'.rows[i].party) \cup
                    (IF i \in Used(db.rows) THEN NamedParty(db.rows[i].party) ELSE {})
                  \subseteq touched
<1>1. IInv /\ MInv /\ [Next]_vars => A
  <2> SUFFICES ASSUME MInv, [Next]_vars, Committing, NEW i \in Ids, db'.rows[i] # db.rows[i]
               PROVE  NamedParty(db'.rows[i].party) \cup
                        (IF i \in Used(db.rows) THEN NamedParty(db.rows[i].party) ELSE {})
                      \subseteq touched
    OBVIOUS
  <2>1. db'.rows = rows
    BY CommittingIsCommit DEF Commit
  <2>2. QED BY <2>1 DEF MInv, ChangesAreNamed, Owners
<1>2. QED BY <1>1, MoneyInvariant, PTL DEF Spec, EventNamesEveryChange

-----------------------------------------------------------------------------
(***************************************************************************)
(* The order money is placed in.  A repayment an operation has placed, and *)
(* taken nothing back of since, is greedy: as long as some of it is left,  *)
(* or settles a debt outside a set W of the earliest entries, the open     *)
(* debts of its party in W are no more than what is in hand for that       *)
(* party.  A deletion that moves two repayments of one person opens debts  *)
(* after the first was placed, and this is why the second one closes them. *)
(***************************************************************************)
PlacedNow ==
  {r \in Ids : InHand(rows, r) /\ (r \notin Used(db.rows) \/ alloc[r] # db.alloc[r])}

Preparing == undo # {} \/ change # {}
Done == IF Preparing THEN {} ELSE PlacedNow \ (todo \cup {paying})

\* Sets of entries that hold, with an entry, every earlier one.
Early(t) == {W \in SUBSET Ids : \A d \in W, e \in Ids : t[e].date <= t[d].date => e \in W}

\* Repayments of one person in one direction settle the same debts.
Kin(r, s) == rows[r].party = rows[s].party /\ rows[r].direction = rows[s].direction

HandFor(r) == IF paying # NoRow /\ Kin(r, paying) THEN remaining ELSE 0

\* What the party of repayment r owes among the entries W.
OpenIn(t, r, W) == [d \in Ids |-> IF d \in OpenDebts(t, r) \cap W THEN t[d].out ELSE 0]
Owing(t, r, W) == SumFunctionOnSet(OpenIn(t, r, W), Ids)

MoneyOutside(r, W) == \E e \in Ids \ W : alloc[r][e] > 0

PlacedGreedily ==
  \A r \in Done : \A W \in Early(rows) :
    Settled(alloc, r) < rows[r].amount \/ MoneyOutside(r, W) => Owing(rows, r, W) <= HandFor(r)

PayingGreedily ==
  paying # NoRow =>
    /\ Settled(alloc, paying) + remaining = rows[paying].amount
    /\ \A W \in Early(rows) : MoneyOutside(paying, W) => Owing(rows, paying, W) = 0

\* Before anything is placed, what was taken back is what will be placed, unless it is being
\* deleted or is the entry under correction.
Preparation ==
  Preparing =>
    /\ paying = NoRow /\ undo \cup PlacedNow \subseteq todo \cup targets
    /\ op \in {"delete", "correct"}
    /\ op = "delete" => \A i \in targets : ~Live(rows, i)
    /\ op = "correct" =>
         change # {} /\ \E i \in Ids : targets = {i} /\ (IsRepayment(rows[i]) => todo = {})

GInv == Preparation /\ PlacedGreedily /\ PayingGreedily

\* What is owed is at least what any of the debts counted has outstanding.
LEMMA OwingIsNat ==
  ASSUME NEW t \in [Ids -> Row], NEW r \in Ids, NEW W
  PROVE  /\ \A d \in Ids : OpenIn(t, r, W)[d] \in Nat
         /\ Owing(t, r, W) \in Nat
         /\ \A d \in OpenDebts(t, r) \cap W : t[d].out <= Owing(t, r, W)
         /\ OpenDebts(t, r) \cap W = {} => Owing(t, r, W) = 0
<1>1. /\ \A d \in Ids : OpenIn(t, r, W)[d] \in Nat
      /\ \A d \in OpenDebts(t, r) \cap W : d \in Ids /\ OpenIn(t, r, W)[d] = t[d].out
  BY DEF OpenIn, OpenDebts, Row
<1>2. Owing(t, r, W) \in Nat /\ \A d \in Ids : OpenIn(t, r, W)[d] <= Owing(t, r, W)
  BY <1>1, IdsFinite, SumIsNat DEF Owing
<1>3. ASSUME OpenDebts(t, r) \cap W = {} PROVE Owing(t, r, W) = 0
  <2>1. \A d \in Ids : OpenIn(t, r, W)[d] = 0
    BY <1>3 DEF OpenIn
  <2>2. QED BY <2>1, IdsFinite, SumOfZeros DEF Owing
<1>4. QED BY <1>1, <1>2, <1>3

\* A debt one repayment may settle is one another may settle just when they are kin.
LEMMA KinSettle ==
  ASSUME TypeOK, NEW r \in Ids, NEW s \in Ids, InHand(rows, r), InHand(rows, s)
  PROVE  /\ \A d \in Ids : Settles(rows[s], rows[d]) => (Settles(rows[r], rows[d]) <=> Kin(r, s))
         /\ Kin(r, s) => OpenDebts(rows, r) = OpenDebts(rows, s)
<1>1. rows[r] \in Row /\ rows[s] \in Row
  BY DEF TypeOK
<1>2. \A d \in Ids : Settles(rows[s], rows[d]) => (Settles(rows[r], rows[d]) <=> Kin(r, s))
  BY <1>1 DEF InHand, Settles, SettleableByDirection, Kin, Row, Directions
<1>3. Kin(r, s) => OpenDebts(rows, r) = OpenDebts(rows, s)
  BY DEF OpenDebts, Settles, Kin, InHand
<1>4. QED BY <1>2, <1>3

\* When the loop pays the oldest open debt, kin repayments' debts go down by as much.
LEMMA OwingPaid ==
  ASSUME IInv, PayOldest, NEW d \in Ids, NEW m \in Nat, PaysOff(d, m),
         NEW r \in Ids, InHand(rows, r), NEW W
  PROVE  Owing(rows', r, W) = Owing(rows, r, W) - (IF Kin(r, paying) /\ d \in W THEN m ELSE 0)
<1>1. /\ TypeOK /\ rows \in [Ids -> Row] /\ rows' \in [Ids -> Row]
      /\ paying \in Ids /\ InHand(rows, paying)
      /\ \A i \in Ids : SameEntry(rows'[i], rows[i])
  BY PaySound DEF IInv, TypeOK, PayOldest, RepaymentsInHand
<1>2. /\ d \in OpenDebts(rows, paying) /\ rows'[d].out = rows[d].out - m
      /\ \A i \in Ids : i # d => rows'[i] = rows[i]
  BY DEF PaysOff
<1>3. /\ Live(rows, d) /\ IsComplete(rows[d]) /\ rows[d].out > 0 /\ rows[d].out \in Int
      /\ rows'[d].out \in Int /\ rows'[d].out >= 0 /\ Settles(rows[paying], rows[d])
      /\ ~IsRepayment(rows[d])
  <2>1. /\ Live(rows, d) /\ IsComplete(rows[d]) /\ rows[d].out > 0 /\ rows[d].out \in Int
        /\ Settles(rows[paying], rows[d]) /\ ~IsRepayment(rows[d])
    BY <1>1, <1>2, SettledAreDebts DEF OpenDebts, Row
  <2>2. /\ SoundIn(rows', alloc') /\ rows'[d] \in Row
        /\ d \in Used(rows') /\ IsComplete(rows'[d]) /\ ~IsRepayment(rows'[d])
    BY <1>1, <2>1, PaySound DEF SameEntry, Used, IInv, RepaymentsInHand
  <2>3. rows'[d].out = PositivePart(rows'[d].amount - rows'[d].paid)
    BY <2>2 DEF SoundIn, BalancedIn
  <2>4. QED BY <2>1, <2>2, <2>3 DEF Row
<1>4. Settles(rows[r], rows[d]) <=> Kin(r, paying)
  BY <1>1, <1>3, KinSettle
<1> DEFINE f == OpenIn(rows, r, W)
           g == OpenIn(rows', r, W)
<1>5. \A i \in Ids : i # d => f[i] = g[i]
  BY <1>1, <1>2 DEF OpenIn, OpenDebts, Settles, SameEntry
<1>6. g[d] = f[d] - (IF Kin(r, paying) /\ d \in W THEN m ELSE 0)
  <2>1. d \in OpenDebts(rows, r) <=> Kin(r, paying)
    BY <1>3, <1>4 DEF OpenDebts
  <2>2. f[d] = IF Kin(r, paying) /\ d \in W THEN rows[d].out ELSE 0
    BY <2>1 DEF OpenIn
  <2>3. Settles(rows'[r], rows'[d]) <=> Kin(r, paying)
    BY <1>1, <1>4 DEF Settles, SameEntry
  <2>4. d \in OpenDebts(rows', r) <=> Kin(r, paying) /\ rows'[d].out > 0
    BY <1>1, <1>3, <2>3 DEF OpenDebts, SameEntry
  <2>5. g[d] = IF Kin(r, paying) /\ d \in W /\ rows'[d].out > 0 THEN rows'[d].out ELSE 0
    BY <2>4 DEF OpenIn
  <2>6. QED BY <1>2, <1>3, <2>2, <2>5
<1>7. \A i \in Ids : f[i] \in Nat /\ g[i] \in Nat
  BY <1>1, OwingIsNat
<1>8. Owing(rows, r, W) = SumFunctionOnSet(f, Ids) /\ Owing(rows', r, W) = SumFunctionOnSet(g, Ids)
  BY DEF Owing
<1> HIDE DEF f, g
<1>9. SumFunctionOnSet(g, Ids) = SumFunctionOnSet(f, Ids) - f[d] + g[d]
  <2>1. /\ \A i \in Ids : f[i] \in Int /\ (i # d => f[i] = g[i])
        /\ g[d] \in Int
    BY <1>5, <1>7
  <2>2. QED BY <2>1, IdsFinite, SumChanges
<1>10. SumFunctionOnSet(f, Ids) \in Nat
  BY <1>7, IdsFinite, SumIsNat
<1>11. QED BY <1>6, <1>7, <1>8, <1>9, <1>10

\* Taking a repayment back opens debts of its kin by at most what it had settled.
LEMMA OwingReversed ==
  ASSUME IInv, NEW s \in Ids, InHand(rows, s), Reverse(s), NEW r \in Ids, InHand(rows, r), NEW W
  PROVE  Owing(rows', r, W) <= Owing(rows, r, W) + (IF Kin(r, s) THEN Settled(alloc, s) ELSE 0)
<1>1. /\ TypeOK /\ rows \in [Ids -> Row] /\ rows' \in [Ids -> Row] /\ alloc \in AllocationTable
      /\ \A i \in Ids : SameEntry(rows'[i], rows[i])
  BY ReverseSound DEF IInv, TypeOK, AllocationTable
<1>2. \A i \in Ids : /\ alloc[s][i] = 0 => rows'[i] = rows[i]
                     /\ alloc[s][i] # 0 => rows'[i].out = rows[i].out + alloc[s][i]
                     /\ alloc[s][i] \in Nat
  BY <1>1, ReverseMoney DEF AllocationTable
<1> DEFINE f == OpenIn(rows, r, W)
           g == OpenIn(rows', r, W)
<1>3. \A i \in Ids : f[i] \in Nat /\ g[i] \in Nat
  BY <1>1, OwingIsNat
<1>4. \A i \in Ids : alloc[s][i] = 0 => f[i] = g[i]
  BY <1>1, <1>2 DEF OpenIn, OpenDebts, Settles, SameEntry
<1>5. ASSUME NEW i \in Ids, alloc[s][i] # 0
      PROVE  g[i] <= f[i] + (IF Kin(r, s) THEN alloc[s][i] ELSE 0)
  <2>1. alloc[s][i] > 0
    BY <1>2, <1>5
  <2>2. Settles(rows[s], rows[i]) /\ IsComplete(rows[i]) /\ i \in Used(rows)
    BY <2>1 DEF IInv, SoundIn, MatchingIn, FoundedIn
  <2>3. ~IsRepayment(rows[i]) /\ rows[i] \in Row
    BY <1>1, <2>2, SettledAreDebts
  <2>4. rows[i].out \in Nat
    BY <2>2, <2>3 DEF IInv, SoundIn, BalancedIn, Row
  <2>5. Settles(rows[r], rows[i]) <=> Kin(r, s)
    BY <1>1, <2>2, KinSettle
  <2>6. f[i] = IF Kin(r, s) /\ Live(rows, i) /\ i \in W THEN rows[i].out ELSE 0
    BY <2>2, <2>4, <2>5 DEF OpenIn, OpenDebts
  <2>7. Live(rows', i) = Live(rows, i) /\ (Settles(rows'[r], rows'[i]) <=> Kin(r, s))
    BY <1>1, <2>5 DEF SameEntry, Settles
  <2>8. g[i] = IF i \in OpenDebts(rows', r) \cap W THEN rows'[i].out ELSE 0
    BY DEF OpenIn
  <2>9. i \in OpenDebts(rows', r) \cap W => Kin(r, s) /\ Live(rows, i) /\ i \in W
    BY <2>7 DEF OpenDebts
  <2>10. QED BY <1>2, <1>3, <1>5, <2>4, <2>6, <2>8, <2>9
<1>6. Owing(rows, r, W) = SumFunctionOnSet(f, Ids) /\ Owing(rows', r, W) = SumFunctionOnSet(g, Ids)
  BY DEF Owing
<1>7. SumFunctionOnSet(f, Ids) \in Nat
  <2> HIDE DEF f
  <2>1. QED BY <1>3, IdsFinite, SumIsNat
<1> HIDE DEF f, g
<1>8. CASE Kin(r, s)
  <2> DEFINE h == [i \in Ids |-> f[i] + alloc[s][i]]
  <2>1. /\ \A i \in Ids : g[i] \in Int /\ h[i] \in Int /\ g[i] <= h[i]
        /\ \A i \in Ids : f[i] \in Int /\ alloc[s][i] \in Int /\ h[i] = f[i] + alloc[s][i]
    BY <1>2, <1>3, <1>4, <1>5, <1>8
  <2> HIDE DEF h
  <2>2. SumFunctionOnSet(g, Ids) <= SumFunctionOnSet(h, Ids)
    BY <2>1, IdsFinite, SumIsMonotonic
  <2>3. SumFunctionOnSet(h, Ids) = SumFunctionOnSet(f, Ids) + SumFunctionOnSet(alloc[s], Ids)
    BY <2>1, IdsFinite, SumOfAdded
  <2>4. SumFunctionOnSet(alloc[s], Ids) = Settled(alloc, s)
    BY <1>1, SumsOverIds
  <2>5. QED BY <1>6, <1>8, <2>2, <2>3, <2>4
<1>9. CASE ~Kin(r, s)
  <2>1. \A i \in Ids : g[i] \in Int /\ f[i] \in Int /\ g[i] <= f[i]
    BY <1>3, <1>4, <1>5, <1>9
  <2>2. SumFunctionOnSet(g, Ids) <= SumFunctionOnSet(f, Ids)
    BY <2>1, IdsFinite, SumIsMonotonic
  <2>3. QED BY <1>6, <1>7, <1>9, <2>2
<1>10. QED BY <1>8, <1>9

\* At rest nothing has been placed.
LEMMA NothingPlacedAtRest ==
  ASSUME rows = db.rows, alloc = db.alloc
  PROVE  PlacedNow = {}
  BY DEF PlacedNow, InHand, Used

\* A message's repayments are all still to be placed.
LEMMA RecordKeepsOrder ==
  ASSUME IInv, MInv, RecordMessage
  PROVE  GInv'
<1>1. /\ op = "idle" /\ op' = "record"
      /\ UNCHANGED <<alloc, db, undo, change, paying, remaining>>
      /\ undo = {} /\ change = {} /\ paying = NoRow /\ rows = db.rows /\ alloc = db.alloc
  BY RecordWrites, AtRest
<1>2. PICK new \in SUBSET Ids : NewRowsIn(new) /\ RepaymentsAmong(new)
  BY RecordWrites
<1>3. PlacedNow' \subseteq todo'
  BY <1>1, <1>2 DEF PlacedNow, InHand, Used, NewRowsIn, RepaymentsAmong
<1>4. ~Preparing'
  BY <1>1 DEF Preparing
<1>5. PlacedGreedily' /\ PayingGreedily'
  BY <1>1, <1>3 DEF Done, PlacedGreedily, PayingGreedily
<1>6. QED BY <1>4, <1>5 DEF GInv, Preparation

\* What a deletion takes back of other entries' debts it has still to place.
LEMMA DeleteKeepsOrder ==
  ASSUME IInv, MInv, NEW S \in SUBSET Ids, Delete(S)
  PROVE  GInv'
<1>1. /\ op = "idle" /\ op' = "delete" /\ targets' = S
      /\ UNCHANGED <<alloc, db, change, paying, remaining>>
      /\ undo' = {i \in S : IsRepayment(rows[i])}
  BY DEF Delete
<1>2. paying = NoRow /\ change = {} /\ rows = db.rows /\ alloc = db.alloc /\ rows \in [Ids -> Row]
  BY <1>1, AtRest DEF IInv, TypeOK
<1>3. \A i \in Ids : /\ i \notin S => rows'[i] = rows[i]
                     /\ i \in S => rows'[i].state = "deleted"
  BY <1>2, DeleteWrites
<1>4. PlacedNow' = {}
  BY <1>1, <1>2, <1>3 DEF PlacedNow, InHand, Used
<1>5. PlacedGreedily' /\ PayingGreedily'
  BY <1>1, <1>2, <1>4 DEF Done, PlacedGreedily, PayingGreedily
<1>6. Preparation'
  BY <1>1, <1>2, <1>3, <1>4 DEF Preparation
<1>7. QED BY <1>5, <1>6 DEF GInv

\* What a correction takes back of its entry it has still to place.
LEMMA CorrectKeepsOrder ==
  ASSUME IInv, MInv, op = "idle", NEW i \in Ids, NEW c \in Corrections, Correct(i, c)
  PROVE  GInv'
<1>1. /\ op' = "correct" /\ targets' = {i} /\ change' = {c}
      /\ UNCHANGED <<rows, alloc, db, paying, remaining>>
      /\ undo' = IF IsRepayment(rows[i]) THEN {i} ELSE AppliedTo(i)
      /\ todo' = IF IsRepayment(rows[i]) THEN {} ELSE AppliedTo(i)
  BY DEF Correct
<1>2. paying = NoRow /\ rows = db.rows /\ alloc = db.alloc
  BY AtRest
<1>3. PlacedNow' = {}
  BY <1>1, <1>2 DEF PlacedNow, InHand, Used
<1>4. PlacedGreedily' /\ PayingGreedily'
  BY <1>1, <1>2, <1>3 DEF Done, PlacedGreedily, PayingGreedily
<1>5. Preparation'
  BY <1>1, <1>2, <1>3 DEF Preparation
<1>6. QED BY <1>4, <1>5 DEF GInv

\* A repayment taken back is still to be placed, unless it is itself being deleted
\* or corrected.
LEMMA TakeBackKeepsOrder ==
  ASSUME IInv, GInv, NEW r \in Ids, TakeBack(r)
  PROVE  GInv'
<1>1. /\ r \in undo /\ undo' = undo \ {r} /\ Reverse(r)
      /\ UNCHANGED <<db, op, targets, change, todo, paying, remaining>>
      /\ targets \subseteq Ids
  BY DEF TakeBack, IInv, TypeOK
<1>2. /\ paying = NoRow /\ undo \cup PlacedNow \subseteq todo \cup targets
      /\ op \in {"delete", "correct"}
      /\ op = "delete" => \A i \in targets : ~Live(rows, i)
      /\ op = "correct" =>
           change # {} /\ \E i \in Ids : targets = {i} /\ (IsRepayment(rows[i]) => todo = {})
  BY <1>1 DEF GInv, Preparation, Preparing
<1>3. \A i \in Ids : SameEntry(rows'[i], rows[i])
  BY <1>1, ReverseSound DEF IInv
<1>4. \A i \in Ids : /\ Live(rows', i) = Live(rows, i) /\ InHand(rows', i) = InHand(rows, i)
                     /\ IsRepayment(rows'[i]) = IsRepayment(rows[i])
  BY <1>3 DEF SameEntry, InHand
<1>5. \A q \in Ids : q # r => alloc'[q] = alloc[q]
  BY <1>1 DEF Reverse, IInv, TypeOK
<1>6. PlacedNow' \subseteq todo \cup targets
  BY <1>1, <1>2, <1>4, <1>5 DEF PlacedNow, Used
<1>7. Preparation'
  BY <1>1, <1>2, <1>4, <1>6 DEF Preparation
<1>8. CASE op = "correct"
  <2>1. Preparing'
    BY <1>1, <1>2, <1>8 DEF Preparing
  <2>2. QED BY <1>1, <1>2, <1>7, <2>1 DEF GInv, Done, PlacedGreedily, PayingGreedily
<1>9. CASE op = "delete"
  <2>1. PlacedNow' \subseteq todo'
    BY <1>1, <1>2, <1>4, <1>6, <1>9 DEF PlacedNow, InHand
  <2>2. QED BY <1>1, <1>2, <1>7, <2>1 DEF GInv, Done, PlacedGreedily, PayingGreedily
<1>10. QED BY <1>2, <1>8, <1>9

\* A corrected repayment is still to be placed, or is not complete.
LEMMA EditKeepsOrder ==
  ASSUME IInv, GInv, Edit
  PROVE  GInv'
<1>1. /\ op = "correct" /\ undo = {} /\ change' = {} /\ change # {}
      /\ UNCHANGED <<alloc, db, op, targets, undo, paying, remaining>>
      /\ rows \in [Ids -> Row] /\ change \subseteq Corrections
  BY DEF Edit, IInv, TypeOK
<1>2. /\ paying = NoRow /\ PlacedNow \subseteq todo \cup targets
      /\ \E i \in Ids : targets = {i} /\ (IsRepayment(rows[i]) => todo = {})
  BY <1>1 DEF GInv, Preparation, Preparing
<1>3. PICK c \in change, i \in targets :
        LET row == Corrected(rows[i], c)
        IN  /\ rows' = [rows EXCEPT ![i] = row]
            /\ todo' = IF IsRepayment(row) /\ IsComplete(row) THEN {i} ELSE todo
  BY DEF Edit
<1> DEFINE new == Corrected(rows[i], c)
<1>4. i \in Ids /\ targets = {i} /\ (IsRepayment(rows[i]) => todo = {})
  BY <1>2
<1>5. new.type = rows[i].type
  BY <1>1, <1>4, CorrectedRow
<1>6. /\ rows' = [rows EXCEPT ![i] = new]
      /\ todo' = IF IsRepayment(new) /\ IsComplete(new) THEN {i} ELSE todo
  BY <1>3
<1> HIDE DEF new
<1>7. rows'[i] = new /\ \A j \in Ids : j # i => rows'[j] = rows[j]
  BY <1>1, <1>4, <1>6
<1>8. PlacedNow' \subseteq todo'
  <2> SUFFICES ASSUME NEW q \in PlacedNow' PROVE q \in todo'
    OBVIOUS
  <2>1. q \in Ids /\ InHand(rows', q) /\ (q \notin Used(db.rows) \/ alloc[q] # db.alloc[q])
    BY <1>1 DEF PlacedNow, Used
  <2>2. CASE q = i
    BY <1>6, <1>7, <2>1, <2>2 DEF InHand
  <2>3. CASE q # i
    <3>1. q \in PlacedNow
      BY <1>7, <2>1, <2>3 DEF PlacedNow, InHand
    <3>2. q \in todo
      BY <1>2, <1>4, <2>3, <3>1
    <3>3. ~IsRepayment(new)
      BY <1>4, <1>5, <3>2
    <3>4. QED BY <1>6, <3>2, <3>3
  <2>4. QED BY <2>2, <2>3
<1>9. ~Preparing'
  BY <1>1 DEF Preparing
<1>10. PlacedGreedily' /\ PayingGreedily'
  BY <1>1, <1>2, <1>8 DEF Done, PlacedGreedily, PayingGreedily
<1>11. QED BY <1>9, <1>10 DEF GInv, Preparation

\* What a repayment is taken up with covers every debt that taking it back opens.
LEMMA ApplyKeepsOrder ==
  ASSUME IInv, MInv, GInv, NEW s \in Ids, Apply(s)
  PROVE  GInv'
<1>1. /\ op # "idle" /\ undo = {} /\ change = {} /\ paying = NoRow /\ s \in todo
      /\ todo' = todo \ {s} /\ paying' = s /\ remaining' = rows[s].amount
      /\ UNCHANGED <<db, op, targets, undo, change, touched>>
      /\ rows \in [Ids -> Row] /\ alloc \in AllocationTable
  BY DEF Apply, ReadyToApply, Due, IInv, TypeOK, AllocationTable
<1>2. InHand(rows, s) /\ rows[s].amount \in Nat
  BY <1>1 DEF IInv, RepaymentsInHand, InHand, Row
<1>3. /\ \A i \in Ids : /\ SameEntry(rows'[i], rows[i])
                        /\ rows'[i].date = rows[i].date
                        /\ i # s => alloc'[i] = alloc[i]
      /\ \A d \in Ids : alloc'[s][d] = 0
      /\ rows' \in [Ids -> Row] /\ alloc' \in AllocationTable
  <2>1. CASE op = "delete"
    <3>1. Reverse(s)
      BY <2>1 DEF Apply
    <3>2. \A i \in Ids : i # s => alloc'[i] = alloc[i]
      BY <3>1 DEF Reverse, IInv, TypeOK
    <3>3. QED BY <3>1, <3>2, ReverseSound, ReverseMoney DEF IInv, AllocationTable
  <2>2. CASE op # "delete"
    <3>1. UNCHANGED <<rows, alloc>>
      BY <2>2 DEF Apply
    <3>2. \A d \in Ids : alloc[s][d] = 0
      BY <1>1, <2>2 DEF MInv, TodoIsUnplaced
    <3>3. QED BY <1>1, <3>1, <3>2 DEF SameEntry
  <2>3. QED BY <2>1, <2>2
<1>4. ASSUME NEW r \in Ids, InHand(rows, r), NEW W
      PROVE  Owing(rows', r, W) <= Owing(rows, r, W) + (IF Kin(r, s) THEN rows[s].amount ELSE 0)
  <2>1. Owing(rows, r, W) \in Nat /\ Owing(rows', r, W) \in Nat
    BY <1>1, <1>3, OwingIsNat
  <2>2. CASE op = "delete"
    <3>1. Reverse(s)
      BY <2>2 DEF Apply
    <3>2. Owing(rows', r, W) <= Owing(rows, r, W) + (IF Kin(r, s) THEN Settled(alloc, s) ELSE 0)
      BY <1>2, <1>4, <3>1, OwingReversed
    <3>3. InHandNow(s) = 0
      BY <1>1 DEF InHandNow, Ids
    <3>4. Settled(alloc, s) \in Nat
      BY <1>1, SumsOverIds
    <3>5. Settled(alloc, s) <= rows[s].amount
      BY <1>2, <3>3, <3>4 DEF MInv, WithinAmount
    <3>6. QED BY <1>2, <2>1, <3>2, <3>4, <3>5
  <2>3. CASE op # "delete"
    <3>1. rows' = rows
      BY <2>3 DEF Apply
    <3>2. QED BY <1>2, <2>1, <3>1
  <2>4. QED BY <2>2, <2>3
<1>5. ~Preparing /\ ~Preparing'
  BY <1>1 DEF Preparing
<1>6. PlacedGreedily'
  <2> SUFFICES ASSUME NEW r \in Done', NEW W \in Early(rows'),
                      Settled(alloc', r) < rows'[r].amount \/ MoneyOutside(r, W)'
               PROVE  Owing(rows', r, W) <= (HandFor(r))'
    BY DEF PlacedGreedily
  <2>1. r \in Ids /\ r # s /\ r \notin todo /\ r # paying
    BY <1>1, <1>5 DEF Done, PlacedNow, Ids
  <2>2. InHand(rows, r) /\ alloc'[r] = alloc[r]
    BY <1>3, <1>5, <2>1 DEF Done, PlacedNow, InHand, SameEntry
  <2>3. r \in Done
    BY <1>1, <1>5, <2>1, <2>2 DEF Done, PlacedNow, Used
  <2>4. W \in Early(rows)
    BY <1>3 DEF Early
  <2>5. Settled(alloc, r) < rows[r].amount \/ MoneyOutside(r, W)
    BY <1>3, <2>1, <2>2 DEF Settled, MoneyOutside, SameEntry
  <2>6. Owing(rows, r, W) <= 0
    BY <1>1, <2>3, <2>4, <2>5 DEF GInv, PlacedGreedily, HandFor
  <2>7. Owing(rows, r, W) \in Nat /\ Owing(rows', r, W) \in Nat
    BY <1>1, <1>3, <2>1, OwingIsNat
  <2>8. (HandFor(r))' = IF Kin(r, s) THEN rows[s].amount ELSE 0
    <3>1. Kin(r, s)' <=> Kin(r, s)
      BY <1>3, <2>1 DEF Kin, SameEntry
    <3>2. QED BY <1>1, <3>1 DEF HandFor, Ids, Kin
  <2>9. Owing(rows', r, W) <= Owing(rows, r, W) + (IF Kin(r, s) THEN rows[s].amount ELSE 0)
    BY <1>4, <2>1, <2>2
  <2>10. QED BY <1>2, <2>6, <2>7, <2>8, <2>9
<1>7. PayingGreedily'
  <2>1. Settled(alloc', s) = 0
    BY <1>3, NothingPlaced
  <2>2. \A W : ~MoneyOutside(s, W)'
    BY <1>3 DEF MoneyOutside
  <2>3. rows'[s].amount = rows[s].amount
    BY <1>3 DEF SameEntry
  <2>4. QED BY <1>1, <1>2, <2>1, <2>2, <2>3 DEF PayingGreedily, MoneyOutside
<1>8. Preparation'
  BY <1>5 DEF Preparation
<1>9. QED BY <1>6, <1>7, <1>8 DEF GInv

\* The loop pays earlier debts before later ones, with money counted as in hand.
LEMMA PayOldestKeepsOrder ==
  ASSUME IInv, MInv, GInv, PayOldest
  PROVE  GInv'
<1>1. /\ UNCHANGED <<db, op, targets, undo, change, todo, paying, touched>>
      /\ TypeOK /\ paying \in Ids /\ paying # NoRow /\ remaining \in Nat
      /\ rows \in [Ids -> Row] /\ alloc \in AllocationTable /\ InHand(rows, paying)
  BY DEF PayOldest, IInv, TypeOK, RepaymentsInHand, AllocationTable
<1>2. PICK d \in Ids, m \in Nat : PaysOff(d, m)
  BY <1>1, PayMoney
<1>3. /\ \A i \in Ids : SameEntry(rows'[i], rows[i]) /\ rows'[i].date = rows[i].date
      /\ rows' \in [Ids -> Row] /\ alloc' \in AllocationTable
  BY <1>2, PaySound DEF IInv, RepaymentsInHand, AllocationTable, PaysOff
<1>4. /\ d \in OpenDebts(rows, paying) /\ m \in Nat /\ m <= remaining /\ remaining' = remaining - m
      /\ \A e \in OpenDebts(rows, paying) \ {d} : Older(rows, d, e)
      /\ Places(alloc, alloc', paying, d, m)
  BY <1>2 DEF PaysOff
<1>5. ~Preparing /\ ~Preparing'
  BY <1>1 DEF GInv, Preparation, Preparing
<1>6. ASSUME NEW r \in Ids, r # paying
      PROVE  alloc'[r] = alloc[r]
  BY <1>6 DEF PayOldest, IInv, TypeOK
<1>7. Early(rows') = Early(rows)
  BY <1>3 DEF Early
<1>8. ASSUME NEW W \in Early(rows), d \notin W
      PROVE  Owing(rows, paying, W) = 0
  <2>1. \A e \in OpenDebts(rows, paying) : e \in Ids /\ rows[d].date <= rows[e].date
    <3>1. \A e \in Ids : rows[e].date \in Nat
      BY <1>1, DatesAreNumbers DEF Row
    <3>2. QED BY <1>4, <3>1 DEF Older, OpenDebts
  <2>2. OpenDebts(rows, paying) \cap W = {}
    BY <1>8, <2>1 DEF Early
  <2>3. QED BY <1>1, <2>2, OwingIsNat
<1>9. PlacedGreedily'
  <2> SUFFICES ASSUME NEW r \in Done', NEW W \in Early(rows'),
                      Settled(alloc', r) < rows'[r].amount \/ MoneyOutside(r, W)'
               PROVE  Owing(rows', r, W) <= (HandFor(r))'
    BY DEF PlacedGreedily
  <2>1. r \in Ids /\ r # paying /\ r \notin todo
    BY <1>1, <1>5 DEF Done, PlacedNow
  <2>2. InHand(rows, r) /\ alloc'[r] = alloc[r]
    BY <1>3, <1>5, <1>6, <2>1 DEF Done, PlacedNow, InHand, SameEntry
  <2>3. r \in Done /\ W \in Early(rows)
    BY <1>1, <1>5, <1>7, <2>1, <2>2 DEF Done, PlacedNow, Used
  <2>4. Settled(alloc, r) < rows[r].amount \/ MoneyOutside(r, W)
    BY <1>3, <2>1, <2>2 DEF Settled, MoneyOutside, SameEntry
  <2>5. Owing(rows, r, W) <= HandFor(r)
    BY <2>3, <2>4 DEF GInv, PlacedGreedily
  <2>6. Owing(rows', r, W) = Owing(rows, r, W) - (IF Kin(r, paying) /\ d \in W THEN m ELSE 0)
    BY <1>2, <2>1, <2>2, OwingPaid
  <2>7. HandFor(r) = (IF Kin(r, paying) THEN remaining ELSE 0)
    BY <1>1 DEF HandFor
  <2>8. (HandFor(r))' = IF Kin(r, paying) THEN remaining - m ELSE 0
    <3>1. Kin(r, paying)' <=> Kin(r, paying)
      BY <1>1, <1>3, <2>1 DEF Kin, SameEntry
    <3>2. QED BY <1>1, <1>4, <3>1 DEF HandFor, Kin
  <2>9. Kin(r, paying) /\ d \notin W => Owing(rows, r, W) = 0
    <3>1. Kin(r, paying) => OpenDebts(rows, r) = OpenDebts(rows, paying)
      BY <1>1, <2>1, <2>2, KinSettle
    <3>2. Kin(r, paying) => Owing(rows, r, W) = Owing(rows, paying, W)
      BY <3>1 DEF Owing, OpenIn
    <3>3. QED BY <1>8, <2>3, <3>2
  <2>10. Owing(rows, r, W) \in Nat
    BY <1>1, <2>1, OwingIsNat
  <2>11. QED BY <1>1, <1>4, <2>5, <2>6, <2>7, <2>8, <2>9, <2>10
<1>10. PayingGreedily'
  <2>1. Settled(alloc', paying) = Settled(alloc, paying) + m /\ Settled(alloc, paying) \in Nat
    <3>1. Settled(alloc', paying) = Settled(alloc, paying) + (IF paying = paying THEN m ELSE 0)
      BY ONLY <1>1, <1>2, <1>3, <1>4, SumsOfPlacing
    <3>2. QED BY <1>1, <3>1, SumsOverIds
  <2>2. Settled(alloc', paying') + remaining' = rows'[paying'].amount
    BY <1>1, <1>3, <1>4, <2>1 DEF GInv, PayingGreedily, SameEntry
  <2>3. ASSUME NEW W \in Early(rows'), MoneyOutside(paying, W)'
        PROVE  Owing(rows', paying, W) = 0
    <3>1. Owing(rows', paying, W) = Owing(rows, paying, W) - (IF Kin(paying, paying) /\ d \in W THEN m ELSE 0)
      BY <1>1, <1>2, OwingPaid
    <3>2. Owing(rows', paying, W) \in Nat /\ Owing(rows, paying, W) \in Nat
      BY <1>1, <1>3, OwingIsNat
    <3>3. d \notin W \/ MoneyOutside(paying, W)
      BY <1>1, <1>4, <2>3 DEF MoneyOutside, Places
    <3>4. Owing(rows, paying, W) = 0
      BY <1>1, <1>7, <1>8, <3>3 DEF GInv, PayingGreedily
    <3>5. QED
      <4> DEFINE x == Owing(rows', paying, W)
                 y == Owing(rows, paying, W)
      <4>1. x \in Nat /\ (x = y - m \/ x = y - 0) /\ y = 0
        BY <3>1, <3>2, <3>4
      <4> HIDE DEF x, y
      <4>2. x = 0
        BY <1>4, <4>1
      <4>3. QED BY <4>2 DEF x
  <2>4. QED BY <1>1, <2>2, <2>3 DEF PayingGreedily, MoneyOutside
<1>11. Preparation'
  BY <1>5 DEF Preparation
<1>12. QED BY <1>9, <1>10, <1>11 DEF GInv

\* The loop ends with nothing in hand, or with no open debt of the party.
LEMMA PaidKeepsOrder ==
  ASSUME IInv, GInv, Paid
  PROVE  GInv'
<1>1. /\ UNCHANGED <<rows, alloc, db, op, targets, undo, change, todo>>
      /\ paying # NoRow /\ paying' = NoRow
      /\ remaining = 0 \/ OpenDebts(rows, paying) = {}
      /\ TypeOK /\ paying \in Ids /\ InHand(rows, paying) /\ rows \in [Ids -> Row]
      /\ alloc \in AllocationTable
  BY DEF Paid, IInv, TypeOK, RepaymentsInHand, AllocationTable
<1>2. ~Preparing /\ ~Preparing'
  BY <1>1 DEF GInv, Preparation, Preparing
<1>3. /\ Settled(alloc, paying) + remaining = rows[paying].amount
      /\ Settled(alloc, paying) \in Nat
      /\ \A W \in Early(rows) : MoneyOutside(paying, W) => Owing(rows, paying, W) = 0
  BY <1>1, SumsOverIds DEF GInv, PayingGreedily
<1>4. PlacedGreedily'
  <2> SUFFICES ASSUME NEW r \in Done', NEW W \in Early(rows),
                      Settled(alloc, r) < rows[r].amount \/ MoneyOutside(r, W)
               PROVE  Owing(rows, r, W) <= 0
    BY <1>1 DEF PlacedGreedily, MoneyOutside, HandFor
  <2>1. r \in Ids /\ InHand(rows, r) /\ (r = paying \/ r \in Done)
    BY <1>1, <1>2 DEF Done, PlacedNow, Used
  <2>2. OpenDebts(rows, r) = {} => Owing(rows, r, W) = 0
    BY <1>1, <2>1, OwingIsNat
  <2>3. CASE r = paying
    <3>1. CASE remaining = 0
      <4>1. MoneyOutside(paying, W)
        BY <1>3, <2>3, <3>1
      <4>2. QED BY <1>3, <2>3, <4>1
    <3>2. CASE OpenDebts(rows, paying) = {}
      BY <2>2, <2>3, <3>2
    <3>3. QED BY <1>1, <3>1, <3>2
  <2>4. CASE r \in Done
    <3>1. Owing(rows, r, W) <= HandFor(r)
      BY <2>4 DEF GInv, PlacedGreedily
    <3>2. Kin(r, paying) => OpenDebts(rows, r) = OpenDebts(rows, paying)
      BY <1>1, <2>1, KinSettle
    <3>3. HandFor(r) = 0 \/ OpenDebts(rows, r) = {}
      BY <1>1, <3>2 DEF HandFor
    <3>4. QED BY <2>2, <3>1, <3>3
  <2>5. QED BY <2>1, <2>3, <2>4
<1>5. PayingGreedily' /\ Preparation'
  BY <1>1, <1>2 DEF PayingGreedily, Preparation
<1>6. QED BY <1>4, <1>5 DEF GInv

\* At rest nothing is being placed.
LEMMA RestKeepsOrder ==
  ASSUME Closed, rows' = db'.rows, alloc' = db'.alloc
  PROVE  GInv'
<1>1. PlacedNow' = {} /\ ~Preparing' /\ paying' = NoRow
  BY DEF Closed, PlacedNow, InHand, Used, Preparing
<1>2. QED BY <1>1 DEF GInv, Preparation, PlacedGreedily, PayingGreedily, Done

\* Every step keeps the order money is placed in.
LEMMA StepKeepsOrder == IInv /\ MInv /\ GInv /\ [Next]_vars => GInv'
<1> SUFFICES ASSUME IInv, MInv, GInv, [Next]_vars PROVE GInv'
  OBVIOUS
<1>1. CASE RecordMessage
  BY <1>1, RecordKeepsOrder
<1>2. CASE DeleteOne
  BY <1>2, DeleteKeepsOrder DEF DeleteOne
<1>3. CASE DeleteLastMessage
  <2>1. LatestBatch(rows) \in SUBSET Ids
    BY DEF LatestBatch
  <2>2. QED BY <1>3, <2>1, DeleteKeepsOrder DEF DeleteLastMessage
<1>4. CASE CorrectOne
  BY <1>4, CorrectKeepsOrder DEF CorrectOne
<1>5. CASE PayOldest
  BY <1>5, PayOldestKeepsOrder
<1>6. CASE Paid
  BY <1>6, PaidKeepsOrder
<1>7. CASE Edit
  BY <1>7, EditKeepsOrder
<1>8. CASE Commit
  <2>1. Closed /\ rows' = db'.rows /\ alloc' = db'.alloc
    BY <1>8 DEF Commit
  <2>2. QED BY <2>1, RestKeepsOrder
<1>9. CASE \E r \in Ids : TakeBack(r)
  BY <1>9, TakeBackKeepsOrder
<1>10. CASE \E r \in Ids : Apply(r)
  BY <1>10, ApplyKeepsOrder
<1>11. CASE Rollback
  <2>1. Closed /\ rows' = db'.rows /\ alloc' = db'.alloc
    BY <1>11 DEF Rollback
  <2>2. QED BY <2>1, RestKeepsOrder
<1>12. CASE UNCHANGED vars
  <2>1. UNCHANGED <<rows, alloc, db, op, targets, undo, change, todo, paying, remaining>>
    BY <1>12 DEF vars
  <2>2. /\ PlacedNow' = PlacedNow /\ Preparing' = Preparing /\ Done' = Done
        /\ \A r \in Ids : (HandFor(r))' = HandFor(r)
    BY <2>1 DEF PlacedNow, Preparing, Done, HandFor, Used, Kin
  <2>3. Preparation'
    BY <2>1, <2>2 DEF GInv, Preparation
  <2>4. PlacedGreedily' /\ PayingGreedily'
    BY <2>1, <2>2 DEF GInv, PlacedGreedily, PayingGreedily, MoneyOutside, Done, PlacedNow
  <2>5. QED BY <2>3, <2>4 DEF GInv
<1>13. QED
  BY <1>1, <1>2, <1>3, <1>4, <1>5, <1>6, <1>7, <1>8, <1>9, <1>10, <1>11, <1>12
  DEF Next, Work

\* All three invariants together are inductive.
LEMMA OrderInvariant == Spec => [](IInv /\ MInv /\ GInv)
<1>1. Init => GInv
  <2> SUFFICES ASSUME Init PROVE GInv
    OBVIOUS
  <2>1. db.rows = rows /\ db.alloc = alloc
    BY DEF Init
  <2>2. PlacedNow = {} /\ ~Preparing /\ paying = NoRow
    BY <2>1, NothingPlacedAtRest DEF Init, Preparing
  <2>3. QED BY <2>2 DEF GInv, Preparation, PlacedGreedily, PayingGreedily, Done
<1>2. IInv /\ MInv /\ GInv /\ [Next]_vars => GInv'
  BY StepKeepsOrder
<1>3. QED BY <1>1, <1>2, MoneyInvariant, PTL DEF Spec

\* What is committed has been placed, and nothing is in hand.
LEMMA CommitsDone ==
  ASSUME IInv, MInv, GInv, Commit, NEW r \in Placed(db, db')
  PROVE  /\ db'.rows = rows /\ db'.alloc = alloc
         /\ r \in Ids /\ InHand(rows, r)
         /\ \A W \in Early(rows) :
              Settled(alloc, r) < rows[r].amount \/ MoneyOutside(r, W) => Owing(rows, r, W) = 0
<1>1. /\ db'.rows = rows /\ db'.alloc = alloc
      /\ undo = {} /\ change = {} /\ todo = {} /\ paying = NoRow
  BY DEF Commit, ReadyToApply
<1>2. r \in Ids /\ InHand(rows, r) /\ r \in Done
  BY <1>1 DEF Placed, PlacedNow, Done, Preparing, InHand, Ids
<1>3. \A W : Owing(rows, r, W) \in Nat
  BY <1>2, OwingIsNat DEF IInv, TypeOK
<1>4. \A W \in Early(rows) :
        Settled(alloc, r) < rows[r].amount \/ MoneyOutside(r, W) => Owing(rows, r, W) <= 0
  BY <1>1, <1>2 DEF GInv, PlacedGreedily, HandFor
<1>5. QED BY <1>1, <1>2, <1>3, <1>4

\* A repayment an operation placed is fully used, or leaves its party no open debt it
\* could settle, also when several repayments were taken back together.
THEOREM NoMoneyIdle == Spec => NoIdleMoney
<1> DEFINE A == Committing => \A r \in Placed(db, db') :
                  \/ SumFunction(db'.alloc[r]) = db'.rows[r].amount
                  \/ OpenDebts(db'.rows, r) = {}
<1>1. IInv /\ MInv /\ GInv /\ [Next]_vars => A
  <2> SUFFICES ASSUME IInv, MInv, GInv, [Next]_vars, Committing, NEW r \in Placed(db, db')
               PROVE  \/ SumFunction(db'.alloc[r]) = db'.rows[r].amount
                      \/ OpenDebts(db'.rows, r) = {}
    OBVIOUS
  <2>1. Commit
    BY CommittingIsCommit
  <2>2. /\ db'.rows = rows /\ db'.alloc = alloc /\ r \in Ids /\ InHand(rows, r)
        /\ rows \in [Ids -> Row] /\ alloc \in AllocationTable
        /\ \A W \in Early(rows) : Settled(alloc, r) < rows[r].amount => Owing(rows, r, W) = 0
    BY <2>1, CommitsDone DEF IInv, TypeOK, AllocationTable
  <2>3. CASE Settled(alloc, r) < rows[r].amount
    <3>1. Ids \in Early(rows)
      BY DEF Early
    <3>2. Owing(rows, r, Ids) = 0
      BY <2>2, <2>3, <3>1
    <3>3. \A d \in OpenDebts(rows, r) \cap Ids : rows[d].out <= 0
      BY <2>2, <3>2, OwingIsNat
    <3>4. OpenDebts(rows, r) = {}
      <4> SUFFICES ASSUME NEW d \in OpenDebts(rows, r) PROVE FALSE
        OBVIOUS
      <4>1. d \in Ids /\ rows[d].out > 0 /\ rows[d].out \in Int
        BY <2>2 DEF OpenDebts, Row
      <4>2. QED BY <3>3, <4>1
    <3>5. QED BY <2>2, <3>4
  <2>4. CASE ~(Settled(alloc, r) < rows[r].amount)
    <3>1. paying = NoRow
      BY <2>1 DEF Commit, ReadyToApply
    <3>2. InHandNow(r) = 0
      BY <2>2, <3>1 DEF InHandNow, Ids
    <3>3. Settled(alloc, r) \in Nat /\ rows[r].amount \in Nat
      BY <2>2, SumsOverIds DEF InHand, Row
    <3>4. Settled(alloc, r) <= rows[r].amount
      BY <2>2, <3>2, <3>3 DEF MInv, WithinAmount
    <3>5. QED BY <2>2, <2>4, <3>3, <3>4 DEF Settled
  <2>5. QED BY <2>3, <2>4
<1>2. QED BY <1>1, OrderInvariant, PTL DEF Spec, NoIdleMoney

\* The party's oldest debts are settled first: when a placed repayment holds money on a
\* debt, no older debt of the party is still open at the commit.
THEOREM OldestDebtsFirst == Spec => OldestDebtFirst
<1> DEFINE A == Committing => \A r \in Placed(db, db') :
                  \A d \in OpenDebts(db'.rows, r), e \in Ids :
                    db'.alloc[r][e] > 0 => db'.rows[e].date <= db'.rows[d].date
<1>1. IInv /\ MInv /\ GInv /\ [Next]_vars => A
  <2> SUFFICES ASSUME IInv, MInv, GInv, [Next]_vars, Committing, NEW r \in Placed(db, db'),
                      NEW d \in OpenDebts(db'.rows, r), NEW e \in Ids, db'.alloc[r][e] > 0,
                      ~(db'.rows[e].date <= db'.rows[d].date)
               PROVE  FALSE
    OBVIOUS
  <2>1. /\ db'.rows = rows /\ db'.alloc = alloc /\ r \in Ids /\ rows \in [Ids -> Row]
        /\ \A W \in Early(rows) : MoneyOutside(r, W) => Owing(rows, r, W) = 0
    BY CommittingIsCommit, CommitsDone DEF IInv, TypeOK
  <2>2. /\ d \in OpenDebts(rows, r) /\ d \in Ids /\ rows[d].out > 0 /\ rows[d].out \in Int
        /\ rows[d].date < rows[e].date /\ alloc[r][e] > 0
        /\ \A i \in Ids : rows[i].date \in Nat
    <3>1. \A i \in Ids : rows[i].date \in Nat /\ rows[i].out \in Int
      <4>1. \A i \in Ids : rows[i] \in Row
        BY <2>1
      <4>2. \A i \in Ids : rows[i].out \in Int
        BY <4>1 DEF Row
      <4>3. \A i \in Ids : rows[i].date \in Nat
        BY <4>1, DatesAreNumbers DEF Row
      <4>4. QED BY <4>2, <4>3
    <3>2. d \in OpenDebts(rows, r) /\ d \in Ids /\ rows[d].out > 0
      BY <2>1 DEF OpenDebts
    <3>3. ~(rows[e].date <= rows[d].date) /\ alloc[r][e] > 0
      BY <2>1
    <3>4. QED BY <3>1, <3>2, <3>3
  <2> DEFINE W == {i \in Ids : rows[i].date < rows[e].date}
  <2>3. W \in Early(rows) /\ e \notin W /\ d \in W
    BY <2>2 DEF Early
  <2> HIDE DEF W
  <2>4. Owing(rows, r, W) = 0
    BY <2>1, <2>2, <2>3 DEF MoneyOutside
  <2>5. rows[d].out <= 0
    BY <2>1, <2>2, <2>3, <2>4, OwingIsNat
  <2>6. QED BY <2>2, <2>5
<1>2. QED BY <1>1, OrderInvariant, PTL DEF Spec, OldestDebtFirst
-----------------------------------------------------------------------------
(***************************************************************************)
(* What is read out of the ledger.  A statement adds up what was charged,  *)
(* paid on the spot and repaid; the ledger keeps what is outstanding.      *)
(* They agree because what was paid on a debt, less the repayments placed  *)
(* on it, is what the trader stated, and that is never negative: the last  *)
(* part of the invariant.                                                  *)
(***************************************************************************)

\* What was stated as paid on a debt, apart from the repayments placed on it, is not negative;
\* and an entry without an amount has had nothing worked out for it.
StatedPaidIn(t, a) ==
  \A i \in Ids : /\ ~IsComplete(t[i]) => t[i].paid \in Money
                 /\ IsComplete(t[i]) /\ ~IsRepayment(t[i]) => t[i].paid - PaidInto(a, i) \in Nat

StatedPaid == StatedPaidIn(rows, alloc) /\ StatedPaidIn(db.rows, db.alloc)

\* What is settled has a payment stated or settled by default.
LEMMA SettlePays ==
  ASSUME NEW row \in Row, row.paid \in Money
  PROVE  /\ Settle(row).paid \in Money
         /\ IsComplete(Settle(row)) /\ ~IsRepayment(Settle(row)) => Settle(row).paid \in Nat
<1>1. /\ SettledPaid(row) \in Money
      /\ IsComplete(row) /\ ~IsRepayment(row) => SettledPaid(row) \in Nat
  BY DEF SettledPaid, PaidByDefault, Row
<1>2. SettledOut(row) \in Money
  BY <1>1 DEF SettledOut, Row
<1>3. Settle(row) = WithBalance(row, SettledPaid(row), SettledOut(row))
  BY DEF Settle, WithBalance
<1>4. Settle(row).paid = SettledPaid(row) /\ SameEntry(Settle(row), row)
  BY <1>1, <1>2, <1>3, WriteBalance
<1> QED BY <1>1, <1>4 DEF SameEntry

\* No money reaches an entry that nothing is allocated to.
LEMMA NothingPaidInto ==
  ASSUME NEW a \in AllocationTable, NEW d \in Ids, \A r \in Ids : a[r][d] = 0
  PROVE  PaidInto(a, d) = 0
<1> DEFINE column == [r \in Ids |-> a[r][d]]
<1>1. PaidInto(a, d) = SumFunctionOnSet(column, Ids)
  BY SumsOverIds
<1>2. \A r \in Ids : column[r] = 0
  OBVIOUS
<1> HIDE DEF column
<1> QED BY <1>1, <1>2, IdsFinite, SumOfZeros

\* The empty ledger has nothing stated.
LEMMA InitStated == Init => StatedPaid
  BY DEF Init, StatedPaid, StatedPaidIn, BlankRow

\* Nothing changes while the rows and the allocations stay.
LEMMA UnchangedStated ==
  ASSUME StatedPaid, UNCHANGED <<rows, alloc, db>>
  PROVE  StatedPaid'
  BY DEF StatedPaid, StatedPaidIn, PaidInto

\* What an entry of a message states as paid is an amount, and none was repaid before it.
LEMMA RecordKeepsStated ==
  ASSUME IInv, StatedPaid, RecordMessage
  PROVE  StatedPaid'
<1>1. PICK first \in 0 .. MaxRows, n \in 1 .. MaxBatch :
        /\ Used(rows) = 1 .. first /\ first + n <= MaxRows
        /\ \E batch \in [1 .. n -> Entries] : Record(first, n, batch)
  BY DEF RecordMessage
<1>2. PICK batch \in [1 .. n -> Entries] : Record(first, n, batch)
  BY <1>1
<1> DEFINE new == first + 1 .. first + n
<1>3. /\ new \in SUBSET Ids /\ new \cap Used(rows) = {}
      /\ \A i \in new : batch[i - first] \in Entries /\ first + 1 \in Nat
  BY <1>1, BoundsAreNatural DEF Ids
<1>4. /\ \A i \in new : rows'[i] = NewRow(batch[i - first], first + 1)
      /\ \A i \in Ids \ new : rows'[i] = rows[i]
      /\ UNCHANGED <<alloc, db>>
  BY <1>2, <1>3 DEF Record
<1>5. alloc \in AllocationTable
  BY DEF IInv, TypeOK, AllocationTable
<1>6. ASSUME NEW i \in new
      PROVE  /\ rows'[i].paid \in Money
             /\ IsComplete(rows'[i]) /\ ~IsRepayment(rows'[i]) => rows'[i].paid \in Nat
             /\ PaidInto(alloc, i) = 0
  <2>1. PICK e \in Entries, b \in Nat : rows'[i] = NewRow(e, b)
    BY <1>3, <1>4, <1>6
  <2>2. e \in TransactionInput
    BY InputsAreTyped
  <2> DEFINE row == [type |-> e.type, direction |-> e.direction, party |-> e.party,
                     amount |-> Stated(e.amount), paid |-> e.paid, out |-> Unknown,
                     date |-> e.date, batch |-> b, state |-> "live"]
  <2>3. row \in Row /\ row.paid \in Money
    BY <2>2 DEF TransactionInput, Row, Stated
  <2>4. rows'[i] = Settle(row)
    BY <2>1 DEF NewRow
  <2>5. i \in Ids /\ \A r \in Ids : alloc[r][i] = 0
    BY <1>3, <1>5, <1>6 DEF IInv, SoundIn, FoundedIn, AllocationTable
  <2> HIDE DEF row
  <2> QED BY <1>5, <2>3, <2>4, <2>5, SettlePays, NothingPaidInto
<1> HIDE DEF new
<1>7. StatedPaidIn(rows', alloc')
  BY <1>4, <1>6 DEF StatedPaid, StatedPaidIn
<1> QED BY <1>4, <1>7 DEF StatedPaid

\* A deletion leaves what was paid on its rows.
LEMMA DeleteKeepsStated ==
  ASSUME IInv, StatedPaid, NEW S \in SUBSET Ids, Delete(S)
  PROVE  StatedPaid'
<1>1. UNCHANGED <<alloc, db>> /\ rows \in [Ids -> Row]
  BY DEF Delete, IInv, TypeOK
<1>2. \A i \in Ids : SameExceptState(rows'[i], rows[i])
  BY <1>1, DeleteWrites
<1>3. StatedPaidIn(rows', alloc')
  BY <1>1, <1>2 DEF StatedPaid, StatedPaidIn, SameExceptState
<1> QED BY <1>1, <1>3 DEF StatedPaid

\* What is taken back comes off what was paid on the debt.
LEMMA ReverseKeepsStated ==
  ASSUME IInv, StatedPaid, NEW r \in Ids, Reverse(r), UNCHANGED db
  PROVE  StatedPaid'
<1>1. TypeOK /\ alloc \in AllocationTable /\ rows \in [Ids -> Row]
  BY DEF IInv, TypeOK, AllocationTable
<1>2. /\ \A i \in Ids : SameEntry(rows'[i], rows[i])
      /\ \A q, d \in Ids : alloc'[q][d] = IF q = r THEN 0 ELSE alloc[q][d]
      /\ alloc' \in AllocationTable
  BY ReverseSound DEF IInv, AllocationTable
<1>3. StatedPaidIn(rows', alloc')
  <2> SUFFICES ASSUME NEW i \in Ids
               PROVE  /\ ~IsComplete(rows'[i]) => rows'[i].paid \in Money
                      /\ IsComplete(rows'[i]) /\ ~IsRepayment(rows'[i]) =>
                           rows'[i].paid - PaidInto(alloc', i) \in Nat
    BY DEF StatedPaidIn
  <2>1. IsComplete(rows'[i]) = IsComplete(rows[i]) /\ IsRepayment(rows'[i]) = IsRepayment(rows[i])
    BY <1>2 DEF SameEntry
  <2>2. /\ rows'[i].paid = rows[i].paid - alloc[r][i] /\ (alloc[r][i] = 0 => rows'[i] = rows[i])
        /\ rows[i].paid \in Int /\ alloc[r][i] \in Nat /\ PaidInto(alloc, i) \in Nat
    BY <1>1, ReverseMoney, SumsOverIds DEF Row, AllocationTable
  <2>3. PaidInto(alloc', i) = PaidInto(alloc, i) - alloc[r][i]
    BY <1>1, <1>2, SumsOfTakingBack
  <2>4. alloc[r][i] > 0 => IsComplete(rows[i])
    BY DEF IInv, SoundIn, MatchingIn
  <2> QED BY <2>1, <2>2, <2>3, <2>4 DEF StatedPaid, StatedPaidIn
<1> QED BY <1>3 DEF StatedPaid

\* What is placed on a debt counts as paid on it.
LEMMA PayOldestKeepsStated ==
  ASSUME IInv, StatedPaid, PayOldest
  PROVE  StatedPaid'
<1>1. /\ UNCHANGED db /\ TypeOK /\ paying \in Ids /\ rows \in [Ids -> Row]
      /\ alloc \in AllocationTable
  BY DEF PayOldest, IInv, TypeOK, AllocationTable
<1>2. PICK d \in Ids, m \in Nat : PaysOff(d, m)
  BY <1>1, PayMoney
<1> USE DEF PaysOff
<1>3. (\A i \in Ids : SameEntry(rows'[i], rows[i])) /\ alloc' \in AllocationTable
  BY PaySound DEF IInv, RepaymentsInHand, AllocationTable
<1>4. StatedPaidIn(rows', alloc')
  <2> SUFFICES ASSUME NEW i \in Ids
               PROVE  /\ ~IsComplete(rows'[i]) => rows'[i].paid \in Money
                      /\ IsComplete(rows'[i]) /\ ~IsRepayment(rows'[i]) =>
                           rows'[i].paid - PaidInto(alloc', i) \in Nat
    BY DEF StatedPaidIn
  <2>1. IsComplete(rows'[i]) = IsComplete(rows[i]) /\ IsRepayment(rows'[i]) = IsRepayment(rows[i])
    BY <1>3 DEF SameEntry
  <2>2. PaidInto(alloc', i) = PaidInto(alloc, i) + (IF i = d THEN m ELSE 0)
    BY ONLY <1>1, <1>2, <1>3, SumsOfPlacing, i \in Ids, d \in Ids, m \in Nat
  <2>3. rows[i].paid \in Int /\ PaidInto(alloc, i) \in Nat
    BY <1>1, SumsOverIds DEF Row
  <2>4. i = d => IsComplete(rows[i])
    BY <1>2 DEF OpenDebts
  <2> QED BY <1>2, <2>1, <2>2, <2>3, <2>4 DEF StatedPaid, StatedPaidIn
<1> QED BY <1>1, <1>4 DEF StatedPaid

\* A correction finds its entry with every repayment taken off.
LEMMA EditKeepsStated ==
  ASSUME IInv, StatedPaid, Edit
  PROVE  StatedPaid'
<1>1. /\ op = "correct" /\ undo = {} /\ UNCHANGED <<alloc, db>>
      /\ rows \in [Ids -> Row] /\ alloc \in AllocationTable
      /\ change \subseteq Corrections /\ targets \subseteq Ids
  BY DEF Edit, IInv, TypeOK, AllocationTable
<1>2. PICK c \in change, i \in targets : rows' = [rows EXCEPT ![i] = Corrected(rows[i], c)]
  BY DEF Edit
<1>3. /\ i \in Ids /\ c \in Correction /\ rows[i] \in Row
      /\ \A j \in Ids : alloc[j][i] = 0
  BY <1>1, <1>2, InputsAreTyped DEF IInv, CorrectionClear, AllocationTable
<1>4. PaidInto(alloc, i) = 0
  BY <1>1, <1>3, NothingPaidInto
<1> DEFINE new == Corrected(rows[i], c)
<1>5. /\ ~IsComplete(new) => new.paid \in Money
      /\ IsComplete(new) /\ ~IsRepayment(new) => new.paid \in Nat
  <2> DEFINE row == rows[i]
             amount == Given(c.amount, row.amount)
             paid == IF c.paid # Unknown THEN c.paid
                     ELSE IF c.amount # Unknown /\ IsComplete(row) /\ row.paid = row.amount
                     THEN amount ELSE row.paid
             party == IF c.party = NoParty THEN row.party ELSE c.party
             edited == [row EXCEPT !.amount = amount, !.paid = paid, !.party = party,
                                   !.date = Given(c.date, row.date)]
  <2>1. new = Settle(edited)
    BY <1>3 DEF Corrected, Row
  <2>2. amount \in Money /\ paid \in Int /\ (amount = Unknown => row.amount = Unknown)
    BY <1>3 DEF Correction, Row, Given
  <2>3. party \in Parties \cup {NoParty} /\ Given(c.date, row.date) \in Dates
    BY <1>3 DEF Correction, Row, Given
  <2>4. (IsComplete(row) /\ IsRepayment(row)) \/ paid \in Money
    BY <1>3, <1>4, <2>2 DEF Correction, StatedPaid, StatedPaidIn, Row
  <2> HIDE DEF amount, paid, party
  <2>5. /\ edited \in Row /\ edited.paid = paid /\ edited.amount = amount
        /\ IsRepayment(edited) = IsRepayment(row)
    BY <1>3, <2>2, <2>3 DEF Row
  <2> HIDE DEF edited
  <2>6. CASE paid \in Money
    BY <2>1, <2>5, <2>6, SettlePays
  <2>7. CASE IsComplete(row) /\ IsRepayment(row)
    BY <2>1, <2>2, <2>5, <2>7, SettleDerives DEF SameEntry
  <2> QED BY <2>4, <2>6, <2>7
<1>6. rows'[i] = new /\ \A j \in Ids : j # i => rows'[j] = rows[j]
  BY <1>1, <1>2, <1>3
<1> HIDE DEF new
<1>7. StatedPaidIn(rows', alloc')
  BY <1>1, <1>4, <1>5, <1>6 DEF StatedPaid, StatedPaidIn
<1> QED BY <1>1, <1>7 DEF StatedPaid

\* Every step keeps it.
LEMMA StepKeepsStated == IInv /\ StatedPaid /\ [Next]_vars => StatedPaid'
<1> SUFFICES ASSUME IInv, StatedPaid, [Next]_vars PROVE StatedPaid'
  OBVIOUS
<1>1. CASE RecordMessage
  BY <1>1, RecordKeepsStated
<1>2. CASE DeleteOne
  BY <1>2, DeleteKeepsStated DEF DeleteOne
<1>3. CASE DeleteLastMessage
  <2>1. LatestBatch(rows) \in SUBSET Ids
    BY DEF LatestBatch
  <2>2. QED BY <1>3, <2>1, DeleteKeepsStated DEF DeleteLastMessage
<1>4. CASE CorrectOne \/ Paid \/ UNCHANGED vars
  BY <1>4, UnchangedStated DEF CorrectOne, Correct, Paid, vars
<1>5. CASE PayOldest
  BY <1>5, PayOldestKeepsStated
<1>6. CASE Edit
  BY <1>6, EditKeepsStated
<1>7. CASE \E r \in Ids : TakeBack(r)
  BY <1>7, ReverseKeepsStated DEF TakeBack
<1>8. CASE \E r \in Ids : Apply(r)
  <2>1. PICK r \in Ids : Apply(r)
    BY <1>8
  <2>2. CASE op = "delete"
    BY <2>1, <2>2, ReverseKeepsStated DEF Apply
  <2>3. CASE op # "delete"
    BY <2>1, <2>3, UnchangedStated DEF Apply
  <2> QED BY <2>2, <2>3
<1>9. CASE Commit
  BY <1>9 DEF Commit, StatedPaid, StatedPaidIn, PaidInto
<1>10. CASE Rollback
  BY <1>10 DEF Rollback, StatedPaid, StatedPaidIn, PaidInto
<1> QED
  BY <1>1, <1>2, <1>3, <1>4, <1>5, <1>6, <1>7, <1>8, <1>9, <1>10 DEF Next, Work
-----------------------------------------------------------------------------
(* A committed ledger. *)

\* What a committed ledger is: its rows are typed, its balances derived, no allocation touches a
\* deleted entry, and what was paid on a debt covers what was repaid of it.
Committed(t, a) ==
  /\ t \in [Ids -> Row] /\ a \in AllocationTable
  /\ BalancedIn(t) /\ MatchingIn(t, a)
  /\ \A r, d \in Ids : a[r][d] > 0 => Live(t, r) /\ Live(t, d)
  /\ StatedPaidIn(t, a)

\* What is committed is such a ledger.
LEMMA DbIsCommitted ==
  ASSUME IInv, StatedPaid
  PROVE  Committed(db.rows, db.alloc)
<1>1. db.rows \in [Ids -> Row] /\ db.alloc \in AllocationTable
  BY DEF IInv, TypeOK, AllocationTable
<1> QED BY <1>1 DEF IInv, SoundIn, CommittedAllocationsLive, StatedPaid, Committed

\* Every date is between the first and the last.
LEMMA DatesBetween ==
  ASSUME NEW d \in Dates
  PROVE  FirstDate \in Dates /\ LastDate \in Dates /\ FirstDate <= d /\ d <= LastDate
<1>1. PICK last \in Dates : \A e \in Dates : e <= last
  BY DatesAreFinite, DatesAreNumbers, LargestOf
<1>2. PICK first \in Dates : \A e \in Dates : first <= e
  BY DatesAreNumbers, LeastOf
<1>3. LastDate \in Dates /\ d <= LastDate
  <2>1. last >= d /\ \A e \in Dates : last >= e
    BY <1>1, DatesAreNumbers
  <2>2. LastDate \in Dates /\ \A e \in Dates : LastDate >= e
    BY <2>1 DEF LastDate, Max
  <2> QED BY <2>2, DatesAreNumbers
<1>4. FirstDate \in Dates /\ FirstDate <= d
  BY <1>2 DEF FirstDate, Min
<1> QED BY <1>3, <1>4
-----------------------------------------------------------------------------
(* The reports and the pages. *)

\* A person's open balances are those that are not nil, whatever page asks.
Owed(t, types, p) == {i \in OpenNow(t, types) : t[i].party = p}

\* A report without dates shows what is open.
LEMMA OpenWithoutDates ==
  ASSUME NEW t, NEW a, Committed(t, a), NEW types
  PROVE  OpenBalances(t, types, FirstDate, LastDate) = OpenNow(t, types)
<1>1. \A i \in Ids : t[i].date \in Dates
  BY DEF Committed, Row
<1> QED BY <1>1, DatesBetween DEF OpenBalances, Counted, OpenNow

\* A debt leaves nothing outstanding or something, never less than nothing.
LEMMA NotNilIsOpen ==
  ASSUME NEW t, NEW a, Committed(t, a), NEW types, types \in {Receivable, Payable}, NEW p
  PROVE  {i \in {j \in Ids : Live(t, j) /\ t[j].party = p} :
            IsComplete(t[i]) /\ t[i].out # 0 /\ t[i].type \in types} = Owed(t, types, p)
<1>1. ASSUME NEW i \in Ids, Live(t, i), IsComplete(t[i]), t[i].type \in types
      PROVE  t[i].out \in Nat
  <2>1. ~IsRepayment(t[i]) /\ i \in Used(t)
    BY <1>1 DEF Receivable, Payable, Used
  <2>2. t[i].amount \in Int /\ t[i].paid \in Int
    BY DEF Committed, Row
  <2> QED BY <1>1, <2>1, <2>2 DEF Committed, BalancedIn
<1> QED BY <1>1 DEF Owed, OpenNow

\* What the debts page calls a balance is what the chat's report shows for the person.
LEMMA DebtsAreOpen ==
  ASSUME NEW t, NEW types
  PROVE  LET view == DebtsView(t, types)
         IN  [p \in DOMAIN view |-> view[p].balance] = ByParty(t, OpenNow(t, types))
<1> DEFINE open == OpenNow(t, types)
           who == {t[i].party : i \in open}
           view == DebtsView(t, types)
<1>1. /\ DOMAIN view = who
      /\ \A p \in who : view[p].balance = OutstandingOf(t, {i \in open : t[i].party = p})
  BY DEF DebtsView
<1>2. ByParty(t, open) = [p \in who |-> OutstandingOf(t, {i \in open : t[i].party = p})]
  BY DEF ByParty
<1> HIDE DEF open, who, view
<1>3. [p \in DOMAIN view |-> view[p].balance] = ByParty(t, open)
  BY <1>1, <1>2
<1> QED BY <1>3 DEF open, view

\* Nothing adds up to nothing.
LEMMA NothingOutstanding == ASSUME NEW t PROVE OutstandingOf(t, {}) = 0
  BY SumOfNothing DEF OutstandingOf

\* What the people page says a person owes, or is owed.
LEMMA PeopleAreOwed ==
  ASSUME NEW t, NEW a, Committed(t, a), NEW p \in DOMAIN PeopleView(t)
  PROVE  /\ PeopleView(t)[p].owesYou = OutstandingOf(t, Owed(t, Receivable, p))
         /\ PeopleView(t)[p].youOwe = OutstandingOf(t, Owed(t, Payable, p))
<1> DEFINE of == {i \in Ids : Live(t, i) /\ t[i].party = p}
           owed(types) == {i \in of : IsComplete(t[i]) /\ t[i].out # 0 /\ t[i].type \in types}
<1>1. /\ PeopleView(t)[p].owesYou = OutstandingOf(t, owed(Receivable))
      /\ PeopleView(t)[p].youOwe = OutstandingOf(t, owed(Payable))
  BY DEF PeopleView
<1>2. owed(Receivable) = Owed(t, Receivable, p) /\ owed(Payable) = Owed(t, Payable, p)
  BY NotNilIsOpen
<1> QED BY <1>1, <1>2

\* Every view of one committed ledger gives the same totals.
LEMMA CommittedViewsAgree ==
  ASSUME NEW t, NEW a, Committed(t, a)
  PROVE  ViewsAgree(t)
<1> DEFINE receivables == OpenReport(t, Receivable, FirstDate, LastDate)
           payables == OpenReport(t, Payable, FirstDate, LastDate)
           debts(types) == LET view == DebtsView(t, types) IN [p \in DOMAIN view |-> view[p].balance]
           people == PeopleView(t)
           debtors == Debtors(t)
<1>1. /\ receivables.people = ByParty(t, OpenNow(t, Receivable))
      /\ payables.people = ByParty(t, OpenNow(t, Payable))
  BY OpenWithoutDates DEF OpenReport
<1>2. receivables.people = debts(Receivable) /\ payables.people = debts(Payable)
  BY <1>1, DebtsAreOpen
<1>3. /\ DOMAIN receivables.people = {t[i].party : i \in OpenNow(t, Receivable)}
      /\ \A p \in DOMAIN receivables.people :
           receivables.people[p] = OutstandingOf(t, Owed(t, Receivable, p))
  BY <1>1 DEF ByParty, Owed
<1>4. ASSUME NEW p \in DOMAIN people
      PROVE  people[p].owesYou = IF p \in DOMAIN receivables.people THEN receivables.people[p] ELSE 0
  <2>1. people[p].owesYou = OutstandingOf(t, Owed(t, Receivable, p))
    BY PeopleAreOwed
  <2>2. p \notin DOMAIN receivables.people => Owed(t, Receivable, p) = {}
    BY <1>3 DEF Owed
  <2> HIDE DEF receivables, people
  <2> QED BY <1>3, <2>1, <2>2, NothingOutstanding
<1> DEFINE named == {i \in OpenNow(t, Receivable) : t[i].party # NoParty}
<1>5. /\ DOMAIN debtors = {t[i].party : i \in named}
      /\ \A p \in DOMAIN debtors : debtors[p].owed = OutstandingOf(t, {i \in named : t[i].party = p})
  BY DEF Debtors
<1>6. DOMAIN debtors = DOMAIN receivables.people \ {NoParty}
  <2> HIDE DEF debtors, receivables
  <2> QED BY <1>3, <1>5
<1>7. ASSUME NEW p \in DOMAIN debtors
      PROVE  debtors[p].owed = people[p].owesYou
  <2>1. PICK i \in named : t[i].party = p
    BY <1>5
  <2>2. i \in Ids /\ Live(t, i) /\ p \in Parties
    BY <2>1 DEF OpenNow, Committed, Row
  <2>3. p \in DOMAIN people
    BY <2>1, <2>2 DEF PeopleView
  <2>4. {j \in named : t[j].party = p} = Owed(t, Receivable, p)
    BY <2>1 DEF Owed
  <2>5. debtors[p].owed = OutstandingOf(t, Owed(t, Receivable, p))
    BY <1>5, <2>4
  <2> QED BY <2>3, <2>5, PeopleAreOwed
<1>8. ASSUME NEW from \in Dates, NEW to \in Dates
      PROVE  LET view == Overview(t, from, to)
                 pnl == PnL(t, from, to)
             IN  /\ view.profit = pnl.profit /\ view.unpaid = pnl.unpaid
                 /\ view.spent = ExpenseReport(t, from, to)
                 /\ view.owedToYou = receivables.people /\ view.youOwe = payables.people
  <2> HIDE DEF receivables, payables
  <2> QED BY <1>1 DEF Overview, PnL, ExpenseReport, TotalOf, UnpaidSales
<1> QED BY <1>2, <1>4, <1>6, <1>7, <1>8 DEF ViewsAgree
-----------------------------------------------------------------------------
(* The lines of a statement. *)

AllLines == Ids \X {1, 2}

\* There are finitely many lines.
LEMMA LinesFinite == IsFiniteSet(AllLines)
<1>1. IsFiniteSet({1, 2})
  <2>1. IsFiniteSet({1} \cup {2})
    BY FS_Singleton, FS_Union
  <2>2. {1} \cup {2} = {1, 2}
    OBVIOUS
  <2> QED BY <2>1, <2>2
<1> QED BY <1>1, IdsFinite, FS_Product DEF AllLines

\* The lines are in one order: by their entries' dates, then as recorded, what an entry charges
\* before what was paid on the spot.
LEMMA LinesAreOrdered ==
  ASSUME NEW t \in [Ids -> Row], NEW l \in AllLines, NEW m \in AllLines, NEW n \in AllLines
  PROVE  /\ ~Before(t, l, l)
         /\ l = m \/ Before(t, l, m) \/ Before(t, m, l)
         /\ Before(t, l, m) => ~Before(t, m, l) /\ t[l[1]].date <= t[m[1]].date
         /\ Before(t, l, m) /\ Before(t, m, n) => Before(t, l, n)
         /\ t[l[1]].date < t[m[1]].date => Before(t, l, m)
<1>1. /\ l[1] \in Ids /\ m[1] \in Ids /\ n[1] \in Ids
      /\ l[2] \in Nat /\ m[2] \in Nat /\ n[2] \in Nat
      /\ l[1] = m[1] /\ l[2] = m[2] => l = m
  BY DEF AllLines
<1>2. \A i \in Ids : i \in Nat /\ t[i].date \in Nat
  <2>1. \A i \in Ids : i \in Nat
    BY DEF Ids
  <2>2. \A i \in Ids : t[i].date \in Dates
    BY DEF Row
  <2> QED BY <2>1, <2>2, DatesAreNumbers
<1>3. PICK d \in Nat, e \in Nat, f \in Nat :
        d = t[l[1]].date /\ e = t[m[1]].date /\ f = t[n[1]].date
  BY <1>1, <1>2
<1>4. PICK i \in Nat, j \in Nat, k \in Nat : i = l[1] /\ j = m[1] /\ k = n[1]
  BY <1>1, <1>2
<1>5. PICK x \in Nat, y \in Nat, z \in Nat : x = l[2] /\ y = m[2] /\ z = n[2]
  BY <1>1
<1>6. (i = j => d = e) /\ (j = k => e = f) /\ (i = k => d = f)
  BY <1>3, <1>4
<1>7. /\ Before(t, l, m) <=> (d < e \/ (d = e /\ i < j) \/ (i = j /\ x < y))
      /\ Before(t, m, l) <=> (e < d \/ (e = d /\ j < i) \/ (j = i /\ y < x))
      /\ Before(t, m, n) <=> (e < f \/ (e = f /\ j < k) \/ (j = k /\ y < z))
      /\ Before(t, l, n) <=> (d < f \/ (d = f /\ i < k) \/ (i = k /\ x < z))
      /\ Before(t, l, l) <=> (d < d \/ (d = d /\ i < i) \/ (i = i /\ x < x))
  BY <1>3, <1>4, <1>5 DEF Before, Older
<1>8. (l = m) \/ (i # j) \/ (x # y)
  BY <1>1, <1>4, <1>5
<1>9. ~Before(t, l, l)
  BY <1>7
<1>10. l = m \/ Before(t, l, m) \/ Before(t, m, l)
  <2>1. (i # j \/ x # y) => Before(t, l, m) \/ Before(t, m, l)
    BY <1>6, <1>7
  <2> QED BY <1>8, <2>1
<1>11. (Before(t, l, m) => ~Before(t, m, l) /\ d <= e) /\ (d < e => Before(t, l, m))
  BY <1>6, <1>7
<1>12. Before(t, l, m) /\ Before(t, m, n) => Before(t, l, n)
  BY <1>6, <1>7
<1> QED BY <1>3, <1>9, <1>10, <1>11, <1>12

\* Of any lines there is a last one.
LEMMA LastLineIs ==
  ASSUME NEW t \in [Ids -> Row], NEW X, X \subseteq AllLines, X # {}
  PROVE  LastLine(t, X) \in X /\ \A m \in X \ {LastLine(t, X)} : Before(t, m, LastLine(t, X))
<1> DEFINE after(l) == {m \in X : l = m \/ Before(t, l, m)}
           T == {after(l) : l \in X}
<1>1. PICK u \in T : \A v \in T : v \subseteq u => v = u
  <2>1. T \subseteq SUBSET X /\ T # {}
    OBVIOUS
  <2>2. IsFiniteSet(X)
    BY LinesFinite, FS_Subset
  <2> HIDE DEF T
  <2> QED BY <2>1, <2>2, MinimalSubset
<1>2. PICK l \in X : u = after(l)
  BY <1>1
<1>3. ASSUME NEW m \in X, m # l
      PROVE  Before(t, m, l)
  <2> SUFFICES ASSUME ~Before(t, m, l) PROVE FALSE
    OBVIOUS
  <2>1. l \in AllLines /\ m \in AllLines
    OBVIOUS
  <2>2. Before(t, l, m) /\ ~Before(t, m, l)
    BY <1>3, <2>1, LinesAreOrdered
  <2>3. after(m) \subseteq after(l)
    <3> SUFFICES ASSUME NEW n \in X, m = n \/ Before(t, m, n)
                 PROVE  Before(t, l, n)
      OBVIOUS
    <3>1. n \in AllLines
      OBVIOUS
    <3> QED BY <2>1, <2>2, <3>1, LinesAreOrdered
  <2>4. l \in after(l) /\ l \notin after(m)
    BY <1>3, <2>2
  <2> QED BY <1>1, <1>2, <2>3, <2>4
<1> HIDE DEF after, T
<1>4. \E x \in X : \A m \in X \ {x} : Before(t, m, x)
  BY <1>3
<1> QED BY <1>4 DEF LastLine

\* The lines up to the last of some lines are all of them, when the lines before any of them are.
LEMMA UpToTheLast ==
  ASSUME NEW t \in [Ids -> Row], NEW S, S \subseteq AllLines, NEW X, X \subseteq S, X # {},
         \A l \in S, m \in X : Before(t, l, m) => l \in X
  PROVE  {m \in S : m = LastLine(t, X) \/ Before(t, m, LastLine(t, X))} = X
<1>1. LastLine(t, X) \in X /\ \A m \in X \ {LastLine(t, X)} : Before(t, m, LastLine(t, X))
  BY LastLineIs
<1> QED BY <1>1
-----------------------------------------------------------------------------
(* One statement after another. *)

\* What a line charges does not depend on the statement it is on: the part paid on the spot is
\* what is left when every repayment is taken off, whenever it was made.
LEMMA LinesOnEveryStatement ==
  ASSUME NEW t, NEW a, Committed(t, a), NEW to
  PROVE  /\ EntryLines(t, a, to) = EntryLines(t, a, LastDate)
         /\ \A i \in Ids : Upfront(t, a, i, to) = Upfront(t, a, i, LastDate) /\ Upfront(t, a, i, to) \in Nat
         /\ \A l \in AllLines : EntryLines(t, a, to)[l] \in Int
<1>1. \A i \in Ids : Upfront(t, a, i, to) = IF IsRepayment(t[i]) THEN 0 ELSE PositivePart(t[i].paid - PaidInto(a, i))
  BY DEF Upfront, Allocated, PaidInto
<1>2. \A i \in Ids : PaidInto(a, i) \in Nat /\ t[i].paid \in Int /\ t[i].amount \in Int
  <2>1. a \in AllocationTable /\ \A i \in Ids : t[i] \in Row
    BY DEF Committed
  <2>2. \A i \in Ids : PaidInto(a, i) \in Nat
    BY <2>1, SumsOverIds
  <2> QED BY <2>1, <2>2 DEF Row
<1>3. \A i \in Ids : Upfront(t, a, i, to) \in Nat
  BY <1>1, <1>2
<1>4. EntryLines(t, a, to) = EntryLines(t, a, LastDate)
  BY DEF EntryLines, Upfront, Allocated
<1>5. \A i \in Ids : Upfront(t, a, i, to) = Upfront(t, a, i, LastDate)
  BY DEF Upfront, Allocated
<1>6. ASSUME NEW l \in AllLines
      PROVE  EntryLines(t, a, to)[l] \in Int
  <2>1. l[1] \in Ids /\ l \in Ids \X {1, 2}
    BY DEF AllLines
  <2>2. PICK charged, spot : charged = t[l[1]].amount /\ spot = Upfront(t, a, l[1], to)
    OBVIOUS
  <2>3. charged \in Int /\ spot \in Int
    BY <1>2, <1>3, <2>1, <2>2
  <2>4. \/ EntryLines(t, a, to)[l] = IF l[2] = 1 THEN charged ELSE spot
        \/ EntryLines(t, a, to)[l] = 0 - (IF l[2] = 1 THEN charged ELSE spot)
    BY <2>1, <2>2 DEF EntryLines
  <2> QED BY <2>3, <2>4
<1> QED BY <1>3, <1>4, <1>5, <1>6

\* The lines of a statement up to a day are the lines before the next on a statement of all.
LEMMA LinesUpTo ==
  ASSUME NEW t, NEW a, Committed(t, a), NEW p, NEW day \in Dates
  PROVE  Lines(t, a, p, day) = {l \in Lines(t, a, p, LastDate) : t[l[1]].date < day + 1}
<1>1. \A i \in Ids : /\ t[i].date \in Nat /\ t[i].date <= LastDate /\ day \in Nat
                     /\ Upfront(t, a, i, day) = Upfront(t, a, i, LastDate)
  <2>1. \A i \in Ids : t[i].date \in Dates
    BY DEF Committed, Row
  <2> QED BY <2>1, DatesAreNumbers, DatesBetween, LinesOnEveryStatement
<1>2. \A i \in Ids : t[i].date <= day <=> t[i].date < day + 1
  BY <1>1
<1>3. \A i \in Ids : i \in Dealings(t, p, day) <=> i \in Dealings(t, p, LastDate) /\ t[i].date < day + 1
  BY <1>1, <1>2 DEF Dealings
<1>4. \A l \in Ids \X {1, 2} : l[1] \in Ids
  OBVIOUS
<1> QED BY <1>1, <1>3, <1>4 DEF Lines

\* A statement from a day on brings forward what the one up to the day before closes with.
LEMMA StatementBringsForward ==
  ASSUME NEW t, NEW a, Committed(t, a), NEW p, NEW day \in Dates
  PROVE  Statement(t, a, p, day + 1, LastDate).opening = Statement(t, a, p, FirstDate, day).closing
<1> DEFINE all == Lines(t, a, p, LastDate)
           earlier == {l \in all : t[l[1]].date < day + 1}
           after(l) == Balance(t, a, {m \in all : m = l \/ Before(t, m, l)}, LastDate)
<1>1. Statement(t, a, p, day + 1, LastDate).opening = IF earlier = {} THEN 0 ELSE after(LastLine(t, earlier))
  BY DEF Statement
<1>2. Statement(t, a, p, FirstDate, day).closing = Balance(t, a, Lines(t, a, p, day), day)
  BY DEF Statement
<1>3. Balance(t, a, Lines(t, a, p, day), day) = Balance(t, a, earlier, LastDate)
  BY LinesUpTo, LinesOnEveryStatement DEF Balance
<1>4. CASE earlier = {}
  <2>1. Balance(t, a, {}, LastDate) = 0
    BY SumOfNothing DEF Balance
  <2> HIDE DEF earlier
  <2> QED BY <1>1, <1>2, <1>3, <1>4, <2>1
<1>5. CASE earlier # {}
  <2>1. all \subseteq AllLines /\ earlier \subseteq all /\ t \in [Ids -> Row]
    BY DEF Lines, AllLines, Committed
  <2>2. ASSUME NEW l \in all, NEW m \in earlier, Before(t, l, m)
        PROVE  l \in earlier
    <3>1. l \in AllLines /\ m \in AllLines
      BY <2>1
    <3>2. t[l[1]].date <= t[m[1]].date /\ t[m[1]].date < day + 1
      BY <2>1, <2>2, <3>1, LinesAreOrdered
    <3>3. t[l[1]].date \in Nat /\ t[m[1]].date \in Nat /\ day \in Nat
      <4>1. l[1] \in Ids /\ m[1] \in Ids
        BY <3>1 DEF AllLines
      <4> QED BY <2>1, <4>1, DatesAreNumbers DEF Row
    <3> QED BY <3>2, <3>3
  <2> HIDE DEF all, earlier
  <2>3. {m \in all : m = LastLine(t, earlier) \/ Before(t, m, LastLine(t, earlier))} = earlier
    BY <1>5, <2>1, <2>2, UpToTheLast
  <2> QED BY <1>1, <1>2, <1>3, <1>5, <2>3
<1> QED BY <1>4, <1>5

\* The last lines of a statement, and what is brought forward to them, make up its closing balance.
LEMMA ShortTextContinues ==
  ASSUME NEW t, NEW a, Committed(t, a), NEW p, NEW day \in Dates, NEW shown \in Nat
  PROVE  LET next == Statement(t, a, p, day + 1, LastDate)
             amounts == [l \in DOMAIN next.lines |-> next.lines[l].amount]
         IN  next.closing = BroughtForward(t, next, shown)
                              + SumFunctionOnSet(amounts, Visible(t, next, shown))
<1> DEFINE all == Lines(t, a, p, LastDate)
           earlier == {l \in all : t[l[1]].date < day + 1}
           upTo(l) == {m \in all : m = l \/ Before(t, m, l)}
           next == Statement(t, a, p, day + 1, LastDate)
           amounts == [l \in DOMAIN next.lines |-> next.lines[l].amount]
           visible == Visible(t, next, shown)
           hidden == (all \ earlier) \ visible
           amount == EntryLines(t, a, LastDate)
<1>1. /\ DOMAIN next.lines = all \ earlier
      /\ next.closing = SumFunctionOnSet(amount, all)
      /\ \A l \in all \ earlier : /\ next.lines[l].amount = amount[l]
                                  /\ next.lines[l].balance = SumFunctionOnSet(amount, upTo(l))
      /\ next.opening = IF earlier = {} THEN 0 ELSE SumFunctionOnSet(amount, upTo(LastLine(t, earlier)))
  BY DEF Statement, Balance
<1>2. /\ visible = {l \in all \ earlier : Cardinality({m \in all \ earlier : Before(t, l, m)}) < shown}
      /\ BroughtForward(t, next, shown) = IF hidden = {} THEN next.opening ELSE next.lines[LastLine(t, hidden)].balance
  <2> HIDE DEF next
  <2> QED BY <1>1 DEF Visible, BroughtForward
<1>3. /\ all \subseteq AllLines /\ earlier \subseteq all /\ t \in [Ids -> Row] /\ visible \subseteq all \ earlier
      /\ \A l \in AllLines : amount[l] \in Int
  <2>1. all \subseteq AllLines /\ earlier \subseteq all /\ t \in [Ids -> Row]
    BY DEF Lines, AllLines, Committed
  <2>2. visible \subseteq all \ earlier
    BY <1>2
  <2> QED BY <2>1, <2>2, LinesOnEveryStatement
<1>4. \A l, m \in AllLines : t[l[1]].date \in Nat /\ t[m[1]].date \in Nat /\ day \in Nat
  <2>1. \A l \in AllLines : l[1] \in Ids
    BY DEF AllLines
  <2> QED BY <1>3, <2>1, DatesAreNumbers DEF Row
<1>5. ASSUME NEW l \in all, NEW m \in earlier, Before(t, l, m)
      PROVE  l \in earlier
  <2>1. l \in AllLines /\ m \in AllLines
    BY <1>3
  <2>2. t[l[1]].date <= t[m[1]].date /\ t[m[1]].date < day + 1
    BY <1>3, <1>5, <2>1, LinesAreOrdered
  <2> QED BY <1>4, <2>1, <2>2
<1>6. ASSUME NEW l \in earlier, NEW m \in all \ earlier
      PROVE  Before(t, l, m)
  <2>1. l \in AllLines /\ m \in AllLines
    BY <1>3
  <2>2. t[l[1]].date < t[m[1]].date
    BY <1>4, <2>1
  <2> QED BY <1>3, <2>1, <2>2, LinesAreOrdered
<1>7. ASSUME NEW l \in all \ earlier, NEW m \in hidden, Before(t, l, m)
      PROVE  l \in hidden
  <2> DEFINE later(x) == {y \in all \ earlier : Before(t, x, y)}
  <2>1. later(m) \subseteq later(l)
    <3> SUFFICES ASSUME NEW n \in all \ earlier, Before(t, m, n)
                 PROVE  Before(t, l, n)
      OBVIOUS
    <3>1. l \in AllLines /\ m \in AllLines /\ n \in AllLines
      BY <1>3
    <3> QED BY <1>3, <1>7, <3>1, LinesAreOrdered
  <2>2. IsFiniteSet(later(l))
    <3>1. later(l) \subseteq AllLines
      BY <1>3
    <3> HIDE DEF later
    <3> QED BY <3>1, LinesFinite, FS_Subset
  <2>3. /\ Cardinality(later(l)) \in Nat /\ Cardinality(later(m)) \in Nat
        /\ Cardinality(later(m)) <= Cardinality(later(l))
    <3> HIDE DEF later
    <3> QED BY <2>1, <2>2, FS_Subset, FS_CardinalityType
  <2>4. ~(Cardinality(later(m)) < shown)
    BY <1>2
  <2>5. ~(Cardinality(later(l)) < shown)
    <3> HIDE DEF later
    <3> QED BY <2>3, <2>4
  <2> QED BY <1>2, <2>5
<1> HIDE DEF all, earlier, next, visible, hidden, amount
<1>8. IsFiniteSet(all)
  BY <1>3, LinesFinite, FS_Subset
<1>9. SumFunctionOnSet(amounts, visible) = SumFunctionOnSet(amount, visible)
  <2>1. \A l \in visible : amounts[l] = amount[l]
    BY <1>1, <1>3
  <2>2. IsFiniteSet(visible)
    BY <1>3, <1>8, FS_Subset
  <2> HIDE DEF amounts
  <2> QED BY <2>1, <2>2, SumOfSame
<1>10. BroughtForward(t, next, shown) = SumFunctionOnSet(amount, all \ visible)
  <2>1. CASE hidden = {} /\ earlier = {}
    <3>1. all \ visible = {}
      BY <1>3, <2>1 DEF hidden
    <3> QED BY <1>1, <1>2, <2>1, <3>1, SumOfNothing
  <2>2. CASE hidden = {} /\ earlier # {}
    <3>1. upTo(LastLine(t, earlier)) = earlier
      BY <1>3, <1>5, <2>2, UpToTheLast
    <3>2. all \ visible = earlier
      BY <1>3, <2>2 DEF hidden
    <3> QED BY <1>1, <1>2, <2>2, <3>1, <3>2
  <2>3. CASE hidden # {}
    <3>1. hidden \subseteq all \ earlier /\ all \ visible = earlier \cup hidden
      BY <1>3 DEF hidden
    <3>2. PICK last : last = LastLine(t, hidden)
      OBVIOUS
    <3>3. last \in hidden /\ \A m \in hidden \ {last} : Before(t, m, last)
      BY <1>3, <2>3, <3>1, <3>2, LastLineIs
    <3>4. upTo(last) = all \ visible
      <4>1. \A m \in all : m \in earlier \cup hidden => m = last \/ Before(t, m, last)
        BY <1>6, <3>1, <3>3
      <4>2. \A m \in all : m = last \/ Before(t, m, last) => m \in earlier \cup hidden
        BY <1>7, <3>1, <3>3
      <4> QED BY <1>3, <3>1, <4>1, <4>2
    <3>5. next.lines[last].balance = SumFunctionOnSet(amount, upTo(last))
      BY <1>1, <3>1, <3>3
    <3> QED BY <1>2, <2>3, <3>2, <3>4, <3>5
  <2> QED BY <2>1, <2>2, <2>3
<1>11. SumFunctionOnSet(amount, all) = SumFunctionOnSet(amount, all \ visible) + SumFunctionOnSet(amount, visible)
  <2>1. PICK P, Q : P = all \ visible /\ Q = visible
    OBVIOUS
  <2>2. P \cup Q = all /\ P \cap Q = {} /\ \A l \in P \cup Q : amount[l] \in Int
    BY <1>3, <2>1
  <2>3. SumFunctionOnSet(amount, P \cup Q) = SumFunctionOnSet(amount, P) + SumFunctionOnSet(amount, Q)
    BY <1>8, <2>2, SumOfTwoParts
  <2> QED BY <2>1, <2>2, <2>3
<1>12. next.closing = BroughtForward(t, next, shown) + SumFunctionOnSet(amounts, visible)
  BY <1>1, <1>9, <1>10, <1>11
<1> QED BY <1>12 DEF next, visible

\* The statements of one committed ledger tell one story.
LEMMA CommittedStatementsContinue ==
  ASSUME NEW t, NEW a, Committed(t, a)
  PROVE  StatementsContinue(t, a)
<1> SUFFICES ASSUME NEW p, NEW day \in Dates
             PROVE  LET next == Statement(t, a, p, day + 1, LastDate)
                        amounts == [l \in DOMAIN next.lines |-> next.lines[l].amount]
                    IN  /\ next.opening = Statement(t, a, p, FirstDate, day).closing
                        /\ \A shown \in 1 .. MaxRows :
                             next.closing = BroughtForward(t, next, shown)
                                              + SumFunctionOnSet(amounts, Visible(t, next, shown))
  BY DEF StatementsContinue
<1>1. \A shown \in 1 .. MaxRows : shown \in Nat
  OBVIOUS
<1> QED BY <1>1, StatementBringsForward, ShortTextContinues
-----------------------------------------------------------------------------
(* What was repaid, by those who paid and by what it paid. *)

\* When repayments of some rows, and of no other, settle some debts, and no other, what was paid
\* into those debts is what those repayments settled.
LEMMA SettledIsPaidIn ==
  ASSUME NEW a \in AllocationTable, NEW R \in SUBSET Ids, NEW D \in SUBSET Ids,
         \A r, d \in Ids : a[r][d] > 0 => (r \in R <=> d \in D)
  PROVE  SumFunctionOnSet([r \in Ids |-> Settled(a, r)], R) = SumFunctionOnSet([d \in Ids |-> PaidInto(a, d)], D)
<1> DEFINE row == [r \in R |-> SumFunctionOnSet(a[r], D)]
           into(d) == [r \in R |-> a[r][d]]
           column == [d \in D |-> SumFunctionOnSet(into(d), R)]
           settled == [r \in Ids |-> Settled(a, r)]
           paid == [d \in Ids |-> PaidInto(a, d)]
<1>1. \A r, d \in Ids : a[r][d] \in Nat
  BY DEF AllocationTable
<1>2. IsFiniteSet(R) /\ IsFiniteSet(D) /\ IsFiniteSet(Ids) /\ R \subseteq Ids /\ D \subseteq Ids
  BY IdsFinite, FS_Subset
<1>3. SumFunctionOnSet(row, R) = SumFunctionOnSet(column, D)
  <2>1. \A r \in R, d \in D : a[r][d] \in Int
    BY <1>1, <1>2
  <2> QED BY <1>2, <2>1, SumsExchange
<1>4. ASSUME NEW r \in R
      PROVE  settled[r] = row[r]
  <2>1. (\A d \in D : a[r][d] \in Int) /\ \A d \in Ids \ D : a[r][d] = 0
    BY <1>1, <1>2
  <2>2. PICK f : f = a[r]
    OBVIOUS
  <2>3. SumFunctionOnSet(f, Ids) = SumFunctionOnSet(f, D)
    BY <1>2, <2>1, <2>2, SumOfPart
  <2>4. Settled(a, r) = SumFunctionOnSet(a[r], Ids)
    BY <1>2, SumsOverIds
  <2>5. settled[r] = Settled(a, r) /\ row[r] = SumFunctionOnSet(a[r], D)
    BY <1>2
  <2> QED BY <2>2, <2>3, <2>4, <2>5
<1>5. ASSUME NEW d \in D
      PROVE  paid[d] = column[d]
  <2> DEFINE f == [r \in Ids |-> a[r][d]]
             g == into(d)
  <2>1. PaidInto(a, d) = SumFunctionOnSet(f, Ids)
    BY <1>2, SumsOverIds
  <2>2. \A r \in R : f[r] \in Int /\ f[r] = g[r]
    BY <1>1, <1>2
  <2>3. \A r \in Ids \ R : f[r] = 0
    BY <1>1, <1>2
  <2>4. paid[d] = PaidInto(a, d) /\ column[d] = SumFunctionOnSet(g, R)
    BY <1>2
  <2> HIDE DEF f, g, into, column, paid
  <2>5. SumFunctionOnSet(f, Ids) = SumFunctionOnSet(f, R)
    BY <1>2, <2>2, <2>3, SumOfPart
  <2>6. SumFunctionOnSet(f, R) = SumFunctionOnSet(g, R)
    BY <1>2, <2>2, SumOfSame
  <2> QED BY <2>1, <2>4, <2>5, <2>6
<1> HIDE DEF row, column, settled, paid
<1>6. SumFunctionOnSet(settled, R) = SumFunctionOnSet(row, R) /\ SumFunctionOnSet(paid, D) = SumFunctionOnSet(column, D)
  BY <1>2, <1>4, <1>5, SumOfSame
<1>7. SumFunctionOnSet(settled, R) = SumFunctionOnSet(paid, D)
  BY <1>3, <1>6
<1> QED BY <1>7 DEF settled, paid

\* A person's complete entries of some types.
Mine(t, p, types) == {i \in Ids : Live(t, i) /\ IsComplete(t[i]) /\ t[i].party = p /\ t[i].type \in types}
Repaid(t, p, direction) == {i \in Mine(t, p, {"debt_repayment"}) : t[i].direction = direction}

\* What was paid into a person's debts on one side is what their repayments of that direction settled.
LEMMA RepaidIsPaidIn ==
  ASSUME NEW t, NEW a, Committed(t, a), NEW p \in Parties,
         NEW types, NEW direction, <<types, direction>> \in {<<Receivable, "in">>, <<Payable, "out">>}
  PROVE  SumFunctionOnSet([r \in Ids |-> Settled(a, r)], Repaid(t, p, direction))
           = SumFunctionOnSet([d \in Ids |-> PaidInto(a, d)], Mine(t, p, types))
<1>1. \/ types = Receivable /\ direction = "in"
      \/ types = Payable /\ direction = "out"
  OBVIOUS
<1>2. ASSUME NEW r \in Ids, NEW d \in Ids, a[r][d] > 0
      PROVE  r \in Repaid(t, p, direction) <=> d \in Mine(t, p, types)
  <2>1. /\ Live(t, r) /\ Live(t, d) /\ IsComplete(t[r]) /\ IsComplete(t[d])
        /\ IsRepayment(t[r]) /\ t[d].party = t[r].party
        /\ t[d].type \in SettleableByDirection[t[r].direction]
    BY <1>2 DEF Committed, MatchingIn, Settles
  <2>2. t[r].direction \in {"in", "out"}
    BY DEF Committed, Row, Directions
  <2>3. t[r].direction = direction <=> t[d].type \in types
    BY <1>1, <2>1, <2>2 DEF SettleableByDirection, Receivable, Payable
  <2> QED BY <2>1, <2>3 DEF Repaid, Mine
<1>3. a \in AllocationTable /\ Repaid(t, p, direction) \in SUBSET Ids /\ Mine(t, p, types) \in SUBSET Ids
  BY DEF Committed, Repaid, Mine
<1> QED BY <1>2, <1>3, SettledIsPaidIn
-----------------------------------------------------------------------------
(* What a statement adds up to. *)

\* A person's entries are receivables, payables and repayments either way.
LEMMA MineInFour ==
  ASSUME NEW t, NEW a, Committed(t, a), NEW p, NEW f, \A i \in Ids : f[i] \in Int
  PROVE  SumFunctionOnSet(f, Mine(t, p, Types)) =
           SumFunctionOnSet(f, Mine(t, p, Receivable)) + SumFunctionOnSet(f, Mine(t, p, Payable))
             + SumFunctionOnSet(f, Repaid(t, p, "in")) + SumFunctionOnSet(f, Repaid(t, p, "out"))
<1>1. \A i \in Ids : t[i].type \in Types /\ t[i].direction \in {"in", "out"}
  BY DEF Committed, Row, Directions
<1>2. PICK R, P, I, O : /\ R = Mine(t, p, Receivable) /\ P = Mine(t, p, Payable)
                        /\ I = Repaid(t, p, "in") /\ O = Repaid(t, p, "out")
  OBVIOUS
<1>3. /\ Mine(t, p, Types) = ((R \cup P) \cup I) \cup O
      /\ R \cap P = {} /\ (R \cup P) \cap I = {} /\ ((R \cup P) \cup I) \cap O = {}
      /\ R \subseteq Ids /\ P \subseteq Ids /\ I \subseteq Ids /\ O \subseteq Ids
  BY <1>1, <1>2 DEF Mine, Repaid, Types, Receivable, Payable
<1>4. /\ IsFiniteSet(R \cup P) /\ IsFiniteSet((R \cup P) \cup I) /\ IsFiniteSet(((R \cup P) \cup I) \cup O)
      /\ IsFiniteSet(R) /\ IsFiniteSet(P) /\ IsFiniteSet(I) /\ IsFiniteSet(O)
  <2>1. IsFiniteSet(R) /\ IsFiniteSet(P) /\ IsFiniteSet(I) /\ IsFiniteSet(O)
    BY <1>3, IdsFinite, FS_Subset
  <2> QED BY <2>1, FS_Union
<1>5. \A i \in ((R \cup P) \cup I) \cup O : f[i] \in Int
  BY <1>3
<1>6. SumFunctionOnSet(f, R \cup P) = SumFunctionOnSet(f, R) + SumFunctionOnSet(f, P)
  BY <1>3, <1>4, <1>5, SumOfTwoParts
<1>7. SumFunctionOnSet(f, (R \cup P) \cup I) = SumFunctionOnSet(f, R \cup P) + SumFunctionOnSet(f, I)
  BY <1>3, <1>4, <1>5, SumOfTwoParts
<1>8. SumFunctionOnSet(f, ((R \cup P) \cup I) \cup O) = SumFunctionOnSet(f, (R \cup P) \cup I) + SumFunctionOnSet(f, O)
  BY <1>3, <1>4, <1>5, SumOfTwoParts
<1> QED BY <1>2, <1>3, <1>6, <1>7, <1>8

\* What an entry adds to the statement: what it charges and what was paid of it on the spot.
Adding(t, a) ==
  [i \in Ids |-> EntryLines(t, a, LastDate)[<<i, 1>>] + EntryLines(t, a, LastDate)[<<i, 2>>]]

\* The statement of everything closes with what the person's entries add.
LEMMA ClosingIsOfEntries ==
  ASSUME NEW t, NEW a, Committed(t, a), NEW p
  PROVE  Statement(t, a, p, FirstDate, LastDate).closing = SumFunctionOnSet(Adding(t, a), Mine(t, p, Types))
<1> DEFINE amount == EntryLines(t, a, LastDate)
           lines == Lines(t, a, p, LastDate)
           M == Mine(t, p, Types)
           charges == M \X {1}
           spots == M \X {2}
           charged == [i \in Ids |-> amount[<<i, 1>>]]
           spot == [i \in Ids |-> amount[<<i, 2>>]]
<1>1. Statement(t, a, p, FirstDate, LastDate).closing = SumFunctionOnSet(amount, lines)
  BY DEF Statement, Balance
<1>2. M \subseteq Ids /\ IsFiniteSet(M) /\ \A l \in AllLines : amount[l] \in Int
  <2>1. M \subseteq Ids
    BY DEF Mine
  <2> QED BY <2>1, IdsFinite, FS_Subset, LinesOnEveryStatement
<1>3. /\ charges \subseteq AllLines /\ spots \subseteq AllLines /\ charges \cap spots = {}
      /\ \A i \in Ids : <<i, 1>> \in AllLines /\ <<i, 2>> \in AllLines
  BY <1>2 DEF AllLines
<1>4. \A i \in Ids : i \in Dealings(t, p, LastDate) /\ IsComplete(t[i]) <=> i \in M
  <2>1. \A i \in Ids : t[i].date <= LastDate /\ t[i].type \in Types
    <3>1. \A i \in Ids : t[i].date \in Dates /\ t[i].type \in Types
      BY DEF Committed, Row
    <3> QED BY <3>1, DatesBetween
  <2> QED BY <2>1 DEF Dealings, Mine
<1>5. lines \subseteq charges \cup spots
  <2> SUFFICES ASSUME NEW l \in lines PROVE l \in charges \cup spots
    OBVIOUS
  <2>1. l \in Ids \X {1, 2} /\ l[1] \in M
    BY <1>4 DEF Lines
  <2>2. l = <<l[1], 1>> \/ l = <<l[1], 2>>
    BY <2>1
  <2> QED BY <2>1, <2>2
<1>6. ASSUME NEW l \in (charges \cup spots) \ lines
      PROVE  amount[l] = 0
  <2>1. PICK i \in M : l = <<i, 1>> \/ l = <<i, 2>>
    OBVIOUS
  <2>2. l \in Ids \X {1, 2} /\ l[1] = i /\ i \in Ids /\ i \in Dealings(t, p, LastDate) /\ IsComplete(t[i])
    BY <1>2, <1>4, <2>1
  <2>3. l[2] # 1 /\ ~(Upfront(t, a, i, LastDate) > 0)
    BY <2>2 DEF Lines
  <2>4. Upfront(t, a, i, LastDate) = 0
    BY <2>2, <2>3, LinesOnEveryStatement
  <2>5. amount[l] = Upfront(t, a, i, LastDate) \/ amount[l] = 0 - Upfront(t, a, i, LastDate)
    BY <2>2, <2>3 DEF EntryLines
  <2> QED BY <2>4, <2>5
<1> HIDE DEF amount, lines
<1>7. IsFiniteSet(charges \cup spots) /\ \A l \in charges \cup spots : amount[l] \in Int
  <2>1. charges \cup spots \subseteq AllLines
    BY <1>3
  <2> HIDE DEF charges, spots
  <2> QED BY <1>2, <2>1, LinesFinite, FS_Subset
<1>8. SumFunctionOnSet(amount, charges) = SumFunctionOnSet(charged, M)
  <2> DEFINE line == [i \in M |-> <<i, 1>>]
  <2>1. charges = {line[i] : i \in M}
    OBVIOUS
  <2>2. \A i \in M : amount[line[i]] \in Int /\ charged[i] = amount[line[i]]
    BY <1>2, <1>3
  <2>3. \A i, j \in M : line[i] = line[j] => i = j
    OBVIOUS
  <2> HIDE DEF charged, charges, line, M
  <2>4. SumFunctionOnSet(amount, {line[i] : i \in M}) = SumFunctionOnSet(charged, M)
    BY <1>2, <2>2, <2>3, SumAlong
  <2> QED BY <2>1, <2>4
<1>9. SumFunctionOnSet(amount, spots) = SumFunctionOnSet(spot, M)
  <2> DEFINE line == [i \in M |-> <<i, 2>>]
  <2>1. spots = {line[i] : i \in M}
    OBVIOUS
  <2>2. \A i \in M : amount[line[i]] \in Int /\ spot[i] = amount[line[i]]
    BY <1>2, <1>3
  <2>3. \A i, j \in M : line[i] = line[j] => i = j
    OBVIOUS
  <2> HIDE DEF spot, spots, line, M
  <2>4. SumFunctionOnSet(amount, {line[i] : i \in M}) = SumFunctionOnSet(spot, M)
    BY <1>2, <2>2, <2>3, SumAlong
  <2> QED BY <2>1, <2>4
<1>10. \A i \in M : charged[i] \in Int /\ spot[i] \in Int /\ Adding(t, a)[i] = charged[i] + spot[i]
  BY <1>2, <1>3 DEF Adding, amount
<1> HIDE DEF charges, spots, charged, spot, M
<1>11. SumFunctionOnSet(amount, charges \cup spots) = SumFunctionOnSet(amount, lines)
  <2>1. \A l \in lines : amount[l] \in Int
    BY <1>5, <1>7
  <2> QED BY <1>5, <1>6, <1>7, <2>1, SumOfPart
<1>12. SumFunctionOnSet(amount, charges \cup spots) = SumFunctionOnSet(amount, charges) + SumFunctionOnSet(amount, spots)
  BY <1>3, <1>7, SumOfTwoParts
<1>13. SumFunctionOnSet(Adding(t, a), M) = SumFunctionOnSet(charged, M) + SumFunctionOnSet(spot, M)
  BY <1>2, <1>10, SumOfAdded
<1> QED BY <1>1, <1>8, <1>9, <1>11, <1>12, <1>13 DEF M

\* What each entry adds, in what is outstanding of it, what was repaid, and what was given beyond.
LEMMA EachEntryAdds ==
  ASSUME NEW t, NEW a, Committed(t, a), NEW p, NEW i \in Ids
  PROVE  LET add == Adding(t, a)[i]
             over == PositivePart(t[i].paid - t[i].amount)
             unplaced == t[i].amount - Settled(a, i)
         IN  /\ add \in Int /\ over \in Int /\ unplaced \in Int
             /\ t[i].out \in Int /\ PaidInto(a, i) \in Nat /\ Settled(a, i) \in Nat
             /\ i \in Mine(t, p, Receivable) => add + over = t[i].out + PaidInto(a, i)
             /\ i \in Mine(t, p, Payable) => t[i].out + PaidInto(a, i) + add = over
             /\ i \in Repaid(t, p, "in") => add + unplaced + Settled(a, i) = 0
             /\ i \in Repaid(t, p, "out") => add = unplaced + Settled(a, i)
             /\ i \in Mine(t, p, Receivable) \cup Mine(t, p, Payable) => t[i].out \in Nat
<1> DEFINE amount == EntryLines(t, a, LastDate)
           spot == Upfront(t, a, i, LastDate)
<1>1. t[i].paid \in Int /\ t[i].amount \in Int /\ t[i].out \in Int
  BY DEF Committed, Row
<1>2. PaidInto(a, i) \in Nat /\ Settled(a, i) \in Nat
  BY SumsOverIds DEF Committed
<1>3. spot \in Nat /\ spot = IF IsRepayment(t[i]) THEN 0 ELSE PositivePart(t[i].paid - PaidInto(a, i))
  BY LinesOnEveryStatement DEF Upfront, Allocated, PaidInto
<1>4. Adding(t, a)[i] = amount[<<i, 1>>] + amount[<<i, 2>>]
  BY DEF Adding
<1> DEFINE lent == t[i].type \in Receivable \/ (IsRepayment(t[i]) /\ t[i].direction = "out")
<1>5. /\ amount[<<i, 1>>] = IF lent THEN t[i].amount ELSE 0 - t[i].amount
      /\ amount[<<i, 2>>] = IF lent THEN 0 - spot ELSE spot
  <2>1. /\ <<i, 1>> \in Ids \X {1, 2} /\ <<i, 1>>[1] = i /\ <<i, 1>>[2] = 1
        /\ <<i, 2>> \in Ids \X {1, 2} /\ <<i, 2>>[1] = i /\ <<i, 2>>[2] = 2
    OBVIOUS
  <2>2. \A l \in Ids \X {1, 2} : l[1] = i =>
          amount[l] = IF lent <=> l[2] = 1 THEN (IF l[2] = 1 THEN t[i].amount ELSE spot)
                                           ELSE 0 - (IF l[2] = 1 THEN t[i].amount ELSE spot)
    BY DEF EntryLines
  <2> HIDE DEF amount, spot, lent
  <2> QED BY <2>1, <2>2
<1>6. Adding(t, a)[i] = IF lent THEN t[i].amount - spot ELSE spot - t[i].amount
  <2> HIDE DEF amount, spot, lent
  <2> QED BY <1>1, <1>3, <1>4, <1>5
<1>7. ASSUME i \in Mine(t, p, Receivable) \cup Mine(t, p, Payable)
      PROVE  /\ t[i].out = PositivePart(t[i].amount - t[i].paid)
             /\ spot = t[i].paid - PaidInto(a, i)
             /\ lent <=> i \in Mine(t, p, Receivable)
             /\ i \in Mine(t, p, Receivable) => i \notin Mine(t, p, Payable)
  <2>1. /\ Live(t, i) /\ IsComplete(t[i]) /\ ~IsRepayment(t[i]) /\ i \in Used(t)
        /\ lent <=> i \in Mine(t, p, Receivable)
        /\ i \in Mine(t, p, Receivable) => i \notin Mine(t, p, Payable)
    BY <1>7 DEF Mine, Receivable, Payable, Used
  <2>2. t[i].out = PositivePart(t[i].amount - t[i].paid)
    BY <2>1 DEF Committed, BalancedIn
  <2>3. t[i].paid - PaidInto(a, i) \in Nat
    BY <2>1 DEF Committed, StatedPaidIn
  <2> QED BY <1>3, <2>1, <2>2, <2>3
<1>8. ASSUME i \in Repaid(t, p, "in") \cup Repaid(t, p, "out")
      PROVE  /\ spot = 0 /\ (lent <=> i \in Repaid(t, p, "out"))
             /\ i \in Repaid(t, p, "in") => i \notin Repaid(t, p, "out")
  <2>1. IsRepayment(t[i]) /\ t[i].direction \in {"in", "out"}
    BY <1>8 DEF Repaid, Mine
  <2> QED BY <1>3, <1>8, <2>1 DEF Repaid, Mine, Receivable
<1>9. PICK add, settled, into, stated, left : /\ add = Adding(t, a)[i] /\ settled = Settled(a, i)
                                              /\ into = PaidInto(a, i) /\ stated = spot /\ left = t[i].out
  OBVIOUS
<1>10. PICK amt, paid : amt = t[i].amount /\ paid = t[i].paid
  OBVIOUS
<1>11. /\ amt \in Int /\ paid \in Int /\ left \in Int /\ into \in Nat /\ settled \in Nat /\ stated \in Nat
       /\ (lent => add = amt - stated) /\ (~lent => add = stated - amt)
  BY <1>1, <1>2, <1>3, <1>6, <1>9, <1>10
<1> HIDE DEF spot, lent, amount
<1>12. i \in Mine(t, p, Receivable) => add + PositivePart(paid - amt) = left + into /\ left \in Nat
  BY <1>7, <1>9, <1>10, <1>11
<1>13. i \in Mine(t, p, Payable) => left + into + add = PositivePart(paid - amt) /\ left \in Nat
  BY <1>7, <1>9, <1>10, <1>11
<1>14. /\ i \in Repaid(t, p, "in") => add + (amt - settled) + settled = 0
       /\ i \in Repaid(t, p, "out") => add = (amt - settled) + settled
  BY <1>8, <1>9, <1>11
<1>15. add \in Int /\ PositivePart(paid - amt) \in Int /\ amt - settled \in Int
  BY <1>11
<1> QED BY <1>9, <1>10, <1>11, <1>12, <1>13, <1>14, <1>15

\* The closing balance of a person's statement of everything is what the ledger says they owe,
\* less what the trader owes them, but for money given in advance.
LEMMA StatementMatches ==
  ASSUME NEW t, NEW a, Committed(t, a), NEW p \in DOMAIN PeopleView(t)
  PROVE  Statement(t, a, p, FirstDate, LastDate).closing =
           PeopleView(t)[p].owesYou - PeopleView(t)[p].youOwe - Advance(t, a, p)
<1> DEFINE add == Adding(t, a)
           out == [i \in Ids |-> t[i].out]
           over == [i \in Ids |-> PositivePart(t[i].paid - t[i].amount)]
           unplaced == [i \in Ids |-> t[i].amount - SumFunction(a[i])]
           settled == [i \in Ids |-> Settled(a, i)]
           paidIn == [i \in Ids |-> PaidInto(a, i)]
           outAndPaid == [i \in Ids |-> out[i] + paidIn[i]]
           both == [i \in Ids |-> unplaced[i] + settled[i]]
           none == [i \in Ids |-> 0]
<1>1. PICK R, P, I, O : /\ R = Mine(t, p, Receivable) /\ P = Mine(t, p, Payable)
                        /\ I = Repaid(t, p, "in") /\ O = Repaid(t, p, "out")
  OBVIOUS
<1>2. /\ R \subseteq Ids /\ P \subseteq Ids /\ I \subseteq Ids /\ O \subseteq Ids
      /\ IsFiniteSet(R) /\ IsFiniteSet(P) /\ IsFiniteSet(I) /\ IsFiniteSet(O)
  <2>1. R \subseteq Ids /\ P \subseteq Ids /\ I \subseteq Ids /\ O \subseteq Ids
    BY <1>1 DEF Mine, Repaid
  <2> QED BY <2>1, IdsFinite, FS_Subset
<1>3. \A i \in Ids : /\ add[i] \in Int /\ out[i] \in Int /\ over[i] \in Int /\ unplaced[i] \in Int
                     /\ settled[i] \in Int /\ paidIn[i] \in Int /\ none[i] \in Int /\ none[i] = 0
                     /\ outAndPaid[i] \in Int /\ outAndPaid[i] = out[i] + paidIn[i]
                     /\ both[i] \in Int /\ both[i] = unplaced[i] + settled[i]
                     /\ i \in R => add[i] + over[i] = outAndPaid[i]
                     /\ i \in P => add[i] + outAndPaid[i] = over[i]
                     /\ i \in I => add[i] + both[i] = 0
                     /\ i \in O => add[i] = both[i]
                     /\ i \in R \cup P => out[i] \in Nat
  <2> SUFFICES ASSUME NEW i \in Ids
               PROVE  /\ add[i] \in Int /\ out[i] \in Int /\ over[i] \in Int /\ unplaced[i] \in Int
                      /\ settled[i] \in Int /\ paidIn[i] \in Int /\ none[i] \in Int /\ none[i] = 0
                      /\ outAndPaid[i] \in Int /\ outAndPaid[i] = out[i] + paidIn[i]
                      /\ both[i] \in Int /\ both[i] = unplaced[i] + settled[i]
                      /\ i \in R => add[i] + over[i] = outAndPaid[i]
                      /\ i \in P => add[i] + outAndPaid[i] = over[i]
                      /\ i \in I => add[i] + both[i] = 0
                      /\ i \in O => add[i] = both[i]
                      /\ i \in R \cup P => out[i] \in Nat
    OBVIOUS
  <2>1. /\ over[i] = PositivePart(t[i].paid - t[i].amount) /\ unplaced[i] = t[i].amount - Settled(a, i)
        /\ out[i] = t[i].out /\ settled[i] = Settled(a, i) /\ paidIn[i] = PaidInto(a, i) /\ none[i] = 0
        /\ outAndPaid[i] = out[i] + paidIn[i] /\ both[i] = unplaced[i] + settled[i]
    BY DEF Settled
  <2> HIDE DEF add, over, out, unplaced, settled, paidIn, none, outAndPaid, both
  <2>2. /\ add[i] \in Int /\ over[i] \in Int /\ unplaced[i] \in Int
        /\ out[i] \in Int /\ paidIn[i] \in Nat /\ settled[i] \in Nat
        /\ i \in R => add[i] + over[i] = out[i] + paidIn[i]
        /\ i \in P => out[i] + paidIn[i] + add[i] = over[i]
        /\ i \in I => add[i] + unplaced[i] + settled[i] = 0
        /\ i \in O => add[i] = unplaced[i] + settled[i]
        /\ i \in R \cup P => out[i] \in Nat
    <3>1. add = Adding(t, a)
      BY DEF add
    <3> QED BY <1>1, <2>1, <3>1, EachEntryAdds
  <2> QED BY <2>1, <2>2
<1>4. Statement(t, a, p, FirstDate, LastDate).closing =
        SumFunctionOnSet(add, R) + SumFunctionOnSet(add, P) + SumFunctionOnSet(add, I) + SumFunctionOnSet(add, O)
  <2>1. \A i \in Ids : add[i] \in Int
    BY <1>3
  <2>2. SumFunctionOnSet(add, Mine(t, p, Types)) =
          SumFunctionOnSet(add, R) + SumFunctionOnSet(add, P) + SumFunctionOnSet(add, I) + SumFunctionOnSet(add, O)
    BY <1>1, <2>1, MineInFour
  <2> QED BY <2>2, ClosingIsOfEntries
<1>5. /\ PeopleView(t)[p].owesYou = SumFunctionOnSet(out, R)
      /\ PeopleView(t)[p].youOwe = SumFunctionOnSet(out, P)
  <2>1. Owed(t, Receivable, p) = {i \in R : out[i] > 0} /\ Owed(t, Payable, p) = {i \in P : out[i] > 0}
    BY <1>1 DEF Owed, OpenNow, Mine
  <2>2. PICK X, Y : X = {i \in R : out[i] > 0} /\ Y = {i \in P : out[i] > 0}
    OBVIOUS
  <2>3. OutstandingOf(t, X) = SumFunctionOnSet(out, X) /\ OutstandingOf(t, Y) = SumFunctionOnSet(out, Y)
    BY DEF OutstandingOf
  <2> HIDE DEF out
  <2>4. SumFunctionOnSet(out, X) = SumFunctionOnSet(out, R)
    <3>1. X \subseteq R /\ (\A i \in X : out[i] \in Int) /\ \A i \in R \ X : out[i] = 0
      BY <1>2, <1>3, <2>2
    <3> QED BY <1>2, <3>1, SumOfPart
  <2>5. SumFunctionOnSet(out, Y) = SumFunctionOnSet(out, P)
    <3>1. Y \subseteq P /\ (\A i \in Y : out[i] \in Int) /\ \A i \in P \ Y : out[i] = 0
      BY <1>2, <1>3, <2>2
    <3> QED BY <1>2, <3>1, SumOfPart
  <2> QED BY <2>1, <2>2, <2>3, <2>4, <2>5, PeopleAreOwed
<1>6. Advance(t, a, p) = SumFunctionOnSet(unplaced, I) - SumFunctionOnSet(unplaced, O)
                           + SumFunctionOnSet(over, R) - SumFunctionOnSet(over, P)
  BY <1>1 DEF Advance, Mine, Repaid
<1>7. /\ SumFunctionOnSet(settled, I) = SumFunctionOnSet(paidIn, R)
      /\ SumFunctionOnSet(settled, O) = SumFunctionOnSet(paidIn, P)
  <2>1. p \in Parties
    BY DEF PeopleView
  <2> QED BY <1>1, <2>1, RepaidIsPaidIn
<1> HIDE DEF add, out, over, unplaced, settled, paidIn, outAndPaid, both, none
<1>8. SumFunctionOnSet(add, R) + SumFunctionOnSet(over, R) = SumFunctionOnSet(out, R) + SumFunctionOnSet(paidIn, R)
  <2>1. \A i \in R : /\ add[i] \in Int /\ over[i] \in Int /\ out[i] \in Int /\ paidIn[i] \in Int
                     /\ add[i] + over[i] = out[i] + paidIn[i]
    BY <1>2, <1>3
  <2> QED BY <1>2, <2>1, SumsBalance
<1>9. SumFunctionOnSet(add, P) + SumFunctionOnSet(out, P) + SumFunctionOnSet(paidIn, P) = SumFunctionOnSet(over, P)
  <2>1. \A i \in P : /\ add[i] \in Int /\ over[i] \in Int /\ out[i] \in Int /\ paidIn[i] \in Int
                     /\ outAndPaid[i] \in Int /\ outAndPaid[i] = out[i] + paidIn[i]
                     /\ none[i] \in Int /\ none[i] = 0 /\ add[i] + outAndPaid[i] = over[i] + none[i]
    BY <1>2, <1>3
  <2>2. SumFunctionOnSet(outAndPaid, P) = SumFunctionOnSet(out, P) + SumFunctionOnSet(paidIn, P)
    BY <1>2, <2>1, SumOfAdded
  <2>3. SumFunctionOnSet(add, P) + SumFunctionOnSet(outAndPaid, P) = SumFunctionOnSet(over, P) + SumFunctionOnSet(none, P)
    BY <1>2, <2>1, SumsBalance
  <2>4. SumFunctionOnSet(none, P) = 0
    BY <1>2, <2>1, SumOfZeros
  <2>5. /\ SumFunctionOnSet(add, P) \in Int /\ SumFunctionOnSet(out, P) \in Int
        /\ SumFunctionOnSet(paidIn, P) \in Int /\ SumFunctionOnSet(over, P) \in Int
    BY <1>2, <2>1, SumIsInt
  <2> QED BY <2>2, <2>3, <2>4, <2>5
<1>10. SumFunctionOnSet(add, I) + SumFunctionOnSet(unplaced, I) + SumFunctionOnSet(settled, I) = 0
  <2>1. \A i \in I : /\ add[i] \in Int /\ unplaced[i] \in Int /\ settled[i] \in Int
                     /\ both[i] \in Int /\ both[i] = unplaced[i] + settled[i]
                     /\ none[i] \in Int /\ none[i] = 0 /\ add[i] + both[i] = none[i] + none[i]
    BY <1>2, <1>3
  <2>2. SumFunctionOnSet(both, I) = SumFunctionOnSet(unplaced, I) + SumFunctionOnSet(settled, I)
    BY <1>2, <2>1, SumOfAdded
  <2>3. SumFunctionOnSet(add, I) + SumFunctionOnSet(both, I) = SumFunctionOnSet(none, I) + SumFunctionOnSet(none, I)
    BY <1>2, <2>1, SumsBalance
  <2>4. SumFunctionOnSet(none, I) = 0
    BY <1>2, <2>1, SumOfZeros
  <2>5. /\ SumFunctionOnSet(add, I) \in Int /\ SumFunctionOnSet(unplaced, I) \in Int
        /\ SumFunctionOnSet(settled, I) \in Int
    BY <1>2, <2>1, SumIsInt
  <2> QED BY <2>2, <2>3, <2>4, <2>5
<1>11. SumFunctionOnSet(add, O) = SumFunctionOnSet(unplaced, O) + SumFunctionOnSet(settled, O)
  <2>1. \A i \in O : /\ unplaced[i] \in Int /\ settled[i] \in Int /\ add[i] = unplaced[i] + settled[i]
    BY <1>2, <1>3
  <2> QED BY <1>2, <2>1, SumOfAdded
<1>12. \A S \in {R, P, I, O} :
         /\ SumFunctionOnSet(add, S) \in Int /\ SumFunctionOnSet(over, S) \in Int /\ SumFunctionOnSet(out, S) \in Int
         /\ SumFunctionOnSet(paidIn, S) \in Int /\ SumFunctionOnSet(unplaced, S) \in Int
         /\ SumFunctionOnSet(settled, S) \in Int
  <2> SUFFICES ASSUME NEW S, S \in {R, P, I, O}
               PROVE  /\ SumFunctionOnSet(add, S) \in Int /\ SumFunctionOnSet(over, S) \in Int
                      /\ SumFunctionOnSet(out, S) \in Int /\ SumFunctionOnSet(paidIn, S) \in Int
                      /\ SumFunctionOnSet(unplaced, S) \in Int /\ SumFunctionOnSet(settled, S) \in Int
    OBVIOUS
  <2>1. IsFiniteSet(S) /\ \A i \in S : /\ add[i] \in Int /\ over[i] \in Int /\ out[i] \in Int
                                       /\ paidIn[i] \in Int /\ unplaced[i] \in Int /\ settled[i] \in Int
    BY <1>2, <1>3
  <2> QED BY <2>1, SumIsInt
<1> QED BY <1>4, <1>5, <1>6, <1>7, <1>8, <1>9, <1>10, <1>11, <1>12

\* What is read out of any committed ledger agrees.
LEMMA CommittedReadingsAgree ==
  ASSUME NEW t, NEW a, Committed(t, a)
  PROVE  StatementMatchesLedger(t, a) /\ StatementsContinue(t, a) /\ ViewsAgree(t)
<1>1. StatementMatchesLedger(t, a)
  BY StatementMatches DEF StatementMatchesLedger
<1> QED BY <1>1, CommittedStatementsContinue, CommittedViewsAgree
-----------------------------------------------------------------------------
(* What holds of every book. *)

\* What was stated as paid stays what it is, whatever happens.
LEMMA StatedInvariant == Spec => [](IInv /\ StatedPaid)
<1>1. Init => IInv /\ StatedPaid
  BY InitSound, InitStated
<1>2. (IInv /\ StatedPaid) /\ [Next]_vars => (IInv /\ StatedPaid)'
  BY StepKeepsInv, StepKeepsStated
<1> QED BY <1>1, <1>2, PTL DEF Spec

\* Every statement closes with what the ledger says the person owes, whatever was repaid, undone
\* or corrected; statements of successive periods continue one another; and every report and page
\* gives the same totals for the same books.
THEOREM ReadingsAlwaysAgree == Spec => []ReadingsAgree
<1>1. IInv /\ StatedPaid => ReadingsAgree
  BY DbIsCommitted, CommittedReadingsAgree DEF ReadingsAgree
<1> QED BY <1>1, StatedInvariant, PTL
-----------------------------------------------------------------------------
(***************************************************************************)
(* Undo gives back the books from before the message.  A recording or a    *)
(* deletion under way leaves every other entry what it is but for its      *)
(* balance, and every other repayment where it is; and what was paid apart *)
(* from repayments is kept (MInv).  So once the allocations are as they    *)
(* were, so are the balances.                                              *)
(***************************************************************************)

\* The same entry, and the same balance unless it is a debt of a known amount.
Keeps(new, row) ==
  /\ SameEntry(new, row) /\ new.date = row.date /\ new.batch = row.batch
  /\ IsRepayment(row) \/ ~IsComplete(row) => new.paid = row.paid /\ new.out = row.out

\* What an operation leaves of the entries it is not about.
OthersKept == \A i \in Ids \ targets : Keeps(rows[i], db.rows[i]) /\ alloc[i] = db.alloc[i]

\* No repayment from elsewhere settles an entry of N.
StandsAlone(N, a) == \A r \in Ids \ N, d \in N : a[r][d] = 0

\* A batch has the number of its first row.
BatchesIn(t) == \A i \in Used(t) : t[i].batch <= i
Batches == BatchesIn(rows) /\ BatchesIn(db.rows)

\* A message's rows are the newest batch, and only its own repayments are applied.
Recording ==
  op = "record" =>
    /\ undo = {} /\ todo \subseteq targets /\ paying \in targets \cup {NoRow}
    /\ targets = LatestBatch(rows) /\ targets \cap Used(db.rows) = {}
    /\ OthersKept

\* A deletion of rows that nothing else settles moves no other repayment.
Deleting ==
  op = "delete" =>
    /\ \A i \in targets : rows[i].state = "deleted"
    /\ StandsAlone(targets, db.alloc) =>
         /\ todo = {} /\ paying = NoRow /\ undo \subseteq targets
         /\ \A r \in targets \ undo, d \in Ids : alloc[r][d] = 0
         /\ OthersKept

UInv == Batches /\ Recording /\ Deleting

\* Ledger D is ledger L with one message more.
OneMessageMore(L, D) ==
  /\ L \in [rows : [Ids -> Row], alloc : [Ids -> [Ids -> Nat]]]
  /\ SoundIn(L.rows, L.alloc)
  /\ StandsAlone(LatestBatch(D.rows), D.alloc)
  /\ \A i \in LatestBatch(D.rows) : /\ L.rows[i].state = "absent"
                                    /\ \A d \in Ids : L.alloc[i][d] = 0
  /\ \A i \in Ids \ LatestBatch(D.rows) : Keeps(D.rows[i], L.rows[i]) /\ D.alloc[i] = L.alloc[i]
  /\ \A i \in Used(L.rows) : PaidApart(D, i) = PaidApart(L, i)

Remembered == before # <<>> => OneMessageMore(before[1], db)

\* Rows are the same if all their columns are.
LEMMA SameColumns ==
  ASSUME NEW x \in Row, NEW y \in Row, Keeps(x, y), x.paid = y.paid, x.out = y.out
  PROVE  x = y
  BY DEF Row, Keeps, SameEntry

\* What is kept twice is kept.
LEMMA KeepsOn ==
  ASSUME NEW x \in Row, NEW y \in Row, NEW z \in Row, Keeps(x, y), Keeps(y, z)
  PROVE  Keeps(x, z)
  BY DEF Keeps, SameEntry

\* Money paid into a debt or taken out of it keeps the entry.
LEMMA PayingKeeps ==
  ASSUME NEW row \in Row, NEW money, IsComplete(row), ~IsRepayment(row)
  PROVE  Keeps(PayInto(row, money), row)
  BY DEF PayInto, Keeps, SameEntry, Row

\* Taking a repayment back keeps every entry.
LEMMA ReverseKeepsEntries ==
  ASSUME TypeOK, SoundIn(rows, alloc), NEW r \in Ids, Reverse(r)
  PROVE  \A i \in Ids : Keeps(rows'[i], rows[i])
<1> SUFFICES ASSUME NEW i \in Ids PROVE Keeps(rows'[i], rows[i])
  OBVIOUS
<1>1. /\ rows[i] \in Row /\ rows[r] \in Row /\ alloc[r][i] \in Nat
      /\ rows'[i] = IF alloc[r][i] = 0 THEN rows[i] ELSE PayInto(rows[i], 0 - alloc[r][i])
  BY DEF TypeOK, Reverse
<1>2. CASE alloc[r][i] = 0
  BY <1>1, <1>2 DEF Keeps, SameEntry
<1>3. CASE alloc[r][i] > 0
  <2>1. IsComplete(rows[i]) /\ ~IsRepayment(rows[i])
    BY <1>1, <1>3, SettledAreDebts DEF SoundIn, MatchingIn
  <2>2. rows'[i] = PayInto(rows[i], 0 - alloc[r][i])
    BY <1>1, <1>3
  <2> QED BY <1>1, <2>1, <2>2, PayingKeeps
<1> QED BY <1>1, <1>2, <1>3

\* The loop keeps every entry, and places money of the repayment in hand only.
LEMMA PayOldestKeepsEntries ==
  ASSUME TypeOK, PayOldest
  PROVE  /\ \A i \in Ids : Keeps(rows'[i], rows[i])
         /\ \A r \in Ids : r # paying => alloc'[r] = alloc[r]
<1>1. /\ rows \in [Ids -> Row] /\ alloc \in [Ids -> [Ids -> Nat]] /\ paying \in Ids
  BY DEF TypeOK, PayOldest
<1>2. PICK d \in OpenDebts(rows, paying) :
        /\ rows' = [rows EXCEPT ![d] = PayInto(@, Lesser(remaining, rows[d].out))]
        /\ alloc' = [alloc EXCEPT ![paying][d] = @ + Lesser(remaining, rows[d].out)]
  BY DEF PayOldest
<1>3. d \in Ids /\ IsComplete(rows[d]) /\ Settles(rows[paying], rows[d])
  BY <1>2 DEF OpenDebts
<1>4. ~IsRepayment(rows[d])
  BY <1>1, <1>3, SettledAreDebts
<1>5. Keeps(rows'[d], rows[d])
  BY <1>1, <1>2, <1>3, <1>4, PayingKeeps
<1>6. \A i \in Ids : i # d => rows'[i] = rows[i]
  BY <1>1, <1>2
<1>7. \A i \in Ids : i # d => Keeps(rows'[i], rows[i])
  BY <1>6 DEF Keeps, SameEntry
<1> QED BY <1>1, <1>2, <1>5, <1>7

\* The newest batch is the same as long as entries are kept.
LEMMA BatchesOfKept ==
  ASSUME NEW t, NEW u, \A i \in Ids : Keeps(u[i], t[i])
  PROVE  LatestBatch(u) = LatestBatch(t) /\ (BatchesIn(t) => BatchesIn(u))
<1>1. \A i \in Ids : u[i].state = t[i].state /\ u[i].batch = t[i].batch
  BY DEF Keeps, SameEntry
<1> QED BY <1>1 DEF LatestBatch, BatchesIn, Used

-----------------------------------------------------------------------------
(* The operations keep it. *)

\* Before anything is recorded there is nothing to keep.
LEMMA InitUndo == Init => UInv
<1> SUFFICES ASSUME Init PROVE UInv
  OBVIOUS
<1>1. Used(rows) = {} /\ Used(db.rows) = {} /\ op = "idle"
  BY DEF Init, Used, BlankRow
<1> QED BY <1>1 DEF UInv, Batches, BatchesIn, Recording, Deleting

\* What a row keeps of itself.
LEMMA RowKeepsItself == ASSUME NEW row PROVE Keeps(row, row)
  BY DEF Keeps, SameEntry

\* A message's rows carry a number above that of every earlier batch.
LEMMA RecordKeepsUndo ==
  ASSUME IInv, MInv, UInv, RecordMessage
  PROVE  UInv'
<1>1. /\ op = "idle" /\ op' = "record" /\ UNCHANGED <<alloc, db, undo, paying>>
      /\ undo = {} /\ paying = NoRow /\ rows = db.rows /\ alloc = db.alloc
  BY RecordWrites, AtRest
<1>2. PICK first \in 0 .. MaxRows, n \in 1 .. MaxBatch :
        /\ Used(rows) = 1 .. first /\ first + n <= MaxRows
        /\ \E batch \in [1 .. n -> Entries] : Record(first, n, batch)
  BY DEF RecordMessage
<1>3. PICK batch \in [1 .. n -> Entries] : Record(first, n, batch)
  BY <1>2
<1> DEFINE new == first + 1 .. first + n
<1>4. /\ new \in SUBSET Ids /\ new # {} /\ new \cap Used(rows) = {}
      /\ \A i \in new : batch[i - first] \in Entries /\ first + 1 \in Nat /\ first + 1 <= i
      /\ \A i \in Used(rows) : i \in Nat /\ i <= first
      /\ first \in Nat
  <2>1. first \in Nat /\ n \in Nat /\ n >= 1 /\ MaxRows \in Nat /\ first + n <= MaxRows
    BY <1>2, BoundsAreNatural
  <2>2. first + 1 \in new
    BY <2>1
  <2>3. /\ new \in SUBSET Ids /\ new \cap Used(rows) = {}
        /\ \A i \in new : i - first \in 1 .. n /\ first + 1 <= i
    BY <1>2, <2>1 DEF Ids
  <2>4. \A i \in Used(rows) : i \in Nat /\ i <= first
    BY <1>2, <2>1
  <2>5. \A i \in new : batch[i - first] \in Entries
    BY <2>3
  <2> HIDE DEF new
  <2> QED BY <2>1, <2>2, <2>3, <2>4, <2>5
<1>5. /\ \A i \in new : rows'[i] = NewRow(batch[i - first], first + 1)
      /\ \A i \in Ids \ new : rows'[i] = rows[i]
      /\ targets' = new
      /\ todo' = {i \in new : IsRepayment(rows'[i]) /\ IsComplete(rows'[i])}
  BY <1>3, <1>4 DEF Record
<1>6. \A e \in Entries, b \in Nat : NewRow(e, b).state = "live" /\ NewRow(e, b).batch = b
  BY DEF NewRow, Settle
<1> HIDE DEF new
<1>7. \A i \in new : rows'[i].state = "live" /\ rows'[i].batch = first + 1
  BY <1>4, <1>5, <1>6
<1>8. \A i \in Used(rows) : rows[i].batch <= i /\ rows[i].batch \in Nat
  BY DEF UInv, Batches, BatchesIn, IInv, TypeOK, Row, Used
<1>9. Batches'
  <2>1. \A i \in Used(rows') : i \in new \/ (i \in Used(rows) /\ rows'[i] = rows[i])
    BY <1>5 DEF Used
  <2>2. BatchesIn(rows')
    BY <1>4, <1>7, <1>8, <2>1 DEF BatchesIn
  <2> QED BY <1>1, <2>2 DEF UInv, Batches
<1>10. targets' = LatestBatch(rows')
  <2>1. ASSUME NEW j \in Ids, Live(rows', j)
        PROVE  /\ rows'[j].batch <= first + 1
               /\ j \notin new => rows'[j].batch < first + 1
    <3>1. CASE j \in new
      BY <1>4, <1>7, <3>1
    <3>2. CASE j \notin new
      <4>1. j \in Used(rows) /\ rows'[j] = rows[j]
        BY <1>5, <2>1, <3>2 DEF Used
      <4>2. j \in Nat /\ j <= first /\ rows[j].batch <= j /\ rows[j].batch \in Nat
        BY <1>4, <1>8, <4>1
      <4> QED BY <1>4, <4>1, <4>2
    <3> QED BY <3>1, <3>2
  <2>2. \A i \in new : i \in LatestBatch(rows')
    BY <1>4, <1>7, <2>1 DEF LatestBatch
  <2>3. ASSUME NEW i \in LatestBatch(rows') PROVE i \in new
    <3>1. PICK j \in new : TRUE
      BY <1>4
    <3>2. /\ i \in Ids /\ Live(rows', i) /\ rows'[j].batch <= rows'[i].batch
          /\ rows'[j].batch = first + 1 /\ first + 1 \in Nat
      BY <1>4, <1>7, <3>1 DEF LatestBatch
    <3>3. i \notin new => rows'[i].batch < first + 1 /\ rows'[i] = rows[i] /\ i \in Used(rows)
      BY <1>5, <2>1, <3>2 DEF Used
    <3> QED BY <1>8, <3>2, <3>3
  <2>4. LatestBatch(rows') = new
    BY <2>2, <2>3
  <2> QED BY <1>5, <2>4
<1>11. OthersKept'
  BY <1>1, <1>5, RowKeepsItself DEF OthersKept
<1>12. Recording'
  BY <1>1, <1>4, <1>5, <1>10, <1>11 DEF Recording
<1> QED BY <1>1, <1>9, <1>12 DEF UInv, Deleting

\* Deleting rows that nothing else settles plans to move no other repayment.
LEMMA DeleteKeepsUndo ==
  ASSUME IInv, MInv, UInv, NEW S \in SUBSET Ids, Delete(S), \A i \in S : Live(rows, i)
  PROVE  UInv'
<1>1. /\ op = "idle" /\ op' = "delete" /\ targets' = S
      /\ UNCHANGED <<alloc, db, change, paying, remaining>>
      /\ undo' = {i \in S : IsRepayment(rows[i])}
      /\ todo' = (UNION {AppliedTo(d) : d \in S}) \ S
  BY DEF Delete
<1>2. /\ paying = NoRow /\ rows = db.rows /\ alloc = db.alloc
      /\ rows \in [Ids -> Row] /\ alloc \in [Ids -> [Ids -> Nat]] /\ MatchingIn(rows, alloc)
  BY <1>1, AtRest DEF IInv, TypeOK, SoundIn
<1>3. \A i \in Ids : /\ i \notin S => rows'[i] = rows[i]
                     /\ i \in S => rows'[i].state = "deleted"
  BY <1>2, DeleteWrites
<1>4. Batches'
  <2>1. \A i \in Ids : rows'[i].batch = rows[i].batch
    BY <1>2 DEF Delete, Row
  <2>2. \A i \in Used(rows') : i \in Used(rows)
    BY <1>3 DEF Used
  <2> QED BY <1>1, <2>1, <2>2 DEF UInv, Batches, BatchesIn, Used
<1>5. ASSUME StandsAlone(S, db.alloc)
      PROVE  /\ todo' = {} /\ undo' \subseteq S
             /\ \A r \in S \ undo', d \in Ids : alloc[r][d] = 0
  <2>1. \A r \in Ids, d \in S : alloc[r][d] > 0 => r \in S
    BY <1>2, <1>5 DEF StandsAlone
  <2>2. todo' = {}
    BY <1>1, <2>1 DEF AppliedTo
  <2>3. \A r \in S \ undo', d \in Ids : ~(alloc[r][d] > 0)
    BY <1>1, <1>2 DEF MatchingIn, Settles
  <2> QED BY <1>1, <1>2, <2>2, <2>3
<1>6. OthersKept'
  BY <1>1, <1>2, <1>3, RowKeepsItself DEF OthersKept
<1>7. Deleting'
  BY <1>1, <1>2, <1>3, <1>5, <1>6 DEF Deleting
<1> QED BY <1>1, <1>4, <1>7 DEF UInv, Recording

\* A step that keeps every entry keeps which batch is the newest and what was kept of the others.
LEMMA KeepingStep ==
  ASSUME TypeOK, TypeOK', UInv, UNCHANGED <<db, targets>>, \A i \in Ids : Keeps(rows'[i], rows[i])
  PROVE  /\ Batches' /\ LatestBatch(rows') = LatestBatch(rows)
         /\ \A i \in Ids : rows'[i].state = rows[i].state
         /\ \A i \in Ids : Keeps(rows[i], db.rows[i]) => Keeps(rows'[i], db.rows[i])
<1>1. LatestBatch(rows') = LatestBatch(rows) /\ (BatchesIn(rows) => BatchesIn(rows'))
  BY BatchesOfKept
<1>2. \A i \in Ids : rows'[i].state = rows[i].state
  BY DEF Keeps, SameEntry
<1>3. \A i \in Ids : rows[i] \in Row /\ rows'[i] \in Row /\ db.rows[i] \in Row
  BY DEF TypeOK
<1>4. \A i \in Ids : Keeps(rows[i], db.rows[i]) => Keeps(rows'[i], db.rows[i])
  BY <1>3, KeepsOn
<1> QED BY <1>1, <1>2, <1>4 DEF UInv, Batches

\* A repayment taken back in a deletion is one of the deleted rows.
LEMMA TakeBackKeepsUndo ==
  ASSUME IInv, IInv', UInv, NEW r \in Ids, TakeBack(r)
  PROVE  UInv'
<1>1. /\ r \in undo /\ Reverse(r) /\ undo' = undo \ {r}
      /\ UNCHANGED <<db, op, targets, change, todo, paying, remaining, touched>>
      /\ TypeOK /\ TypeOK' /\ SoundIn(rows, alloc)
  BY DEF TakeBack, IInv
<1>2. \A i \in Ids : Keeps(rows'[i], rows[i])
  BY <1>1, ReverseKeepsEntries
<1>3. /\ \A i \in Ids : i # r => alloc'[i] = alloc[i]
      /\ \A d \in Ids : alloc'[r][d] = 0
  BY <1>1 DEF Reverse, TypeOK
<1>4. /\ Batches' /\ \A i \in Ids : rows'[i].state = rows[i].state
      /\ \A i \in Ids : Keeps(rows[i], db.rows[i]) => Keeps(rows'[i], db.rows[i])
  BY <1>1, <1>2, KeepingStep
<1>5. Recording'
  BY <1>1 DEF UInv, Recording
<1>6. Deleting'
  <2> SUFFICES ASSUME op = "delete"
               PROVE  /\ \A i \in targets : rows'[i].state = "deleted"
                      /\ StandsAlone(targets, db.alloc) =>
                           /\ todo = {} /\ paying = NoRow /\ undo' \subseteq targets
                           /\ \A q \in targets \ undo', d \in Ids : alloc'[q][d] = 0
                           /\ OthersKept'
    BY <1>1 DEF Deleting
  <2>1. \A i \in targets : rows'[i].state = "deleted"
    BY <1>1, <1>4 DEF UInv, Deleting, TypeOK
  <2>2. ASSUME StandsAlone(targets, db.alloc)
        PROVE  /\ todo = {} /\ paying = NoRow /\ undo' \subseteq targets
               /\ \A q \in targets \ undo', d \in Ids : alloc'[q][d] = 0
               /\ OthersKept'
    <3>1. /\ todo = {} /\ paying = NoRow /\ undo \subseteq targets /\ OthersKept
          /\ \A q \in targets \ undo, d \in Ids : alloc[q][d] = 0
      BY <2>2 DEF UInv, Deleting
    <3>2. OthersKept'
      BY <1>1, <1>3, <1>4, <3>1 DEF OthersKept
    <3>3. \A q \in targets \ undo', d \in Ids : alloc'[q][d] = 0
      BY <1>1, <1>3, <3>1 DEF TypeOK
    <3> QED BY <1>1, <3>1, <3>2, <3>3
  <2> QED BY <2>1, <2>2
<1> QED BY <1>4, <1>5, <1>6 DEF UInv

\* A deletion that takes a repayment up moves one that settled a deleted row.
LEMMA ApplyKeepsUndo ==
  ASSUME IInv, IInv', UInv, NEW r \in Ids, Apply(r)
  PROVE  UInv'
<1>1. /\ op # "idle" /\ undo = {} /\ r \in todo /\ todo' = todo \ {r} /\ paying' = r
      /\ UNCHANGED <<db, op, targets, undo, change, touched>>
      /\ Reverse(r) \/ (op # "delete" /\ UNCHANGED <<rows, alloc>>)
      /\ TypeOK /\ TypeOK' /\ SoundIn(rows, alloc)
  <2>1. /\ op # "idle" /\ undo = {} /\ r \in todo /\ todo' = todo \ {r} /\ paying' = r
        /\ UNCHANGED <<db, op, targets, undo, change, touched>>
    BY DEF Apply, ReadyToApply, Due
  <2>2. Reverse(r) \/ (op # "delete" /\ UNCHANGED <<rows, alloc>>)
    BY DEF Apply
  <2> QED BY <2>1, <2>2 DEF IInv
<1>2. \A i \in Ids : Keeps(rows'[i], rows[i])
  BY <1>1, ReverseKeepsEntries, RowKeepsItself
<1>3. /\ Batches' /\ \A i \in Ids : rows'[i].state = rows[i].state
  BY <1>1, <1>2, KeepingStep
<1>4. Recording'
  <2> SUFFICES ASSUME op = "record" PROVE Recording'
    BY <1>1 DEF Recording
  <2>1. UNCHANGED <<rows, alloc>>
    BY DEF Apply
  <2> QED BY <1>1, <2>1 DEF UInv, Recording, OthersKept
<1>5. Deleting'
  BY <1>1, <1>3 DEF UInv, Deleting, TypeOK
<1> QED BY <1>3, <1>4, <1>5 DEF UInv

\* The loop places money of the message's own repayments only.
LEMMA PayOldestKeepsUndo ==
  ASSUME IInv, IInv', UInv, PayOldest
  PROVE  UInv'
<1>1. /\ paying \in Ids /\ TypeOK /\ TypeOK'
      /\ UNCHANGED <<db, op, targets, undo, change, todo, paying, touched>>
  BY DEF PayOldest, IInv, TypeOK
<1>2. /\ \A i \in Ids : Keeps(rows'[i], rows[i])
      /\ \A r \in Ids : r # paying => alloc'[r] = alloc[r]
  BY <1>1, PayOldestKeepsEntries
<1>3. /\ Batches' /\ LatestBatch(rows') = LatestBatch(rows)
      /\ \A i \in Ids : rows'[i].state = rows[i].state
      /\ \A i \in Ids : Keeps(rows[i], db.rows[i]) => Keeps(rows'[i], db.rows[i])
  BY <1>1, <1>2, KeepingStep
<1>4. Recording'
  <2> SUFFICES ASSUME op = "record" PROVE Recording'
    BY <1>1 DEF Recording
  <2>1. paying \in targets /\ OthersKept
    BY <1>1 DEF UInv, Recording, Ids
  <2>2. OthersKept'
    BY <1>1, <1>2, <1>3, <2>1 DEF OthersKept
  <2> QED BY <1>1, <1>3, <2>2 DEF UInv, Recording
<1>5. Deleting'
  BY <1>1, <1>3 DEF UInv, Deleting, TypeOK, Ids
<1> QED BY <1>3, <1>4, <1>5 DEF UInv

\* A correction, and what ends a loop or an operation, keeps it.
LEMMA EditKeepsUndo ==
  ASSUME IInv, UInv, Edit
  PROVE  UInv'
<1>1. /\ op = "correct" /\ UNCHANGED <<op, db>> /\ rows \in [Ids -> Row]
  BY DEF Edit, IInv, TypeOK
<1>2. PICK c \in change, i \in targets : rows' = [rows EXCEPT ![i] = Corrected(rows[i], c)]
  BY DEF Edit
<1>3. \A x \in Row : Settle(x).state = x.state /\ Settle(x).batch = x.batch
  BY DEF Settle, Row
<1>4. i \in Ids /\ c \in Correction
  BY InputsAreTyped, <1>2 DEF IInv, TypeOK
<1>5. Corrected(rows[i], c).state = rows[i].state /\ Corrected(rows[i], c).batch = rows[i].batch
  BY <1>1, <1>4 DEF Corrected, Settle, Row
<1>6. \A j \in Ids : rows'[j].state = rows[j].state /\ rows'[j].batch = rows[j].batch
  BY <1>1, <1>2, <1>4, <1>5
<1> QED BY <1>1, <1>6 DEF UInv, Batches, BatchesIn, Used, Recording, Deleting

\* Every step of every operation keeps it.
LEMMA StepKeepsUndo == IInv /\ MInv /\ UInv /\ [Next]_vars => UInv'
<1> SUFFICES ASSUME IInv, MInv, UInv, [Next]_vars PROVE UInv'
  OBVIOUS
<1>1. IInv'
  BY StepKeepsInv
<1>2. CASE RecordMessage
  BY <1>2, RecordKeepsUndo
<1>3. CASE DeleteOne
  BY <1>3, DeleteKeepsUndo DEF DeleteOne
<1>4. CASE DeleteLastMessage
  <2>1. LatestBatch(rows) \in SUBSET Ids /\ \A i \in LatestBatch(rows) : Live(rows, i)
    BY DEF LatestBatch
  <2> QED BY <1>4, <2>1, DeleteKeepsUndo DEF DeleteLastMessage
<1>5. CASE CorrectOne
  BY <1>5 DEF CorrectOne, Correct, UInv, Batches, Recording, Deleting
<1>6. CASE PayOldest
  BY <1>1, <1>6, PayOldestKeepsUndo
<1>7. CASE Paid
  BY <1>7 DEF Paid, UInv, Batches, Recording, Deleting, OthersKept
<1>8. CASE Edit
  BY <1>8, EditKeepsUndo
<1>9. CASE Commit
  BY <1>9 DEF Commit, Closed, UInv, Batches, Recording, Deleting
<1>10. CASE \E r \in Ids : TakeBack(r)
  BY <1>1, <1>10, TakeBackKeepsUndo
<1>11. CASE \E r \in Ids : Apply(r)
  BY <1>1, <1>11, ApplyKeepsUndo
<1>12. CASE Rollback
  BY <1>12 DEF Rollback, Closed, UInv, Batches, Recording, Deleting
<1>13. CASE UNCHANGED vars
  BY <1>13 DEF vars, UInv, Batches, Recording, Deleting, OthersKept
<1> QED
  BY <1>2, <1>3, <1>4, <1>5, <1>6, <1>7, <1>8, <1>9, <1>10, <1>11, <1>12, <1>13 DEF Next, Work
-----------------------------------------------------------------------------
(* What an undo gives back. *)

\* What a recording commits is the committed ledger with one message more.
LEMMA RecordingAddsAMessage ==
  ASSUME IInv, MInv, UInv, op = "record", Commit
  PROVE  OneMessageMore(db, db')
<1> DEFINE N == LatestBatch(rows)
<1>1. /\ db'.rows = rows /\ db'.alloc = alloc
      /\ N = targets /\ N \cap Used(db.rows) = {} /\ OthersKept
  BY DEF Commit, UInv, Recording
<1>2. /\ db \in [rows : [Ids -> Row], alloc : [Ids -> [Ids -> Nat]]]
      /\ SoundIn(db.rows, db.alloc) /\ N \subseteq Ids
  BY <1>1 DEF IInv, TypeOK
<1>3. \A r, d \in Ids : db.alloc[r][d] # 0 => r \in Used(db.rows) /\ d \in Used(db.rows)
  BY <1>2 DEF SoundIn, FoundedIn
<1>4. StandsAlone(N, alloc)
  BY <1>1, <1>2, <1>3 DEF StandsAlone, OthersKept
<1>5. \A i \in N : db.rows[i].state = "absent" /\ \A d \in Ids : db.alloc[i][d] = 0
  BY <1>1, <1>2, <1>3 DEF Used
<1>6. \A i \in Ids \ N : Keeps(rows[i], db.rows[i]) /\ alloc[i] = db.alloc[i]
  BY <1>1 DEF OthersKept
<1>7. \A i \in Used(db.rows) : PaidApart(db', i) = PaidApart(db, i)
  BY <1>1 DEF MInv, PaidApartKept, PaidApart, PaidInto
<1> HIDE DEF N
<1>8. N = LatestBatch(db'.rows)
  BY <1>1 DEF N
<1> QED BY <1>1, <1>2, <1>4, <1>5, <1>6, <1>7, <1>8 DEF OneMessageMore

\* What is remembered is the ledger from before the last message.
LEMMA StepKeepsMemory ==
  ASSUME IInv, MInv, UInv, Remembered, [HistoryNext]_historyVars
  PROVE  Remembered'
<1>1. [Next]_vars
  BY DEF HistoryNext, historyVars, vars
<1>2. CASE Committing /\ Remember
  <2>1. Commit
    BY <1>1, <1>2, CommittingIsCommit
  <2>2. CASE op = "record"
    <3>1. before' = <<db>>
      BY <1>2, <2>2 DEF Remember
    <3> QED BY <2>1, <2>2, <3>1, RecordingAddsAMessage DEF Remembered
  <2>3. CASE op # "record"
    BY <1>2, <2>3 DEF Remember, Remembered
  <2> QED BY <2>2, <2>3
<1>3. CASE ~Committing /\ HistoryNext
  <2>1. before' = before
    BY <1>3 DEF HistoryNext, Remember
  <2>2. db' = db
    <3>1. CASE Commit
      BY <1>3, <3>1 DEF Commit, ReadyToApply, Closed, Committing
    <3>2. CASE RecordMessage \/ DeleteOne \/ DeleteLastMessage \/ CorrectOne
      BY <3>2 DEF RecordMessage, Record, DeleteOne, DeleteLastMessage, Delete, CorrectOne, Correct
    <3>3. CASE PayOldest \/ Paid \/ Edit \/ Rollback \/ \E r \in Ids : TakeBack(r) \/ Apply(r)
      BY <3>3 DEF PayOldest, Paid, Edit, Rollback, TakeBack, Apply
    <3> QED BY <1>3, <3>1, <3>2, <3>3 DEF HistoryNext, Next, Work
  <2> QED BY <2>1, <2>2 DEF Remembered
<1>4. CASE UNCHANGED historyVars
  BY <1>4 DEF historyVars, vars, Remembered
<1> QED BY <1>2, <1>3, <1>4 DEF HistoryNext

\* A debt of a known amount is settled by what was paid apart and the allocations.
LEMMA SamePaid ==
  ASSUME NEW x \in Row, NEW y \in Row, Keeps(x, y), x.paid = y.paid,
         IsComplete(y) /\ ~IsRepayment(y) =>
           /\ x.out = PositivePart(x.amount - x.paid)
           /\ y.out = PositivePart(y.amount - y.paid)
  PROVE  x = y
<1>1. x.out = y.out
  BY DEF Keeps, SameEntry
<1> QED BY <1>1, SameColumns

\* A deletion of the newest batch that ends gives back the ledger it was added to.
LEMMA UndoGoesBack ==
  ASSUME IInv, MInv, UInv, op = "delete", Commit, targets = LatestBatch(db.rows),
         NEW L, OneMessageMore(L, db)
  PROVE  LiveLedger(db') = LiveLedger(L)
<1>1. /\ db'.rows = rows /\ db'.alloc = alloc /\ undo = {}
  BY DEF Commit, ReadyToApply
<1>2. /\ rows \in [Ids -> Row] /\ alloc \in [Ids -> [Ids -> Nat]] /\ targets \subseteq Ids
      /\ db.rows \in [Ids -> Row] /\ BalancedIn(rows)
  BY DEF IInv, TypeOK, SoundIn
<1>3. /\ L.rows \in [Ids -> Row] /\ L.alloc \in [Ids -> [Ids -> Nat]] /\ BalancedIn(L.rows)
  BY DEF OneMessageMore, SoundIn
<1>4. StandsAlone(targets, db.alloc)
  BY DEF OneMessageMore
<1>5. /\ \A i \in targets : rows[i].state = "deleted" /\ \A d \in Ids : alloc[i][d] = 0
      /\ \A i \in Ids \ targets : Keeps(rows[i], db.rows[i]) /\ alloc[i] = db.alloc[i]
  BY <1>1, <1>4 DEF UInv, Deleting, OthersKept
<1>6. /\ \A i \in targets : L.rows[i].state = "absent" /\ \A d \in Ids : L.alloc[i][d] = 0
      /\ \A i \in Ids \ targets : Keeps(db.rows[i], L.rows[i]) /\ db.alloc[i] = L.alloc[i]
      /\ \A i \in Used(L.rows) : PaidApart(db, i) = PaidApart(L, i)
  BY DEF OneMessageMore
<1>7. alloc = L.alloc
  <2>1. \A i, d \in Ids : alloc[i][d] = L.alloc[i][d]
    BY <1>5, <1>6
  <2> QED BY <1>2, <1>3, <2>1
<1>8. \A i \in targets : ~Live(rows, i) /\ ~Live(L.rows, i)
  BY <1>5, <1>6
<1>9. ASSUME NEW i \in Ids, i \notin targets
      PROVE  /\ Live(rows, i) <=> Live(L.rows, i)
             /\ Live(rows, i) => rows[i] = L.rows[i]
  <2>1. /\ rows[i] \in Row /\ L.rows[i] \in Row /\ db.rows[i] \in Row
        /\ Keeps(rows[i], db.rows[i]) /\ Keeps(db.rows[i], L.rows[i])
    BY <1>2, <1>3, <1>5, <1>6, <1>9
  <2>2. Keeps(rows[i], L.rows[i])
    BY <2>1, KeepsOn
  <2>3. ASSUME Live(rows, i) PROVE rows[i] = L.rows[i]
    <3>1. i \in Used(rows) /\ i \in Used(db.rows) /\ i \in Used(L.rows)
      BY <2>1, <2>2, <2>3 DEF Used, Keeps, SameEntry
    <3>2. rows[i].paid - PaidInto(alloc, i) = PaidApart(db, i)
      BY <3>1 DEF MInv, PaidApartKept
    <3>3. PaidApart(db, i) = L.rows[i].paid - PaidInto(L.alloc, i)
      BY <1>6, <3>1 DEF PaidApart, PaidInto
    <3>4. PaidInto(alloc, i) \in Nat /\ rows[i].paid \in Int /\ L.rows[i].paid \in Int
      BY <1>2, <2>1, SumsOverIds DEF AllocationTable, Row
    <3>5. rows[i].paid = L.rows[i].paid
      BY <1>7, <3>2, <3>3, <3>4
    <3>6. /\ IsComplete(rows[i]) /\ ~IsRepayment(rows[i]) =>
               rows[i].out = PositivePart(rows[i].amount - rows[i].paid)
          /\ IsComplete(L.rows[i]) /\ ~IsRepayment(L.rows[i]) =>
               L.rows[i].out = PositivePart(L.rows[i].amount - L.rows[i].paid)
      BY <1>2, <1>3, <3>1 DEF BalancedIn
    <3>7. rows[i].amount = L.rows[i].amount /\ rows[i].type = L.rows[i].type
      BY <2>2 DEF Keeps, SameEntry
    <3> QED BY <2>1, <2>2, <3>5, <3>6, <3>7, SamePaid
  <2> QED BY <2>2, <2>3 DEF Keeps, SameEntry
<1>10. \A i \in Ids : /\ Live(rows, i) <=> Live(L.rows, i)
                      /\ Live(rows, i) => rows[i] = L.rows[i]
  BY <1>8, <1>9
<1>11. [i \in Ids |-> IF Live(rows, i) THEN rows[i] ELSE BlankRow]
         = [i \in Ids |-> IF Live(L.rows, i) THEN L.rows[i] ELSE BlankRow]
  BY <1>10
<1> QED BY <1>1, <1>7, <1>11 DEF LiveLedger

\* Undo right after a message gives back the ledger from before it, for any book and message:
\* every balance its repayments changed, and every allocation.
THEOREM UndoGivesBack == HistorySpec => UndoRestores
<1> DEFINE All == IInv /\ MInv /\ UInv /\ Remembered
           A == Committing /\ op = "delete" /\ before # <<>> /\ targets = LatestBatch(db.rows)
                  => LiveLedger(db') = LiveLedger(before[1])
<1>1. HistoryInit => All
  BY InitSound, InitMoney, InitUndo DEF HistoryInit, Remembered
<1>2. [HistoryNext]_historyVars => [Next]_vars
  BY DEF HistoryNext, historyVars, vars
<1>3. All /\ [HistoryNext]_historyVars => All'
  BY <1>2, StepKeepsInv, StepKeepsMoney, StepKeepsUndo, StepKeepsMemory
<1>4. All /\ [HistoryNext]_historyVars => A
  BY <1>2, CommittingIsCommit, UndoGoesBack DEF Remembered
<1> HIDE DEF All, A
<1>5. HistorySpec => [][A]_historyVars
  BY <1>1, <1>3, <1>4, PTL DEF HistorySpec
<1> QED BY <1>5 DEF UndoRestores, A
=============================================================================
