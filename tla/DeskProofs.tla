----------------------------- MODULE DeskProofs -----------------------------
(***************************************************************************)
(* A trader's alerts and reminders over the same books: an alert's money   *)
(* is recorded once, a reminder asks for what is owed and is not repeated  *)
(* too soon, for any customers, alerts, amounts, phones and days.          *)
(***************************************************************************)
EXTENDS Desk, Sums, SequenceTheorems

-----------------------------------------------------------------------------
(* The books.  No party's repayments are placed beyond its debt, so that   *)
(* what is owed is a natural number.                                       *)

DebtsOf(s, p) == {i \in DOMAIN s : s[i].live /\ s[i].kind = "debt" /\ s[i].party = p}
RepaysOf(s, p) == {i \in DOMAIN s : s[i].live /\ s[i].kind = "repay" /\ s[i].party = p}
AmountsOf(s) == [i \in DOMAIN s |-> s[i].amount]
PlacedOf(s) == [i \in DOMAIN s |-> s[i].placed]
DebtSum(s, p) == SumFunctionOnSet(AmountsOf(s), DebtsOf(s, p))
PlacedSum(s, p) == SumFunctionOnSet(PlacedOf(s), RepaysOf(s, p))

\* One debt of p at most, and nothing placed beyond it.
Fits(s, p) ==
  /\ \A i, j \in DebtsOf(s, p) : i = j
  /\ PlacedSum(s, p) <= DebtSum(s, p)

\* The books as they are.
LEMMA BooksAre ==
  /\ \A p : Debts(p) = DebtsOf(rows, p) /\ Repayments(p) = RepaysOf(rows, p)
  /\ \A p : Owed(p) = DebtSum(rows, p) - PlacedSum(rows, p)
  BY DEF Debts, Repayments, DebtsOf, RepaysOf, Owed, Sum, Placed, DebtSum, PlacedSum, AmountsOf, PlacedOf

\* What a row has.
LEMMA RowHas ==
  ASSUME NEW r \in Row
  PROVE  /\ r.kind \in {"debt", "money", "repay"} /\ r.party \in Parties \cup {NoParty}
         /\ r.amount \in Amounts /\ r.amount \in Nat /\ r.placed \in Nat
         /\ r.from \in Texts \cup {NoText} /\ r.live \in BOOLEAN
  BY AmountsArePositive DEF Row

\* Rows are numbered.
LEMMA RowsAre ==
  ASSUME NEW s \in Seq(Row)
  PROVE  /\ DOMAIN s = 1 .. Len(s) /\ Len(s) \in Nat /\ IsFiniteSet(DOMAIN s)
         /\ \A i \in DOMAIN s : s[i] \in Row /\ i \in Nat
<1>1. DOMAIN s = 1 .. Len(s) /\ Len(s) \in Nat
  OBVIOUS
<1>2. IsFiniteSet(1 .. Len(s))
  BY <1>1, FS_Interval
<1> QED BY <1>1, <1>2

\* Sums over any of the rows.
LEMMA SumsAre ==
  ASSUME NEW s \in Seq(Row), NEW S, S \subseteq DOMAIN s
  PROVE  /\ IsFiniteSet(S)
         /\ \A i \in S : AmountsOf(s)[i] = s[i].amount /\ PlacedOf(s)[i] = s[i].placed
         /\ \A i \in S : AmountsOf(s)[i] \in Nat /\ PlacedOf(s)[i] \in Nat
         /\ SumFunctionOnSet(AmountsOf(s), S) \in Nat /\ SumFunctionOnSet(PlacedOf(s), S) \in Nat
<1>1. IsFiniteSet(S)
  BY RowsAre, FS_Subset
<1>2. \A i \in S : AmountsOf(s)[i] = s[i].amount /\ PlacedOf(s)[i] = s[i].placed
  BY DEF AmountsOf, PlacedOf
<1>3. \A i \in S : AmountsOf(s)[i] \in Nat /\ PlacedOf(s)[i] \in Nat
  BY <1>2, RowsAre, RowHas
<1>4. SumFunctionOnSet(AmountsOf(s), S) \in Nat /\ SumFunctionOnSet(PlacedOf(s), S) \in Nat
  BY <1>1, <1>3, SumIsNat
<1> QED BY <1>1, <1>2, <1>3, <1>4

\* One of them and the others.
LEMMA PlacedTakes ==
  ASSUME NEW s \in Seq(Row), NEW S, S \subseteq DOMAIN s, NEW a \in S
  PROVE  /\ SumFunctionOnSet(PlacedOf(s), S) = s[a].placed + SumFunctionOnSet(PlacedOf(s), S \ {a})
         /\ s[a].placed \in Nat /\ SumFunctionOnSet(PlacedOf(s), S \ {a}) \in Nat
<1> PICK f : f = PlacedOf(s)
  OBVIOUS
<1>1. IsFiniteSet(S) /\ f[a] = s[a].placed /\ \A i \in S : f[i] \in Nat
  BY SumsAre
<1>2. \A i \in S : f[i] \in Int
  BY <1>1
<1>3. SumFunctionOnSet(f, S) = f[a] + SumFunctionOnSet(f, S \ {a})
  BY <1>1, <1>2, SumTakes
<1>4. SumFunctionOnSet(f, S \ {a}) \in Nat
  BY SumsAre
<1> QED BY <1>1, <1>3, <1>4

\* Of one party's.
LEMMA PartySums ==
  ASSUME NEW s \in Seq(Row), NEW p
  PROVE  /\ DebtsOf(s, p) \subseteq DOMAIN s /\ RepaysOf(s, p) \subseteq DOMAIN s
         /\ DebtSum(s, p) \in Nat /\ PlacedSum(s, p) \in Nat
<1>1. DebtsOf(s, p) \subseteq DOMAIN s /\ RepaysOf(s, p) \subseteq DOMAIN s
  BY DEF DebtsOf, RepaysOf
<1> QED BY <1>1, SumsAre DEF DebtSum, PlacedSum

\* What is owed is a natural number.
LEMMA OwedIsNat ==
  ASSUME rows \in Seq(Row), NEW p, Fits(rows, p)
  PROVE  Owed(p) \in Nat
<1>1. DebtSum(rows, p) \in Nat /\ PlacedSum(rows, p) \in Nat
  BY PartySums
<1> QED BY <1>1, BooksAre DEF Fits

\* Rows that give the same terms have the same sums.
LEMMA SameSums ==
  ASSUME NEW s \in Seq(Row), NEW t \in Seq(Row), NEW S, S \subseteq DOMAIN s, S \subseteq DOMAIN t
  PROVE  /\ (\A i \in S : t[i].amount = s[i].amount) =>
              SumFunctionOnSet(AmountsOf(t), S) = SumFunctionOnSet(AmountsOf(s), S)
         /\ (\A i \in S : t[i].placed = s[i].placed) =>
              SumFunctionOnSet(PlacedOf(t), S) = SumFunctionOnSet(PlacedOf(s), S)
<1>1. IsFiniteSet(S)
  BY SumsAre
<1>2. \A i \in S : /\ AmountsOf(t)[i] = t[i].amount /\ AmountsOf(s)[i] = s[i].amount
                   /\ PlacedOf(t)[i] = t[i].placed /\ PlacedOf(s)[i] = s[i].placed
  BY SumsAre
<1>3. ASSUME \A i \in S : t[i].amount = s[i].amount
      PROVE  SumFunctionOnSet(AmountsOf(t), S) = SumFunctionOnSet(AmountsOf(s), S)
  BY <1>1, <1>2, <1>3, SumOfSame
<1>4. ASSUME \A i \in S : t[i].placed = s[i].placed
      PROVE  SumFunctionOnSet(PlacedOf(t), S) = SumFunctionOnSet(PlacedOf(s), S)
  BY <1>1, <1>2, <1>4, SumOfSame
<1> QED BY <1>3, <1>4

\* A party whose rows are untouched is where it was.
LEMMA UntouchedFits ==
  ASSUME NEW s \in Seq(Row), NEW t \in Seq(Row), NEW p, Fits(s, p),
         DebtsOf(t, p) = DebtsOf(s, p), RepaysOf(t, p) = RepaysOf(s, p),
         \A i \in DebtsOf(s, p) : t[i].amount = s[i].amount,
         \A i \in RepaysOf(s, p) : t[i].placed = s[i].placed
  PROVE  Fits(t, p)
<1>1. /\ DebtsOf(s, p) \subseteq DOMAIN s /\ RepaysOf(s, p) \subseteq DOMAIN s
      /\ DebtsOf(s, p) \subseteq DOMAIN t /\ RepaysOf(s, p) \subseteq DOMAIN t
  BY PartySums
<1>2. DebtSum(t, p) = DebtSum(s, p)
  BY <1>1, SameSums DEF DebtSum
<1>3. PlacedSum(t, p) = PlacedSum(s, p)
  BY <1>1, SameSums DEF PlacedSum
<1> QED BY <1>2, <1>3 DEF Fits

\* A row that is added: a party's first debt, or a repayment as far as the debt goes.
LEMMA AddedFits ==
  ASSUME NEW s \in Seq(Row), NEW r \in Row, NEW t \in Seq(Row), NEW k, k \notin DOMAIN s,
         DOMAIN t = DOMAIN s \cup {k}, t[k] = r, \A i \in DOMAIN s : t[i] = s[i], NEW p, Fits(s, p),
         r.kind = "debt" /\ r.party = p => DebtsOf(s, p) = {},
         r.kind = "repay" /\ r.party = p => r.placed = Lesser(r.amount, DebtSum(s, p) - PlacedSum(s, p))
  PROVE  Fits(t, p)
<1>1. /\ DebtsOf(s, p) \subseteq DOMAIN t /\ RepaysOf(s, p) \subseteq DOMAIN t
      /\ \A i \in DebtsOf(s, p) : t[i].amount = s[i].amount
      /\ \A i \in RepaysOf(s, p) : t[i].placed = s[i].placed
  BY PartySums
<1>2. DebtsOf(t, p) = DebtsOf(s, p) \cup (IF r.live /\ r.kind = "debt" /\ r.party = p THEN {k} ELSE {})
  BY DEF DebtsOf
<1>3. RepaysOf(t, p) = RepaysOf(s, p) \cup (IF r.live /\ r.kind = "repay" /\ r.party = p THEN {k} ELSE {})
  BY DEF RepaysOf
<1>4. /\ DebtsOf(s, p) \subseteq DOMAIN s /\ RepaysOf(s, p) \subseteq DOMAIN s
      /\ DebtSum(s, p) \in Nat /\ PlacedSum(s, p) \in Nat
      /\ DebtSum(t, p) \in Nat /\ PlacedSum(t, p) \in Nat
  BY <1>1, PartySums
<1>5. CASE ~(r.live /\ r.kind \in {"debt", "repay"} /\ r.party = p)
  <2>1. DebtsOf(t, p) = DebtsOf(s, p) /\ RepaysOf(t, p) = RepaysOf(s, p)
    BY <1>2, <1>3, <1>5
  <2> QED BY <1>1, <1>4, <2>1, UntouchedFits
<1>6. CASE r.live /\ r.kind = "debt" /\ r.party = p
  <2>1. DebtsOf(t, p) = {k} /\ RepaysOf(t, p) = RepaysOf(s, p) /\ DebtsOf(s, p) = {}
    BY <1>2, <1>3, <1>6
  <2>2. PlacedSum(t, p) = PlacedSum(s, p)
    BY <1>1, <1>4, <2>1, SameSums DEF PlacedSum
  <2>3. DebtSum(s, p) = 0
    BY <2>1, SumOfNothing DEF DebtSum
  <2> QED BY <1>1, <1>4, <2>1, <2>2, <2>3 DEF Fits
<1>7. CASE r.live /\ r.kind = "repay" /\ r.party = p
  <2>1. /\ DebtsOf(t, p) = DebtsOf(s, p) /\ RepaysOf(t, p) = RepaysOf(s, p) \cup {k}
        /\ RepaysOf(t, p) \ {k} = RepaysOf(s, p) /\ k \in RepaysOf(t, p)
    BY <1>1, <1>2, <1>3, <1>4, <1>7
  <2>2. DebtSum(t, p) = DebtSum(s, p)
    BY <1>1, <1>4, <2>1, SameSums DEF DebtSum
  <2>3. SumFunctionOnSet(PlacedOf(t), RepaysOf(s, p)) = PlacedSum(s, p)
    BY <1>1, <1>4, SameSums DEF PlacedSum
  <2>4. PlacedSum(t, p) = r.placed + PlacedSum(s, p)
    <3>1. RepaysOf(t, p) \subseteq DOMAIN t
      BY PartySums
    <3>2. SumFunctionOnSet(PlacedOf(t), RepaysOf(t, p)) = r.placed + SumFunctionOnSet(PlacedOf(t), RepaysOf(t, p) \ {k})
      BY <2>1, <3>1, PlacedTakes
    <3> QED BY <2>1, <2>3, <3>2 DEF PlacedSum
  <2>5. r.amount \in Nat
    BY RowHas
  <2>6. PlacedSum(t, p) <= DebtSum(t, p)
    BY <1>4, <1>7, <2>2, <2>4, <2>5 DEF Lesser, Fits
  <2> QED BY <1>1, <2>1, <2>6 DEF Fits
<1> QED BY <1>5, <1>6, <1>7

\* That is what an entry that is appended is.
LEMMA Appended ==
  ASSUME NEW s \in Seq(Row), NEW r \in Row, NEW t, t = Append(s, r)
  PROVE  LET k == Len(s) + 1
         IN  /\ t \in Seq(Row) /\ Len(t) = k /\ DOMAIN t = DOMAIN s \cup {k} /\ k \notin DOMAIN s /\ t[k] = r
             /\ \A i \in DOMAIN s : t[i] = s[i]
  OBVIOUS

\* Rows that kept what they are and for whom.
Alike(s, t) ==
  /\ t \in Seq(Row) /\ Len(t) = Len(s) /\ DOMAIN t = DOMAIN s
  /\ \A i \in DOMAIN s : /\ t[i].kind = s[i].kind /\ t[i].party = s[i].party /\ t[i].from = s[i].from
                         /\ t[i].live => s[i].live

\* One of them changed.
LEMMA SumWith ==
  ASSUME NEW s \in Seq(Row), NEW t \in Seq(Row), DOMAIN t = DOMAIN s,
         NEW R, R \subseteq DOMAIN s, NEW i \in R, \A j \in DOMAIN s : j # i => t[j] = s[j]
  PROVE  /\ SumFunctionOnSet(PlacedOf(t), R) = t[i].placed + SumFunctionOnSet(PlacedOf(s), R \ {i})
         /\ t[i].placed \in Nat
<1>0. R \subseteq DOMAIN t /\ i \in R
  OBVIOUS
<1>1. /\ SumFunctionOnSet(PlacedOf(t), R) = t[i].placed + SumFunctionOnSet(PlacedOf(t), R \ {i})
      /\ t[i].placed \in Nat /\ SumFunctionOnSet(PlacedOf(t), R \ {i}) \in Nat
  BY <1>0, PlacedTakes
<1>2. R \ {i} \subseteq DOMAIN s /\ R \ {i} \subseteq DOMAIN t
  OBVIOUS
<1>3. \A j \in R \ {i} : t[j].placed = s[j].placed
  OBVIOUS
<1>4. SumFunctionOnSet(PlacedOf(t), R \ {i}) = SumFunctionOnSet(PlacedOf(s), R \ {i})
  BY <1>2, <1>3, SameSums
<1> QED BY <1>1, <1>4

\* A repayment of p is taken out, or placed again as far as the debt goes beside the others.
LEMMA RepaymentFits ==
  ASSUME NEW s \in Seq(Row), NEW t, Alike(s, t), NEW p, Fits(s, p), NEW i \in RepaysOf(s, p),
         \A j \in DOMAIN s : j # i => t[j] = s[j],
         t[i].live => t[i].placed <= DebtSum(s, p) - SumFunctionOnSet(PlacedOf(s), RepaysOf(s, p) \ {i})
  PROVE  Fits(t, p)
<1> DEFINE others == RepaysOf(s, p) \ {i}
<1>1. /\ DebtsOf(s, p) \subseteq DOMAIN s /\ others \subseteq DOMAIN s /\ i \in DOMAIN s
      /\ DebtSum(s, p) \in Nat /\ PlacedSum(s, p) \in Nat /\ DOMAIN t = DOMAIN s /\ t \in Seq(Row)
  BY PartySums DEF Alike
<1>2. DebtsOf(t, p) = DebtsOf(s, p)
  BY DEF DebtsOf, RepaysOf, Alike
<1>3. RepaysOf(t, p) = IF t[i].live THEN RepaysOf(s, p) ELSE others
  BY DEF RepaysOf, Alike
<1>4. i \notin DebtsOf(s, p)
  BY DEF DebtsOf, RepaysOf
<1>5. DebtSum(t, p) = DebtSum(s, p)
  BY <1>1, <1>2, <1>4, SameSums DEF DebtSum
<1> PICK o : o = SumFunctionOnSet(PlacedOf(s), others)
  OBVIOUS
<1>6. SumFunctionOnSet(PlacedOf(t), others) = o
  BY <1>1, SameSums
<1>7. PlacedSum(s, p) = s[i].placed + o /\ o \in Nat /\ s[i].placed \in Nat
  <2>1. RepaysOf(s, p) \subseteq DOMAIN s
    BY PartySums
  <2> QED BY <2>1, PlacedTakes DEF PlacedSum
<1>8. CASE ~t[i].live
  <2>1. PlacedSum(t, p) = o
    BY <1>3, <1>6, <1>8 DEF PlacedSum
  <2> QED BY <1>1, <1>2, <1>5, <1>7, <2>1 DEF Fits
<1>9. CASE t[i].live
  <2>1. RepaysOf(t, p) = RepaysOf(s, p)
    BY <1>3, <1>9
  <2>2. PlacedSum(t, p) = t[i].placed + o /\ t[i].placed \in Nat
    <3>1. RepaysOf(s, p) \subseteq DOMAIN t
      BY <1>1, <2>1, PartySums
    <3>2. SumFunctionOnSet(PlacedOf(t), RepaysOf(s, p)) = t[i].placed + o /\ t[i].placed \in Nat
      <4>1. RepaysOf(s, p) \subseteq DOMAIN s /\ t \in Seq(Row) /\ DOMAIN t = DOMAIN s
        BY <1>1, <3>1
      <4>2. /\ SumFunctionOnSet(PlacedOf(t), RepaysOf(s, p))
               = t[i].placed + SumFunctionOnSet(PlacedOf(s), RepaysOf(s, p) \ {i})
            /\ t[i].placed \in Nat
        BY <4>1, SumWith
      <4> QED BY <4>2
    <3> QED BY <2>1, <3>2 DEF PlacedSum
  <2>3. t[i].placed <= DebtSum(s, p) - o
    BY <1>9
  <2>4. PlacedSum(t, p) <= DebtSum(t, p)
    BY <1>1, <1>5, <1>7, <2>2, <2>3
  <2> QED BY <1>2, <2>4 DEF Fits
<1> QED BY <1>8, <1>9

\* A party none of whose entries changed.
LEMMA OthersFit ==
  ASSUME NEW s \in Seq(Row), NEW t, Alike(s, t), NEW p, Fits(s, p),
         \A j \in DOMAIN s : s[j].party = p /\ s[j].kind \in {"debt", "repay"} => t[j] = s[j]
  PROVE  Fits(t, p)
<1>1. DebtsOf(t, p) = DebtsOf(s, p) /\ RepaysOf(t, p) = RepaysOf(s, p)
  BY DEF Alike, DebtsOf, RepaysOf
<1>2. \A j \in DebtsOf(s, p) : t[j] = s[j]
  BY DEF DebtsOf
<1>3. \A j \in RepaysOf(s, p) : t[j] = s[j]
  BY DEF RepaysOf
<1>4. t \in Seq(Row)
  BY DEF Alike
<1> QED BY <1>1, <1>2, <1>3, <1>4, UntouchedFits

\* The repayments of p placed again on D: nothing else changes, and D is not exceeded.
Again(s, p, D, t) ==
  /\ Alike(s, t)
  /\ \A i \in DOMAIN s : t[i].amount = s[i].amount /\ t[i].live = s[i].live
  /\ \A i \in DOMAIN s : i \notin RepaysOf(s, p) => t[i] = s[i]
  /\ PlacedSum(t, p) <= D

\* That is what taking repayments back and placing them again does.
LEMMA PlacedAgainFits ==
  ASSUME NEW s \in Seq(Row), s = rows, NEW p, NEW D \in Nat, NEW t, t = PlacedAgain(p, D)
  PROVE  Again(s, p, D, t)
<1> DEFINE S == {i \in RepaysOf(s, p) : s[i].placed > 0}
           before(i) == SumFunctionOnSet(AmountsOf(s), {j \in S : j < i})
           G(i) == Lesser(s[i].amount, D - Lesser(D, before(i)))
<1>1. S \subseteq DOMAIN s /\ RepaysOf(s, p) \subseteq DOMAIN s
  BY PartySums
<1>2. t = [i \in DOMAIN s |-> IF i \in S THEN [s[i] EXCEPT !.placed = G(i)] ELSE s[i]]
  BY BooksAre DEF PlacedAgain, Sum, AmountsOf
<1>3. ASSUME NEW i \in DOMAIN s PROVE G(i) \in Nat
  <2>1. {j \in S : j < i} \subseteq DOMAIN s
    BY <1>1
  <2>2. before(i) \in Nat
    BY <2>1, SumsAre
  <2>3. s[i].amount \in Nat
    BY RowsAre, RowHas
  <2> HIDE DEF before
  <2> QED BY <2>2, <2>3 DEF Lesser
<1> HIDE DEF G, S
<1>4. ASSUME NEW i \in DOMAIN s
      PROVE  /\ t[i] \in Row /\ t[i].kind = s[i].kind /\ t[i].party = s[i].party /\ t[i].from = s[i].from
             /\ t[i].live = s[i].live /\ t[i].amount = s[i].amount
             /\ t[i].placed = IF i \in S THEN G(i) ELSE s[i].placed
             /\ i \notin S => t[i] = s[i]
  <2> PICK r \in Row : r = s[i]
    BY RowsAre
  <2> PICK g \in Nat : g = G(i)
    BY <1>3
  <2>1. t[i] = IF i \in S THEN [r EXCEPT !.placed = g] ELSE r
    BY <1>2
  <2> QED BY <2>1 DEF Row
<1>5. DOMAIN t = DOMAIN s /\ t \in Seq(Row) /\ Len(t) = Len(s)
  <2>1. DOMAIN t = 1 .. Len(s) /\ Len(s) \in Nat
    BY <1>2, RowsAre
  <2>2. t = [i \in 1 .. Len(s) |-> t[i]]
    BY <1>2, RowsAre
  <2>3. t \in [1 .. Len(s) -> Row]
    BY <1>4, <2>2, RowsAre
  <2> QED BY <2>1, <2>3, SeqDef, LenProperties, RowsAre
<1>6. Alike(s, t)
  BY <1>4, <1>5 DEF Alike
<1>7. SumFunctionOnSet(PlacedOf(t), S) <= D
  <2> PICK f : f = AmountsOf(s)
    OBVIOUS
  <2> PICK g : g = PlacedOf(t)
    OBVIOUS
  <2>1. IsFiniteSet(S) /\ \A x \in S : f[x] = s[x].amount /\ f[x] \in Nat
    BY <1>1, SumsAre
  <2>2. \A x \in S : g[x] = t[x].placed
    BY <1>1, <1>5 DEF PlacedOf
  <2>3. \A x \in S : x \in Nat
    BY <1>1, RowsAre
  <2>4. ASSUME NEW x \in S
        PROVE  LET b == SumFunctionOnSet(f, {y \in S : y < x})
                   left == D - (IF D <= b THEN D ELSE b)
               IN  g[x] = IF f[x] <= left THEN f[x] ELSE left
    <3>1. g[x] = G(x) /\ f[x] = s[x].amount
      BY <1>1, <1>4, <2>1, <2>2
    <3> QED BY <3>1 DEF G, Lesser
  <2> QED BY <2>1, <2>3, <2>4, PlacedInOrder
<1>8. RepaysOf(t, p) = RepaysOf(s, p)
  BY <1>4, <1>5 DEF RepaysOf
<1>9. PlacedSum(t, p) = SumFunctionOnSet(PlacedOf(t), S)
  <2> PICK g : g = PlacedOf(t)
    OBVIOUS
  <2> PICK R : R = RepaysOf(s, p)
    OBVIOUS
  <2>1. IsFiniteSet(R) /\ \A x \in R : g[x] = t[x].placed /\ g[x] \in Nat
    BY <1>1, <1>5, SumsAre
  <2>2. S \subseteq R
    BY DEF S
  <2>3. \A x \in R \ S : g[x] = 0
    <3> SUFFICES ASSUME NEW x \in R \ S PROVE g[x] = 0
      OBVIOUS
    <3>1. g[x] = s[x].placed /\ ~(s[x].placed > 0)
      BY <1>1, <1>4, <2>1 DEF S
    <3>2. g[x] \in Nat
      BY <2>1
    <3> QED BY <3>1, <3>2
  <2>4. \A x \in S : g[x] \in Int
    BY <2>1, <2>2
  <2>5. SumFunctionOnSet(g, R) = SumFunctionOnSet(g, S)
    BY <2>1, <2>2, <2>3, <2>4, SumOfPart
  <2> QED BY <1>8, <2>5 DEF PlacedSum
<1>10. \A i \in DOMAIN s : i \notin RepaysOf(s, p) => t[i] = s[i]
  BY <1>4 DEF S
<1> QED BY <1>4, <1>6, <1>7, <1>9, <1>10 DEF Again

\* One row of b is rewritten.
Rewrites(b, i, row, t) ==
  /\ t \in Seq(Row) /\ Len(t) = Len(b) /\ \A j \in 1 .. Len(b) : t[j] = IF j = i THEN row ELSE b[j]
  /\ row.kind = b[i].kind /\ row.party = b[i].party /\ row.from = b[i].from /\ (row.live => b[i].live)

LEMMA OneRewritten ==
  ASSUME NEW s \in Seq(Row), NEW b, Alike(s, b), NEW i \in DOMAIN s, NEW row, NEW t, Rewrites(b, i, row, t)
  PROVE  Alike(s, t) /\ t[i] = row /\ \A j \in DOMAIN s : j # i => t[j] = b[j]
<1>1. Len(b) = Len(s) /\ DOMAIN s = 1 .. Len(s) /\ DOMAIN t = 1 .. Len(t) /\ t \in Seq(Row) /\ Len(t) = Len(b)
  BY DEF Alike, Rewrites
<1>2. \A j \in DOMAIN s : t[j] = IF j = i THEN row ELSE b[j]
  BY <1>1 DEF Rewrites
<1>3. \A j \in DOMAIN s : b[j].kind = s[j].kind /\ b[j].party = s[j].party /\ b[j].from = s[j].from /\ (b[j].live => s[j].live)
  BY DEF Alike
<1>4. \A j \in DOMAIN s : t[j].kind = s[j].kind /\ t[j].party = s[j].party /\ t[j].from = s[j].from /\ (t[j].live => s[j].live)
  BY <1>2, <1>3 DEF Rewrites
<1> QED BY <1>1, <1>2, <1>4 DEF Alike

\* A debt whose row is rewritten once the repayments on it are placed again on D.
LEMMA DebtFits ==
  ASSUME NEW s \in Seq(Row), NEW i \in DOMAIN s, s[i].kind = "debt", s[i].live, NEW D \in Nat,
         NEW b, Again(s, s[i].party, D, b), NEW t, Alike(s, t), \A j \in DOMAIN s : j # i => t[j] = b[j],
         IF t[i].live THEN t[i].amount = D ELSE D = 0,
         NEW p, Fits(s, p)
  PROVE  Fits(t, p)
<1>1. /\ Alike(s, b) /\ PlacedSum(b, s[i].party) <= D
      /\ \A j \in DOMAIN s : j \notin RepaysOf(s, s[i].party) => b[j] = s[j]
      /\ \A j \in DOMAIN s : b[j].live = s[j].live
  BY DEF Again
<1>2. \A j \in DOMAIN s : j # i => t[j] = b[j]
  OBVIOUS
<1>3. CASE p # s[i].party
  <2>1. \A j \in DOMAIN s : s[j].party = p /\ s[j].kind \in {"debt", "repay"} => t[j] = s[j]
    BY <1>1, <1>2, <1>3 DEF RepaysOf
  <2> QED BY <2>1, OthersFit
<1>4. CASE p = s[i].party
  <2>1. t \in Seq(Row) /\ b \in Seq(Row) /\ DOMAIN t = DOMAIN s /\ DOMAIN b = DOMAIN s
    BY <1>1, <1>2 DEF Alike
  <2>2. i \notin RepaysOf(b, p) /\ RepaysOf(t, p) = RepaysOf(b, p)
    BY <1>1, <1>2, <2>1 DEF RepaysOf, Alike
  <2>3. RepaysOf(b, p) \subseteq DOMAIN s
    BY <2>1 DEF RepaysOf
  <2>4. \A j \in RepaysOf(b, p) : t[j].placed = b[j].placed
    BY <1>2, <2>2, <2>3
  <2>5. PlacedSum(t, p) = PlacedSum(b, p)
    BY <2>1, <2>2, <2>3, <2>4, SameSums DEF PlacedSum
  <2>6. DebtsOf(t, p) \subseteq {i} /\ (t[i].live => i \in DebtsOf(t, p))
    <3>1. DebtsOf(s, p) = {i}
      BY <1>4 DEF Fits, DebtsOf
    <3>2. DebtsOf(t, p) \subseteq DebtsOf(s, p)
      BY <1>2, <2>1 DEF DebtsOf, Alike
    <3>3. t[i].kind = "debt" /\ t[i].party = p
      BY <1>2, <1>4 DEF Alike
    <3>4. i \in DOMAIN t
      BY <2>1
    <3>5. t[i].live => i \in DebtsOf(t, p)
      BY <3>3, <3>4 DEF DebtsOf
    <3> QED BY <3>1, <3>2, <3>5
  <2>7. D <= DebtSum(t, p)
    <3>1. DebtsOf(t, p) \subseteq DOMAIN t /\ DebtSum(t, p) \in Nat
      BY <2>1, PartySums
    <3>2. CASE t[i].live
      <4>1. /\ IsFiniteSet(DebtsOf(t, p)) /\ \A j \in DebtsOf(t, p) : AmountsOf(t)[j] \in Nat
            /\ AmountsOf(t)[i] = D
        BY <1>2, <2>1, <2>6, <3>1, <3>2, SumsAre
      <4>2. AmountsOf(t)[i] <= SumFunctionOnSet(AmountsOf(t), DebtsOf(t, p))
        BY <2>6, <3>2, <4>1, SumIsNat
      <4> QED BY <4>1, <4>2 DEF DebtSum
    <3>3. CASE ~t[i].live
      BY <3>1, <3>3
    <3> QED BY <3>2, <3>3
  <2>8. PlacedSum(t, p) \in Nat /\ DebtSum(t, p) \in Nat
    BY <2>1, PartySums
  <2>9. PlacedSum(t, p) <= DebtSum(t, p)
    BY <1>1, <1>4, <2>5, <2>7, <2>8
  <2> QED BY <2>6, <2>9 DEF Fits
<1> QED BY <1>3, <1>4

\* The entry r joins the others at k.
Joins(s, r, k, t, p) ==
  /\ t \in Seq(Row) /\ k \notin DOMAIN s /\ DOMAIN t = DOMAIN s \cup {k} /\ t[k] = r
  /\ \A i \in DOMAIN s : t[i] = s[i]
  /\ r.kind = "debt" /\ r.party = p => DebtsOf(s, p) = {}
  /\ r.kind = "repay" /\ r.party = p => r.placed = Lesser(r.amount, DebtSum(s, p) - PlacedSum(s, p))

LEMMA JoinedFits ==
  ASSUME NEW s \in Seq(Row), NEW r \in Row, NEW k, NEW t, NEW p, Joins(s, r, k, t, p), Fits(s, p)
  PROVE  Fits(t, p)
<1>1. t \in Seq(Row) /\ k \notin DOMAIN s /\ DOMAIN t = DOMAIN s \cup {k} /\ t[k] = r /\ \A i \in DOMAIN s : t[i] = s[i]
  BY DEF Joins
<1>2. r.kind = "debt" /\ r.party = p => DebtsOf(s, p) = {}
  BY DEF Joins
<1>3. r.kind = "repay" /\ r.party = p => r.placed = Lesser(r.amount, DebtSum(s, p) - PlacedSum(s, p))
  BY DEF Joins
<1> QED BY <1>1, <1>2, <1>3, AddedFits

\* An entry that is changed, b being what placing its party's repayments again left.
Changes(s, i, D, b, t) ==
  /\ s[i].live
  /\ s[i].kind = "debt" => Again(s, s[i].party, D, b)
  /\ s[i].kind # "debt" => b = s
  /\ Alike(s, t) /\ \A j \in DOMAIN s : j # i => t[j] = b[j]
  /\ s[i].kind = "debt" => IF t[i].live THEN t[i].amount = D ELSE D = 0
  /\ s[i].kind = "repay" /\ t[i].live =>
       t[i].placed <= DebtSum(s, s[i].party) - SumFunctionOnSet(PlacedOf(s), RepaysOf(s, s[i].party) \ {i})

LEMMA ChangedFits ==
  ASSUME NEW s \in Seq(Row), NEW i \in DOMAIN s, NEW D \in Nat, NEW b, NEW t, Changes(s, i, D, b, t),
         NEW p, Fits(s, p)
  PROVE  Fits(t, p)
<1>0. /\ s[i].live
      /\ s[i].kind = "debt" => Again(s, s[i].party, D, b)
      /\ s[i].kind # "debt" => b = s
      /\ Alike(s, t) /\ \A j \in DOMAIN s : j # i => t[j] = b[j]
      /\ s[i].kind = "debt" => IF t[i].live THEN t[i].amount = D ELSE D = 0
      /\ s[i].kind = "repay" /\ t[i].live =>
           t[i].placed <= DebtSum(s, s[i].party) - SumFunctionOnSet(PlacedOf(s), RepaysOf(s, s[i].party) \ {i})
  BY DEF Changes
<1>1. CASE s[i].kind = "debt"
  BY <1>0, <1>1, DebtFits
<1>2. CASE s[i].kind = "repay"
  <2>1. Alike(s, t) /\ \A j \in DOMAIN s : j # i => t[j] = s[j]
    BY <1>0, <1>2
  <2>2. CASE p = s[i].party
    <3>1. i \in RepaysOf(s, p)
      BY <1>0, <1>2, <2>2 DEF RepaysOf
    <3>2. t[i].live => t[i].placed <= DebtSum(s, p) - SumFunctionOnSet(PlacedOf(s), RepaysOf(s, p) \ {i})
      BY <1>0, <1>2, <2>2
    <3> QED BY <2>1, <3>1, <3>2, RepaymentFits
  <2>3. CASE p # s[i].party
    <3>1. \A j \in DOMAIN s : s[j].party = p /\ s[j].kind \in {"debt", "repay"} => t[j] = s[j]
      BY <2>1, <2>3
    <3> QED BY <2>1, <3>1, OthersFit
  <2> QED BY <2>2, <2>3
<1>3. CASE s[i].kind \notin {"debt", "repay"}
  <2>1. Alike(s, t) /\ \A j \in DOMAIN s : s[j].party = p /\ s[j].kind \in {"debt", "repay"} => t[j] = s[j]
    BY <1>0, <1>3
  <2> QED BY <2>1, OthersFit
<1> QED BY <1>1, <1>2, <1>3

\* The books add up: no party's repayments are placed beyond its debt.
BooksInv ==
  /\ BooksTypeOK
  /\ \A p \in Parties \cup {NoParty} : Fits(rows, p)

\* What placing repayments again leaves before the entry itself is changed.
LEMMA BeforeChange ==
  ASSUME rows \in Seq(Row), NEW i \in DOMAIN rows, NEW D \in Nat,
         NEW b, b = IF rows[i].kind = "debt" THEN PlacedAgain(rows[i].party, D) ELSE rows
  PROVE  /\ Alike(rows, b) /\ \A j \in DOMAIN rows : b[j].live = rows[j].live
         /\ rows[i].kind = "debt" => Again(rows, rows[i].party, D, b)
         /\ rows[i].kind # "debt" => b = rows
         /\ b[i] \in Row /\ b[i].kind = rows[i].kind /\ b[i].party = rows[i].party /\ b[i].from = rows[i].from
         /\ b[i].live = rows[i].live /\ b[i].amount = rows[i].amount
<1>1. CASE rows[i].kind = "debt"
  <2>1. b = PlacedAgain(rows[i].party, D)
    BY <1>1
  <2>2. PICK s \in Seq(Row) : s = rows
    OBVIOUS
  <2>3. PICK q : q = rows[i].party
    OBVIOUS
  <2>4. b = PlacedAgain(q, D)
    BY <2>1, <2>3
  <2>5. Again(s, q, D, b)
    BY <2>2, <2>4, PlacedAgainFits
  <2>6. Again(rows, rows[i].party, D, b)
    BY <2>2, <2>3, <2>5
  <2>7. Alike(s, b) /\ \A j \in DOMAIN s : b[j].live = s[j].live /\ b[j].amount = s[j].amount
    BY <2>5 DEF Again
  <2>8. b \in Seq(Row) /\ i \in DOMAIN b
    BY <2>2, <2>7 DEF Alike
  <2>9. b[i] \in Row
    BY <2>8, RowsAre
  <2> QED BY <1>1, <2>2, <2>6, <2>7, <2>9 DEF Alike
<1>2. CASE rows[i].kind # "debt"
  <2>1. b = rows
    BY <1>2
  <2>2. rows[i] \in Row
    BY RowsAre
  <2> QED BY <1>2, <2>1, <2>2 DEF Alike
<1> QED BY <1>1, <1>2

\* Undoing an entry takes it out and leaves every debt above what is placed on it.
LEMMA UndoKeeps ==
  ASSUME BooksInv, NEW i \in DOMAIN rows, Undo(i)
  PROVE  Alike(rows, rows') /\ ~rows'[i].live /\ BooksInv'
<1>1. rows \in Seq(Row) /\ Len(rows) <= MaxRows /\ tool \in Tool /\ calls \in 0 .. MaxCalls /\ mishaps \in 0 .. MaxMishaps
  BY DEF BooksInv, BooksTypeOK
<1>2. rows[i].live /\ tool' = tool /\ calls < MaxCalls /\ calls' = calls + 1 /\ mishaps' = mishaps
  BY DEF Undo, Call
<1> PICK b : b = IF rows[i].kind = "debt" THEN PlacedAgain(rows[i].party, 0) ELSE rows
  OBVIOUS
<1>3. rows' = [b EXCEPT ![i].live = FALSE, ![i].placed = 0]
  BY DEF Undo
<1>4. /\ Alike(rows, b) /\ \A j \in DOMAIN rows : b[j].live = rows[j].live
      /\ rows[i].kind = "debt" => Again(rows, rows[i].party, 0, b)
      /\ rows[i].kind # "debt" => b = rows
      /\ b[i] \in Row /\ b[i].kind = rows[i].kind /\ b[i].party = rows[i].party /\ b[i].from = rows[i].from
  BY <1>1, BeforeChange
<1> PICK old \in Row : old = b[i]
  BY <1>4
<1> PICK mid : mid = [old EXCEPT !.live = FALSE]
  OBVIOUS
<1>5. mid \in Row /\ mid.live = FALSE /\ mid.kind = old.kind /\ mid.party = old.party /\ mid.from = old.from
  BY DEF Row
<1> PICK new : new = [mid EXCEPT !.placed = 0]
  OBVIOUS
<1>6. new \in Row /\ new.live = FALSE /\ new.kind = old.kind /\ new.party = old.party /\ new.from = old.from
  BY <1>5 DEF Row
<1>7. rows' = [b EXCEPT ![i] = new]
  BY <1>3
<1>8. Alike(rows, rows') /\ rows'[i] = new /\ \A j \in DOMAIN rows : j # i => rows'[j] = b[j]
  <2>1. b \in Seq(Row) /\ i \in 1 .. Len(b) /\ Len(b) = Len(rows) /\ DOMAIN rows = 1 .. Len(rows)
    BY <1>1, <1>4 DEF Alike
  <2>2. /\ rows' \in Seq(Row) /\ Len(rows') = Len(b)
        /\ \A j \in 1 .. Len(b) : rows'[j] = IF j = i THEN new ELSE b[j]
    BY <1>6, <1>7, <2>1, ExceptSeq
  <2>3. Rewrites(b, i, new, rows')
    BY <1>4, <1>6, <2>2 DEF Rewrites
  <2> QED BY <1>1, <1>4, <2>3, OneRewritten
<1>9. ASSUME NEW p \in Parties \cup {NoParty} PROVE Fits(rows', p)
  <2>1. Fits(rows, p)
    BY DEF BooksInv
  <2>2. Changes(rows, i, 0, b, rows')
    BY <1>2, <1>4, <1>6, <1>8 DEF Changes
  <2> QED BY <1>1, <2>1, <2>2, ChangedFits
<1>10. rows' \in Seq(Row) /\ Len(rows') = Len(rows)
  BY <1>8 DEF Alike
<1>11. calls' \in 0 .. MaxCalls
  BY <1>1, <1>2, BoundsAreNatural
<1>12. BooksTypeOK'
  BY <1>1, <1>2, <1>10, <1>11 DEF BooksTypeOK
<1> QED BY <1>6, <1>8, <1>9, <1>12 DEF BooksInv

\* So does giving it another amount.
LEMMA ClarifyKeeps ==
  ASSUME BooksInv, NEW i \in DOMAIN rows, NEW a \in Amounts, Clarify(i, a)
  PROVE  Alike(rows, rows') /\ rows'[i].live = rows[i].live /\ BooksInv'
<1>1. rows \in Seq(Row) /\ Len(rows) <= MaxRows /\ tool \in Tool /\ calls \in 0 .. MaxCalls /\ mishaps \in 0 .. MaxMishaps
  BY DEF BooksInv, BooksTypeOK
<1>2. rows[i].live /\ tool' = tool /\ calls < MaxCalls /\ calls' = calls + 1 /\ mishaps' = mishaps
  BY DEF Clarify, Call
<1>3. a \in Nat
  BY AmountsArePositive
<1> PICK b : b = IF rows[i].kind = "debt" THEN PlacedAgain(rows[i].party, a) ELSE rows
  OBVIOUS
<1> PICK left : left = DebtSum(rows, rows[i].party) - SumFunctionOnSet(PlacedOf(rows), RepaysOf(rows, rows[i].party) \ {i})
  OBVIOUS
<1> PICK placed : placed = IF rows[i].kind = "repay" THEN Lesser(a, left) ELSE 0
  OBVIOUS
<1>4. rows' = [b EXCEPT ![i].amount = a, ![i].placed = placed]
  BY BooksAre DEF Clarify, Sum, Placed, DebtSum, AmountsOf, PlacedOf
<1>5. rows[i] \in Row /\ rows[i].party \in Parties \cup {NoParty} /\ rows[i].live \in BOOLEAN
  BY <1>1, RowsAre, RowHas
<1>6. /\ Alike(rows, b) /\ \A j \in DOMAIN rows : b[j].live = rows[j].live
      /\ rows[i].kind = "debt" => Again(rows, rows[i].party, a, b)
      /\ rows[i].kind # "debt" => b = rows
      /\ b[i] \in Row /\ b[i].kind = rows[i].kind /\ b[i].party = rows[i].party /\ b[i].from = rows[i].from
      /\ b[i].live = rows[i].live
  BY <1>1, <1>3, BeforeChange
<1>7. placed \in Nat /\ (rows[i].kind = "repay" => placed <= left)
  <2>1. CASE rows[i].kind = "repay"
    <3>1. PICK q \in Parties \cup {NoParty} : q = rows[i].party
      BY <1>5
    <3>2. Fits(rows, q)
      BY DEF BooksInv
    <3>3. RepaysOf(rows, q) \subseteq DOMAIN rows /\ DebtSum(rows, q) \in Nat /\ PlacedSum(rows, q) \in Nat
      BY <1>1, PartySums
    <3>4. i \in RepaysOf(rows, q)
      BY <1>2, <2>1, <3>1 DEF RepaysOf
    <3>5. PICK o : o = SumFunctionOnSet(PlacedOf(rows), RepaysOf(rows, q) \ {i})
      OBVIOUS
    <3>6. /\ SumFunctionOnSet(PlacedOf(rows), RepaysOf(rows, q))
              = rows[i].placed + SumFunctionOnSet(PlacedOf(rows), RepaysOf(rows, q) \ {i})
          /\ rows[i].placed \in Nat /\ SumFunctionOnSet(PlacedOf(rows), RepaysOf(rows, q) \ {i}) \in Nat
      BY <1>1, <3>3, <3>4, PlacedTakes
    <3>7. o \in Nat /\ rows[i].placed \in Nat /\ PlacedSum(rows, q) = rows[i].placed + o
      BY <3>5, <3>6 DEF PlacedSum
    <3>8. left = DebtSum(rows, q) - o
      BY <3>1, <3>5
    <3>9. PlacedSum(rows, q) <= DebtSum(rows, q)
      BY <3>2 DEF Fits
    <3>10. left \in Nat
      BY <3>3, <3>7, <3>8, <3>9
    <3> QED BY <1>3, <2>1, <3>10 DEF Lesser
  <2>2. CASE rows[i].kind # "repay"
    BY <2>2
  <2> QED BY <2>1, <2>2
<1> PICK old \in Row : old = b[i]
  BY <1>6
<1> PICK mid : mid = [old EXCEPT !.amount = a]
  OBVIOUS
<1>8. mid \in Row /\ mid.amount = a /\ mid.live = old.live /\ mid.kind = old.kind /\ mid.party = old.party /\ mid.from = old.from
  BY DEF Row
<1> PICK new : new = [mid EXCEPT !.placed = placed]
  OBVIOUS
<1>9. /\ new \in Row /\ new.amount = a /\ new.placed = placed /\ new.live = old.live
      /\ new.kind = old.kind /\ new.party = old.party /\ new.from = old.from
  BY <1>7, <1>8 DEF Row
<1>10. rows' = [b EXCEPT ![i] = new]
  BY <1>4
<1>11. Alike(rows, rows') /\ rows'[i] = new /\ \A j \in DOMAIN rows : j # i => rows'[j] = b[j]
  <2>1. b \in Seq(Row) /\ i \in 1 .. Len(b) /\ Len(b) = Len(rows) /\ DOMAIN rows = 1 .. Len(rows)
    BY <1>1, <1>6 DEF Alike
  <2>2. /\ rows' \in Seq(Row) /\ Len(rows') = Len(b)
        /\ \A j \in 1 .. Len(b) : rows'[j] = IF j = i THEN new ELSE b[j]
    BY <1>9, <1>10, <2>1, ExceptSeq
  <2>3. Rewrites(b, i, new, rows')
    BY <1>6, <1>9, <2>2 DEF Rewrites
  <2> QED BY <1>1, <1>6, <2>3, OneRewritten
<1>12. ASSUME NEW p \in Parties \cup {NoParty} PROVE Fits(rows', p)
  <2>1. Fits(rows, p)
    BY DEF BooksInv
  <2>2. rows'[i].live /\ rows'[i].amount = a /\ rows'[i].placed = placed
    BY <1>2, <1>6, <1>9, <1>11
  <2>3. rows[i].kind = "repay" =>
          rows'[i].placed <= DebtSum(rows, rows[i].party)
                               - SumFunctionOnSet(PlacedOf(rows), RepaysOf(rows, rows[i].party) \ {i})
    BY <1>7, <2>2
  <2>4. Changes(rows, i, a, b, rows')
    BY <1>2, <1>6, <1>11, <2>2, <2>3 DEF Changes
  <2> QED BY <1>1, <1>3, <2>1, <2>4, ChangedFits
<1>13. rows' \in Seq(Row) /\ Len(rows') = Len(rows)
  BY <1>11 DEF Alike
<1>14. calls' \in 0 .. MaxCalls
  BY <1>1, <1>2, BoundsAreNatural
<1>15. BooksTypeOK'
  BY <1>1, <1>2, <1>13, <1>14 DEF BooksTypeOK
<1>16. BooksInv'
  BY <1>12, <1>15 DEF BooksInv
<1>17. rows'[i].live = rows[i].live
  BY <1>6, <1>9, <1>11
<1> QED BY <1>11, <1>16, <1>17

\* What recording an entry for the alert t leaves (NoText: the trader typed it in).
Grows(t) ==
  LET k == Len(rows) + 1
  IN  /\ rows' \in Seq(Row) /\ Len(rows') = k /\ k <= MaxRows /\ DOMAIN rows' = DOMAIN rows \cup {k}
      /\ k \notin DOMAIN rows /\ \A i \in DOMAIN rows : rows'[i] = rows[i]
      /\ rows'[k].from = t

\* Recording puts a repayment on the debt as far as it goes, and no further.
LEMMA RecordKeeps ==
  ASSUME BooksInv, NEW kind \in {"debt", "money", "repay"}, NEW p \in Parties \cup {NoParty},
         NEW a \in Amounts, NEW t \in Texts \cup {NoText}, Len(rows) < MaxRows,
         kind = "debt" => Debts(p) = {}, rows' = Recorded(kind, p, a, t)
  PROVE  Grows(t) /\ \A q \in Parties \cup {NoParty} : Fits(rows', q)
<1>1. rows \in Seq(Row) /\ MaxRows \in Nat /\ a \in Nat /\ Len(rows) \in Nat
  BY BoundsAreNatural, AmountsArePositive DEF BooksInv, BooksTypeOK
<1>2. Owed(p) \in Nat /\ Owed(p) = DebtSum(rows, p) - PlacedSum(rows, p)
  BY <1>1, OwedIsNat, BooksAre DEF BooksInv
<1> PICK placed : placed = IF kind = "repay" THEN Lesser(a, Owed(p)) ELSE 0
  OBVIOUS
<1>3. placed \in Nat
  BY <1>1, <1>2 DEF Lesser
<1> PICK r : r = [kind |-> kind, party |-> p, amount |-> a, from |-> t, live |-> TRUE, placed |-> placed]
  OBVIOUS
<1>4. r \in Row /\ r.kind = kind /\ r.party = p /\ r.amount = a /\ r.from = t /\ r.placed = placed
  BY <1>3 DEF Row
<1>5. rows' = Append(rows, r)
  BY DEF Recorded
<1> PICK k : k = Len(rows) + 1
  OBVIOUS
<1>6. /\ rows' \in Seq(Row) /\ Len(rows') = k /\ DOMAIN rows' = DOMAIN rows \cup {k} /\ k \notin DOMAIN rows
      /\ rows'[k] = r /\ \A i \in DOMAIN rows : rows'[i] = rows[i]
  <2>1. /\ rows' \in Seq(Row) /\ Len(rows') = Len(rows) + 1
        /\ \A i \in 1 .. Len(rows) : rows'[i] = rows[i]
        /\ rows'[Len(rows) + 1] = r
    BY <1>1, <1>4, <1>5, AppendProperties
  <2>2. DOMAIN rows = 1 .. Len(rows) /\ DOMAIN rows' = 1 .. Len(rows')
    BY <1>1, <2>1, RowsAre
  <2>3. 1 .. Len(rows') = (1 .. Len(rows)) \cup {k} /\ k \notin 1 .. Len(rows)
    BY <1>1, <2>1
  <2> QED BY <2>1, <2>2, <2>3
<1>7. k <= MaxRows
  BY <1>1
<1>8. Grows(t)
  BY <1>4, <1>6, <1>7 DEF Grows
<1>9. ASSUME NEW q \in Parties \cup {NoParty} PROVE Fits(rows', q)
  <2>1. Fits(rows, q)
    BY DEF BooksInv
  <2>2. r.kind = "debt" /\ r.party = q => DebtsOf(rows, q) = {}
    BY <1>4, BooksAre
  <2>3. r.kind = "repay" /\ r.party = q => r.placed = Lesser(r.amount, DebtSum(rows, q) - PlacedSum(rows, q))
    BY <1>2, <1>4
  <2>4. Joins(rows, r, k, rows', q)
    BY <1>6, <2>2, <2>3 DEF Joins
  <2> QED BY <1>1, <1>4, <2>1, <2>4, JoinedFits
<1> QED BY <1>8, <1>9

-----------------------------------------------------------------------------
(* Types. *)

\* The turn's tool knows its alert, its reminder.
ToolFits ==
  /\ tool.at = "link" => tool.text \in Texts
  /\ tool.at \in {"send", "sent"} => tool.draft \in DOMAIN drafts

TInv == BooksInv /\ AlertsTypeOK /\ RemindersTypeOK /\ ToolFits

LEMMA TInvGives ==
  ASSUME TInv
  PROVE  TypeOK
<1>1. ASSUME NEW p \in Parties PROVE Owed(p) \in Nat
  <2>1. rows \in Seq(Row) /\ Fits(rows, p)
    BY DEF TInv, BooksInv, BooksTypeOK
  <2> QED BY <2>1, OwedIsNat
<1> QED BY <1>1 DEF TInv, TypeOK, BooksInv

\* What a tool under way is.
LEMMA IdleIs ==
  Idle \in Tool /\ Idle.at = "idle" /\ Idle.draft = 0
  BY BoundsAreNatural DEF Tool, Idle

Linking(t, k) == [Idle EXCEPT !.at = "link", !.text = t, !.row = k]

LEMMA LinkIs ==
  ASSUME NEW t \in Texts, NEW k \in 0 .. MaxRows, NEW w, w = Linking(t, k)
  PROVE  w \in Tool /\ w.at = "link" /\ w.text = t /\ w.row = k
<1> PICK idle \in Tool : idle = Idle
  BY IdleIs
<1> PICK u : u = [idle EXCEPT !.at = "link"]
  OBVIOUS
<1>1. u \in Tool /\ u.at = "link"
  BY DEF Tool
<1> PICK v : v = [u EXCEPT !.text = t]
  OBVIOUS
<1>2. v \in Tool /\ v.at = "link" /\ v.text = t
  BY <1>1 DEF Tool
<1>3. w = [v EXCEPT !.row = k]
  BY DEF Linking
<1> QED BY <1>2, <1>3 DEF Tool

LEMMA SendIs ==
  ASSUME NEW i \in 0 .. MaxDrafts, NEW w, w = [Idle EXCEPT !.at = "send", !.draft = i]
  PROVE  w \in Tool /\ w.at = "send" /\ w.draft = i
<1> PICK idle \in Tool : idle = Idle
  BY IdleIs
<1> PICK u : u = [idle EXCEPT !.at = "send"]
  OBVIOUS
<1>1. u \in Tool /\ u.at = "send"
  BY DEF Tool
<1>2. w = [u EXCEPT !.draft = i]
  OBVIOUS
<1> QED BY <1>1, <1>2 DEF Tool

LEMMA SentIs ==
  ASSUME NEW w \in Tool, NEW v, v = [w EXCEPT !.at = "sent"]
  PROVE  v \in Tool /\ v.at = "sent" /\ v.draft = w.draft
  BY DEF Tool

\* A call is counted.
LEMMA CallIs ==
  ASSUME BooksTypeOK, Call
  PROVE  calls' \in 0 .. MaxCalls /\ mishaps' \in 0 .. MaxMishaps
  BY BoundsAreNatural DEF BooksTypeOK, Call

\* So is a turn that fails.
LEMMA MishapIs ==
  ASSUME BooksTypeOK, mishaps < MaxMishaps, mishaps' = mishaps + 1
  PROVE  mishaps' \in 0 .. MaxMishaps
  BY BoundsAreNatural DEF BooksTypeOK

\* Nothing else of the books changes.
LEMMA BooksStay ==
  ASSUME BooksInv, rows' = rows, tool' \in Tool, calls' \in 0 .. MaxCalls, mishaps' \in 0 .. MaxMishaps
  PROVE  BooksInv'
  BY DEF BooksInv, BooksTypeOK

LEMMA TypesInit ==
  ASSUME Init
  PROVE  TInv
<1>1. PICK q \in Parties, a \in Amounts : rows = <<OldDebt(q, a)>>
  BY DEF Init
<1> PICK r : r = OldDebt(q, a)
  OBVIOUS
<1>2. r \in Row /\ r.kind = "debt" /\ a \in Nat
  BY AmountsArePositive DEF OldDebt, Row
<1>3. rows = <<r>>
  BY <1>1
<1>4. rows \in Seq(Row) /\ Len(rows) = 1 /\ DOMAIN rows = {1} /\ rows[1] = r
  BY <1>2, <1>3
<1>5. ASSUME NEW p \in Parties \cup {NoParty} PROVE Fits(rows, p)
  <2>1. RepaysOf(rows, p) = {} /\ \A i, j \in DebtsOf(rows, p) : i = j
    BY <1>2, <1>4 DEF RepaysOf, DebtsOf
  <2>2. PlacedSum(rows, p) = 0
    BY <2>1, SumOfNothing DEF PlacedSum
  <2>3. DebtSum(rows, p) \in Nat
    BY <1>4, PartySums
  <2> QED BY <2>1, <2>2, <2>3 DEF Fits
<1>6. tool = Idle /\ calls = 0 /\ mishaps = 0
  BY DEF Init
<1>7. BooksTypeOK
  <2>1. tool \in Tool
    BY <1>6, IdleIs
  <2>2. 1 <= MaxRows /\ 0 \in 0 .. MaxCalls /\ 0 \in 0 .. MaxMishaps
    BY BoundsAreNatural
  <2> QED BY <1>4, <1>6, <2>1, <2>2 DEF BooksTypeOK
<1>8. AlertsTypeOK
  BY BoundsAreNatural DEF Init, AlertsInit, AlertsTypeOK, Alert, NoAlert
<1>9. RemindersTypeOK
  <2>1. /\ day = 0 /\ contacts = Contacts /\ drafts = <<>> /\ drafted = {} /\ optedOut = {}
        /\ inbox = <<>> /\ stopped = {} /\ adrift = {} /\ shifted = FALSE
    BY DEF Init, RemindersInit
  <2>2. 0 \in 0 .. LastDay /\ 0 <= MaxDrafts
    BY BoundsAreNatural, LimitsAreNatural
  <2>3. drafts \in Seq(Draft) /\ Len(drafts) = 0 /\ inbox \in Seq(Message)
    BY <2>1
  <2> QED BY <2>1, <2>2, <2>3, ContactsAreNumbers DEF RemindersTypeOK
<1>10. ToolFits
  BY <1>6, IdleIs DEF ToolFits
<1> QED BY <1>5, <1>7, <1>8, <1>9, <1>10 DEF TInv, BooksInv

\* An alert that is written.
LEMMA AlertWritten ==
  ASSUME AlertsTypeOK, NEW t,
         \/ \E k \in 0 .. MaxRows, s \in {"none", "pending", "recorded", "already_recorded", "ignored"} :
              alerts' = [alerts EXCEPT ![t] = [status |-> s, row |-> k]]
         \/ alerts' = [alerts EXCEPT ![t].status = "ignored"]
  PROVE  alerts' \in [Texts -> Alert]
  BY DEF AlertsTypeOK, Alert

\* The trader's bookkeeping.
LEMMA KeepTypes ==
  ASSUME TInv, Keep
  PROVE  /\ TInv' /\ tool = Idle
         /\ Grows(NoText) \/ Alike(rows, rows')
<1>1. UNCHANGED <<tool, alertVars, reminderVars>> /\ tool = Idle
  BY DEF Keep, Type, Undo
<1>2. BooksInv' /\ (Grows(NoText) \/ Alike(rows, rows'))
  <2>1. CASE \E i \in DOMAIN rows : Undo(i)
    BY <2>1, UndoKeeps DEF TInv
  <2>2. ASSUME NEW kind \in {"debt", "money", "repay"}, NEW p \in Parties \cup {NoParty}, NEW a \in Amounts,
               Type(kind, p, a)
        PROVE  BooksInv' /\ Grows(NoText)
    <3>1. /\ Len(rows) < MaxRows /\ (kind = "debt" => Debts(p) = {}) /\ rows' = Recorded(kind, p, a, NoText)
          /\ Call
      BY <2>2 DEF Type
    <3>2. Grows(NoText) /\ \A q \in Parties \cup {NoParty} : Fits(rows', q)
      BY <3>1, RecordKeeps DEF TInv
    <3>3. calls' \in 0 .. MaxCalls /\ mishaps' \in 0 .. MaxMishaps
      BY <3>1, CallIs DEF TInv, BooksInv
    <3>4. BooksTypeOK'
      BY <1>1, <3>2, <3>3 DEF TInv, BooksInv, BooksTypeOK, Grows
    <3> QED BY <3>2, <3>4 DEF BooksInv
  <2> QED BY <2>1, <2>2 DEF Keep
<1>3. AlertsTypeOK' /\ RemindersTypeOK' /\ ToolFits'
  BY <1>1 DEF TInv, AlertsTypeOK, RemindersTypeOK, ToolFits, alertVars, reminderVars
<1> QED BY <1>1, <1>2, <1>3 DEF TInv

\* A clarification.
LEMMA ClarifyTypes ==
  ASSUME TInv, ClarifyOutside
  PROVE  TInv' /\ tool' = tool /\ Alike(rows, rows')
<1>1. /\ UNCHANGED <<tool, alertVars, day, contacts, drafts, drafted, optedOut, inbox, stopped, adrift>>
      /\ shifted' = (shifted \/ tool.at = "send")
  BY DEF ClarifyOutside, Clarify
<1>2. BooksInv' /\ Alike(rows, rows')
  BY ClarifyKeeps DEF TInv, ClarifyOutside
<1>3. AlertsTypeOK' /\ RemindersTypeOK' /\ ToolFits'
  BY <1>1 DEF TInv, AlertsTypeOK, RemindersTypeOK, ToolFits, alertVars
<1> QED BY <1>1, <1>2, <1>3 DEF TInv

\* What the first of an alert's two commits leaves.
Puts(t) ==
  /\ Grows(t)
  /\ alerts' \in [Texts -> Alert] /\ alerts'[t].status = "pending" /\ alerts'[t].row = 0
  /\ \A s \in Texts : s # t => alerts'[s] = alerts[s]
  /\ tool' \in Tool /\ tool'.at = "link" /\ tool'.text = t /\ tool'.row = Len(rows) + 1

LEMMA RecordIs ==
  ASSUME TInv, NEW t \in Texts, NEW kind \in {"money", "repay"}, NEW p \in Parties \cup {NoParty},
         Record(t, kind, p), Call
  PROVE  Puts(t) /\ BooksInv'
<1>1. /\ Len(rows) < MaxRows /\ rows' = Recorded(kind, p, Amount[t], t)
      /\ alerts' = [alerts EXCEPT ![t] = [status |-> "pending", row |-> 0]]
      /\ tool' = [Idle EXCEPT !.at = "link", !.text = t, !.row = Len(rows) + 1]
  BY DEF Record
<1>2. Amount[t] \in Amounts /\ t \in Texts \cup {NoText}
  BY AlertsAreGiven
<1>3. kind \in {"debt", "money", "repay"} /\ (kind = "debt" => Debts(p) = {})
  OBVIOUS
<1>4. Grows(t) /\ \A q \in Parties \cup {NoParty} : Fits(rows', q)
  BY <1>1, <1>2, <1>3, RecordKeeps DEF TInv
<1>5. Len(rows) + 1 \in 0 .. MaxRows
  BY <1>4, BoundsAreNatural DEF Grows, TInv, BooksInv, BooksTypeOK
<1>6. tool' \in Tool /\ tool'.at = "link" /\ tool'.text = t /\ tool'.row = Len(rows) + 1
  <2>1. PICK k \in 0 .. MaxRows : k = Len(rows) + 1
    BY <1>5
  <2>2. PICK w : w = Linking(t, k)
    OBVIOUS
  <2>3. w \in Tool /\ w.at = "link" /\ w.text = t /\ w.row = k
    BY <2>2, LinkIs
  <2>4. tool' = w
    BY <1>1, <2>1, <2>2 DEF Linking
  <2> QED BY <2>1, <2>3, <2>4
<1>7. 0 \in 0 .. MaxRows
  BY BoundsAreNatural
<1>8. /\ alerts' \in [Texts -> Alert] /\ alerts'[t].status = "pending" /\ alerts'[t].row = 0
      /\ \A s \in Texts : s # t => alerts'[s] = alerts[s]
  BY <1>1, <1>7 DEF TInv, AlertsTypeOK, Alert
<1>9. calls' \in 0 .. MaxCalls /\ mishaps' \in 0 .. MaxMishaps
  BY CallIs DEF TInv, BooksInv
<1>10. BooksInv'
  BY <1>4, <1>6, <1>9 DEF BooksInv, BooksTypeOK, Grows
<1> QED BY <1>4, <1>6, <1>8, <1>10 DEF Puts

\* The answers to alerts: one is recorded or only the alerts, their names and the tool change.
LEMMA AnswerTypes ==
  ASSUME TInv, AnswerAlerts
  PROVE  /\ TInv' /\ UNCHANGED reminderVars
         /\ tool.at \notin {"send", "sent"} \/ tool' = tool
         /\ tool' # tool => tool'.at \notin {"send", "sent"}
         /\ \/ rows' = rows
            \/ /\ tool = Idle
               /\ \E t \in Texts : Puts(t) /\ (Fresh(t) \/ alerts[t].status = "pending") /\ torn' = torn
<1>1. UNCHANGED reminderVars
  BY DEF AnswerAlerts
<1>2. RemindersTypeOK'
  BY <1>1 DEF TInv, RemindersTypeOK, reminderVars
<1>3. BooksTypeOK /\ BooksInv /\ AlertsTypeOK /\ 0 \in 0 .. MaxRows
  BY BoundsAreNatural DEF TInv, BooksInv
<1>4. ASSUME NEW t \in Texts, NEW kind \in {"money", "repay"}, NEW p \in Parties \cup {NoParty},
             Record(t, kind, p), Call, tool = Idle, Fresh(t) \/ alerts[t].status = "pending", torn' = torn,
             aliases' \in [Banks -> Parties \cup {NoParty}]
      PROVE  /\ TInv' /\ tool.at \notin {"send", "sent"} /\ tool'.at \notin {"send", "sent"}
             /\ tool = Idle
             /\ \E u \in Texts : Puts(u) /\ (Fresh(u) \/ alerts[u].status = "pending") /\ torn' = torn
  <2>1. Puts(t) /\ BooksInv'
    BY <1>4, RecordIs
  <2>2. AlertsTypeOK'
    BY <1>3, <1>4, <2>1 DEF AlertsTypeOK, Puts
  <2>3. tool.at = "idle" /\ tool'.at = "link" /\ tool'.text = t
    BY <1>4, <2>1, IdleIs DEF Puts
  <2>4. ToolFits'
    BY <2>3 DEF ToolFits
  <2> QED BY <1>2, <1>4, <2>1, <2>2, <2>3, <2>4 DEF TInv
<1>5. ASSUME rows' = rows, tool' = tool, Call, torn' = torn,
             alerts' \in [Texts -> Alert], aliases' \in [Banks -> Parties \cup {NoParty}]
      PROVE  TInv'
  <2>1. BooksInv'
    BY <1>3, <1>5, CallIs, BooksStay DEF BooksTypeOK
  <2>2. AlertsTypeOK'
    BY <1>3, <1>5 DEF AlertsTypeOK
  <2>3. ToolFits'
    BY <1>1, <1>5 DEF ToolFits, TInv, reminderVars
  <2> QED BY <1>2, <2>1, <2>2, <2>3 DEF TInv
<1>6. aliases \in [Banks -> Parties \cup {NoParty}] /\ alerts \in [Texts -> Alert] /\ torn \subseteq Texts
  BY <1>3 DEF AlertsTypeOK
<1>7. CASE \E t \in Texts : ReviewAsk(t) \/ ResolveIgnore(t) \/ \E i \in DOMAIN rows : ResolveAlready(t, i)
  <2>1. rows' = rows /\ tool' = tool /\ Call /\ torn' = torn /\ aliases' = aliases
    BY <1>7 DEF ReviewAsk, ResolveIgnore, ResolveAlready, Waiting
  <2>2. alerts' \in [Texts -> Alert]
    <3>1. DOMAIN rows \subseteq 0 .. MaxRows
      BY BoundsAreNatural DEF TInv, BooksInv, BooksTypeOK
    <3> QED BY <1>3, <1>7, <3>1, AlertWritten DEF ReviewAsk, ResolveIgnore, ResolveAlready
  <2> QED BY <1>1, <1>5, <1>6, <2>1, <2>2
<1>8. CASE \E t \in Texts, p \in Parties : ReviewClear(t, p)
  <2>1. PICK t \in Texts, p \in Parties : ReviewClear(t, p)
    BY <1>8
  <2>2. Record(t, "repay", p) /\ Call /\ tool = Idle /\ Fresh(t) /\ torn' = torn /\ aliases' = aliases
    BY <2>1 DEF ReviewClear
  <2> QED BY <1>1, <1>4, <1>6, <2>2
<1>9. CASE \E t \in Texts, kind \in {"money", "repay"}, p \in Parties \cup {NoParty} : ResolveAs(t, kind, p)
  <2>1. PICK t \in Texts, kind \in {"money", "repay"}, p \in Parties \cup {NoParty} : ResolveAs(t, kind, p)
    BY <1>9
  <2>2. /\ Record(t, kind, p) /\ Call /\ tool = Idle /\ alerts[t].status = "pending" /\ torn' = torn
        /\ aliases' = IF p = NoParty THEN aliases ELSE [aliases EXCEPT ![Bank[t]] = p]
    BY <2>1 DEF ResolveAs, Waiting
  <2>3. aliases' \in [Banks -> Parties \cup {NoParty}]
    BY <1>6, <2>2
  <2> QED BY <1>1, <1>4, <2>2, <2>3
<1>10. CASE \E b \in Banks : ForgetName(b)
  <2>1. rows' = rows /\ tool' = tool /\ Call /\ torn' = torn /\ alerts' = alerts
    BY <1>10 DEF ForgetName
  <2>2. aliases' \in [Banks -> Parties \cup {NoParty}]
    BY <1>6, <1>10 DEF ForgetName
  <2> QED BY <1>1, <1>5, <1>6, <2>1, <2>2
<1>11. CASE Link \/ Tear
  <2>1. /\ rows' = rows /\ tool.at = "link" /\ tool' = Idle /\ calls' = calls /\ aliases' = aliases
        /\ tool.text \in Texts
    BY <1>11 DEF Link, Tear, TInv, ToolFits
  <2>2. tool'.at = "idle" /\ tool' \in Tool
    BY <2>1, IdleIs
  <2>3. calls' \in 0 .. MaxCalls /\ mishaps' \in 0 .. MaxMishaps
    <3>1. CASE Link
      BY <1>3, <3>1 DEF Link, BooksTypeOK
    <3>2. CASE Tear
      BY <1>3, <3>2, MishapIs DEF Tear, BooksTypeOK
    <3> QED BY <1>11, <3>1, <3>2
  <2>4. BooksInv'
    BY <1>3, <2>1, <2>2, <2>3, BooksStay
  <2>5. AlertsTypeOK'
    <3>1. CASE Link
      <4>1. tool.row \in 0 .. MaxRows
        BY <1>3 DEF BooksTypeOK, Tool
      <4>2. alerts' \in [Texts -> Alert] /\ torn' = torn
        BY <1>3, <3>1, <4>1, AlertWritten DEF Link
      <4> QED BY <1>6, <2>1, <4>2 DEF AlertsTypeOK
    <3>2. CASE Tear
      BY <1>6, <2>1, <3>2 DEF AlertsTypeOK, Tear
    <3> QED BY <1>11, <3>1, <3>2
  <2>6. ToolFits'
    BY <2>2 DEF ToolFits
  <2> QED BY <1>1, <1>2, <2>1, <2>2, <2>4, <2>5, <2>6 DEF TInv
<1> QED BY <1>7, <1>8, <1>9, <1>10, <1>11 DEF AnswerAlerts, Review, Resolve

\* A draft is where it was, or marked, or a new one was added.
LEMMA MarkIs ==
  ASSUME RemindersTypeOK, NEW i \in DOMAIN drafts, NEW status \in {"sent", "failed"},
         drafts' = [drafts EXCEPT ![i].status = status]
  PROVE  /\ drafts' \in Seq(Draft) /\ Len(drafts') = Len(drafts) /\ DOMAIN drafts' = DOMAIN drafts
         /\ \A j \in DOMAIN drafts : j # i => drafts'[j] = drafts[j]
         /\ drafts'[i].phone = drafts[i].phone /\ drafts'[i].on = drafts[i].on
         /\ drafts'[i].status = status
<1>1. drafts \in Seq(Draft) /\ i \in 1 .. Len(drafts) /\ DOMAIN drafts = 1 .. Len(drafts) /\ drafts[i] \in Draft
  BY DEF RemindersTypeOK
<1> PICK d \in Draft : d = drafts[i]
  BY <1>1
<1> PICK new : new = [d EXCEPT !.status = status]
  OBVIOUS
<1>2. new \in Draft /\ new.phone = d.phone /\ new.on = d.on /\ new.status = status
  BY DEF Draft
<1>3. drafts' = [drafts EXCEPT ![i] = new]
  OBVIOUS
<1>4. /\ drafts' \in Seq(Draft) /\ Len(drafts') = Len(drafts)
      /\ \A j \in 1 .. Len(drafts) : drafts'[j] = IF j = i THEN new ELSE drafts[j]
  BY <1>1, <1>2, <1>3, ExceptSeq
<1> QED BY <1>1, <1>2, <1>4

LEMMA DraftIs ==
  ASSUME TInv, NEW p \in Parties, DraftReminder(p)
  PROVE  /\ drafts' \in Seq(Draft) /\ Len(drafts') = Len(drafts) + 1 /\ Len(drafts') <= MaxDrafts
         /\ DOMAIN drafts' = DOMAIN drafts \cup {Len(drafts) + 1} /\ Len(drafts) + 1 \notin DOMAIN drafts
         /\ \A j \in DOMAIN drafts : drafts'[j] = drafts[j]
         /\ drafts'[Len(drafts) + 1].status = "draft"
<1>1. drafts \in Seq(Draft) /\ Len(drafts) \in Nat /\ MaxDrafts \in Nat /\ DOMAIN drafts = 1 .. Len(drafts)
  BY BoundsAreNatural DEF TInv, RemindersTypeOK
<1>2. /\ Len(drafts) < MaxDrafts /\ contacts[p] # NoPhone
      /\ drafts' = Append(drafts, [party |-> p, phone |-> contacts[p], amount |-> Owed(p), on |-> day,
                                   status |-> "draft"])
  BY DEF DraftReminder
<1>3. contacts[p] \in Phones /\ day \in 0 .. LastDay
  BY <1>2 DEF TInv, RemindersTypeOK
<1>4. Owed(p) \in Nat
  BY TInvGives DEF TypeOK
<1> PICK new : new = [party |-> p, phone |-> contacts[p], amount |-> Owed(p), on |-> day, status |-> "draft"]
  OBVIOUS
<1>5. new \in Draft /\ new.status = "draft"
  BY <1>3, <1>4 DEF Draft
<1>6. drafts' = Append(drafts, new)
  BY <1>2
<1>7. /\ drafts' \in Seq(Draft) /\ Len(drafts') = Len(drafts) + 1
      /\ \A j \in 1 .. Len(drafts) : drafts'[j] = drafts[j]
      /\ drafts'[Len(drafts) + 1] = new
  BY <1>1, <1>5, <1>6, AppendProperties
<1>8. DOMAIN drafts' = 1 .. Len(drafts')
  BY <1>7
<1>9. 1 .. (Len(drafts) + 1) = (1 .. Len(drafts)) \cup {Len(drafts) + 1} /\ Len(drafts) + 1 \notin 1 .. Len(drafts)
  BY <1>1
<1>10. Len(drafts) + 1 <= MaxDrafts
  BY <1>1, <1>2
<1> QED BY <1>1, <1>5, <1>7, <1>8, <1>9, <1>10

\* What WhatsApp takes.
LEMMA DeliverIs ==
  ASSUME TInv, Deliver
  PROVE  LET d == drafts[tool.draft]
             k == Len(inbox) + 1
         IN  /\ inbox' \in Seq(Message) /\ Len(inbox') = k /\ DOMAIN inbox' = DOMAIN inbox \cup {k}
             /\ \A j \in DOMAIN inbox : inbox'[j] = inbox[j]
             /\ inbox'[k].phone = d.phone /\ inbox'[k].amount = d.amount /\ inbox'[k].on = day
             /\ k \notin DOMAIN inbox /\ d \in Draft /\ tool' \in Tool /\ tool'.at = "sent" /\ tool'.draft = tool.draft
<1>1. drafts \in Seq(Draft) /\ tool.draft \in DOMAIN drafts /\ inbox \in Seq(Message) /\ day \in 0 .. LastDay
  BY DEF TInv, RemindersTypeOK, ToolFits, Deliver
<1>2. drafts[tool.draft] \in Draft
  BY <1>1
<1> PICK d \in Draft : d = drafts[tool.draft]
  BY <1>2
<1> PICK new : new = [phone |-> d.phone, amount |-> d.amount, on |-> day]
  OBVIOUS
<1>3. new \in Message /\ new.phone = d.phone /\ new.amount = d.amount /\ new.on = day
  BY <1>1 DEF Message, Draft
<1>4. inbox' = Append(inbox, new)
  BY DEF Deliver
<1>5. /\ inbox' \in Seq(Message) /\ Len(inbox') = Len(inbox) + 1
      /\ \A j \in 1 .. Len(inbox) : inbox'[j] = inbox[j]
      /\ inbox'[Len(inbox) + 1] = new
  BY <1>1, <1>3, <1>4, AppendProperties
<1>6. DOMAIN inbox = 1 .. Len(inbox) /\ DOMAIN inbox' = 1 .. Len(inbox') /\ Len(inbox) \in Nat
  BY <1>1, <1>5
<1>7. 1 .. (Len(inbox) + 1) = (1 .. Len(inbox)) \cup {Len(inbox) + 1} /\ Len(inbox) + 1 \notin 1 .. Len(inbox)
  BY <1>6
<1>8. tool' \in Tool /\ tool'.at = "sent" /\ tool'.draft = tool.draft
  <2>1. PICK w \in Tool : w = tool
    BY DEF TInv, BooksInv, BooksTypeOK
  <2>2. tool' = [w EXCEPT !.at = "sent"]
    BY <2>1 DEF Deliver
  <2> QED BY <2>1, <2>2, SentIs
<1> QED BY <1>2, <1>3, <1>5, <1>6, <1>7, <1>8

\* What a confirmation starts.
LEMMA ConfirmIs ==
  ASSUME TInv, NEW i \in DOMAIN drafts, Confirm(i)
  PROVE  tool' \in Tool /\ tool'.at = "send" /\ tool'.draft = i
<1>1. i \in 0 .. MaxDrafts
  BY BoundsAreNatural DEF TInv, RemindersTypeOK
<1>2. tool' = [Idle EXCEPT !.at = "send", !.draft = i]
  BY DEF Confirm
<1> QED BY <1>1, <1>2, SendIs

\* The reminders: the books and the alerts stay, and the tool is not an alert's.
LEMMA RemindTypes ==
  ASSUME TInv, Remind
  PROVE  /\ TInv' /\ rows' = rows /\ UNCHANGED alertVars
         /\ tool' = tool \/ (tool.at # "link" /\ tool'.at # "link")
<1>1. rows' = rows /\ UNCHANGED alertVars
  BY DEF Remind, RemindersNext, DraftReminder, SaveContact, Confirm, NextRequest, Deliver, MarkSent, MarkFailed,
         Marked, Lose, NextDay, Stop
<1>2. AlertsTypeOK'
  BY <1>1 DEF TInv, AlertsTypeOK, alertVars
<1>3. BooksTypeOK /\ BooksInv /\ RemindersTypeOK /\ tool \in Tool /\ calls \in 0 .. MaxCalls
      /\ mishaps \in 0 .. MaxMishaps /\ ToolFits
  BY DEF TInv, BooksInv, BooksTypeOK
<1>4. ASSUME RemindersTypeOK', ToolFits', tool' \in Tool, calls' \in 0 .. MaxCalls, mishaps' \in 0 .. MaxMishaps
      PROVE  TInv'
  BY <1>1, <1>2, <1>3, <1>4, BooksStay DEF TInv
<1>5. ASSUME NEW p \in Parties, DraftReminder(p) PROVE TInv' /\ tool' = tool
  <2>1. /\ drafts' \in Seq(Draft) /\ Len(drafts') <= MaxDrafts /\ DOMAIN drafts \subseteq DOMAIN drafts'
        /\ DOMAIN drafts' = 1 .. Len(drafts') /\ Len(drafts) + 1 \in DOMAIN drafts'
    BY <1>5, DraftIs
  <2>2. /\ tool' = tool /\ Call /\ UNCHANGED <<day, contacts, optedOut, history>>
        /\ drafted' = drafted \cup {Len(drafts) + 1}
    BY <1>5 DEF DraftReminder
  <2>3. Len(drafts) + 1 \in 1 .. MaxDrafts
    BY <2>1, BoundsAreNatural
  <2>4. RemindersTypeOK'
    BY <1>3, <2>1, <2>2, <2>3 DEF RemindersTypeOK, history
  <2>5. ToolFits'
    BY <1>3, <2>1, <2>2 DEF ToolFits
  <2> QED BY <1>3, <1>4, <2>2, <2>4, <2>5, CallIs
<1>6. ASSUME NEW p \in Parties, NEW n \in Phones, SaveContact(p, n) PROVE TInv' /\ tool' = tool
  <2>1. /\ tool' = tool /\ Call /\ UNCHANGED <<day, drafts, drafted, optedOut, history>>
        /\ contacts' = [contacts EXCEPT ![p] = n]
    BY <1>6 DEF SaveContact
  <2>2. RemindersTypeOK' /\ ToolFits'
    BY <1>3, <2>1 DEF RemindersTypeOK, history, ToolFits
  <2> QED BY <1>3, <1>4, <2>1, <2>2, CallIs
<1>7. ASSUME NEW i \in DOMAIN drafts, Confirm(i) PROVE TInv' /\ tool = Idle /\ tool'.at = "send"
  <2>1. tool' \in Tool /\ tool'.at = "send" /\ tool'.draft = i
    BY <1>7, ConfirmIs
  <2>2. /\ tool = Idle /\ Call /\ shifted' = FALSE
        /\ UNCHANGED <<day, contacts, drafts, drafted, optedOut, inbox, stopped, adrift>>
    BY <1>7 DEF Confirm
  <2>3. RemindersTypeOK' /\ ToolFits'
    BY <1>3, <2>1, <2>2 DEF RemindersTypeOK, ToolFits
  <2> QED BY <1>3, <1>4, <2>1, <2>2, <2>3, CallIs
<1>8. ASSUME Deliver PROVE TInv' /\ tool.at = "send" /\ tool'.at = "sent"
  <2>1. tool' \in Tool /\ tool'.at = "sent" /\ tool'.draft = tool.draft /\ inbox' \in Seq(Message)
    BY <1>8, DeliverIs
  <2>2. /\ tool.at = "send" /\ calls' = calls /\ mishaps' = mishaps
        /\ UNCHANGED <<day, contacts, drafts, drafted, optedOut, stopped, adrift, shifted>>
    BY <1>8 DEF Deliver
  <2>3. RemindersTypeOK' /\ ToolFits'
    BY <1>3, <2>1, <2>2 DEF RemindersTypeOK, ToolFits
  <2> QED BY <1>3, <1>4, <2>1, <2>2, <2>3
<1>9. ASSUME NEW status \in {"sent", "failed"}, tool.at \in {"send", "sent"}, Marked(status)
      PROVE  TInv' /\ tool' = Idle
  <2>1. tool.draft \in DOMAIN drafts /\ drafts' = [drafts EXCEPT ![tool.draft].status = status]
    BY <1>3, <1>9 DEF ToolFits, Marked
  <2>2. drafts' \in Seq(Draft) /\ Len(drafts') = Len(drafts)
    BY <1>3, <2>1, MarkIs
  <2>3. /\ tool' = Idle /\ calls' = calls /\ mishaps' = mishaps
        /\ UNCHANGED <<day, contacts, drafted, optedOut, history>>
    BY <1>9 DEF Marked
  <2>4. RemindersTypeOK' /\ ToolFits' /\ tool' \in Tool
    BY <1>3, <2>2, <2>3, IdleIs DEF RemindersTypeOK, history, ToolFits
  <2> QED BY <1>3, <1>4, <2>3, <2>4
<1>10. ASSUME Lose PROVE TInv' /\ tool.at \in {"send", "sent"} /\ tool' = Idle
  <2>1. /\ tool.at \in {"send", "sent"} /\ tool' = Idle /\ calls' = calls /\ mishaps < MaxMishaps
        /\ mishaps' = mishaps + 1 /\ drafted' = {}
        /\ UNCHANGED <<day, contacts, drafts, optedOut, inbox, stopped, shifted>>
        /\ adrift' = IF tool.at = "sent" THEN adrift \cup {drafts[tool.draft].phone} ELSE adrift
    BY <1>10 DEF Lose
  <2>2. drafts[tool.draft] \in Draft
    BY <1>3, <2>1 DEF ToolFits, RemindersTypeOK
  <2>3. drafts[tool.draft].phone \in Phones
    BY <2>2 DEF Draft
  <2>4. RemindersTypeOK'
    BY <1>3, <2>1, <2>3 DEF RemindersTypeOK
  <2>5. ToolFits' /\ tool' \in Tool
    BY <2>1, IdleIs DEF ToolFits
  <2>6. mishaps' \in 0 .. MaxMishaps
    BY <1>3, <2>1, MishapIs
  <2> QED BY <1>3, <1>4, <2>1, <2>4, <2>5, <2>6
<1>11. ASSUME NEW n \in Phones, Stop(n) PROVE TInv' /\ tool' = tool
  <2>1. /\ tool' = tool /\ Call /\ UNCHANGED <<day, contacts, drafts, drafted, inbox, adrift, shifted>>
        /\ stopped' = stopped \cup {n} /\ optedOut' \subseteq optedOut \cup {n}
    BY <1>11 DEF Stop
  <2>2. RemindersTypeOK' /\ ToolFits'
    BY <1>3, <2>1 DEF RemindersTypeOK, ToolFits
  <2> QED BY <1>3, <1>4, <2>1, <2>2, CallIs
<1>12. ASSUME NextRequest \/ NextDay PROVE TInv' /\ tool' = tool
  <2>1. /\ tool' = tool /\ calls' = calls /\ mishaps' = mishaps
        /\ UNCHANGED <<contacts, drafts, optedOut, history>>
    BY <1>12 DEF NextRequest, NextDay
  <2>2. drafted' \subseteq drafted /\ day' \in 0 .. LastDay
    BY <1>3, <1>12, LimitsAreNatural DEF NextRequest, NextDay, RemindersTypeOK
  <2>3. RemindersTypeOK' /\ ToolFits'
    BY <1>3, <2>1, <2>2 DEF RemindersTypeOK, history, ToolFits
  <2> QED BY <1>3, <1>4, <2>1, <2>3
<1>13. ASSUME MarkSent \/ MarkFailed PROVE TInv' /\ tool.at \in {"send", "sent"} /\ tool' = Idle
  BY <1>9, <1>13 DEF MarkSent, MarkFailed
<1> QED BY <1>1, <1>5, <1>6, <1>7, <1>8, <1>10, <1>11, <1>12, <1>13, IdleIs DEF Remind, RemindersNext

LEMMA TypesNext ==
  ASSUME TInv, [Next]_vars
  PROVE  TInv'
<1>1. CASE UNCHANGED vars
  BY <1>1 DEF vars, books, alertVars, reminderVars, TInv, BooksInv, BooksTypeOK, AlertsTypeOK, RemindersTypeOK, ToolFits
<1> QED BY <1>1, KeepTypes, ClarifyTypes, AnswerTypes, RemindTypes DEF Next

\* The books stay well formed: no party has two open debts, and what is placed of its
\* repayments never exceeds its debt.
THEOREM TypesHold == Spec => []TInv
<1>1. Init => TInv
  BY TypesInit
<1>2. TInv /\ [Next]_vars => TInv'
  BY TypesNext
<1> QED BY <1>1, <1>2, PTL DEF Spec

\* Nothing is owed less than nothing, whatever was recorded, undone, corrected and placed
\* again; alerts, reminders and the tool under way are well formed.
THEOREM TypeCorrect == Spec => []TypeOK
<1>1. TInv => TypeOK
  BY TInvGives
<1> QED BY <1>1, TypesHold, PTL

-----------------------------------------------------------------------------
(* An alert's money is in the books once. *)

\* An alert that led to no entry, or not yet, points to none.
RowsPointed ==
  /\ \A t \in Texts : alerts[t].status \in {"none", "pending", "ignored"} => alerts[t].row = 0
  /\ tool.at = "link" => alerts[tool.text].row = 0

MoneyInv == MoneyOnce /\ RowsPointed

\* The alert that t's entries and its place in the tool are about.
OnceFor(t) ==
  /\ \A i, j \in Live(t) : i = j
  /\ \A i \in Live(t) : alerts[t].row = i \/ (tool.at = "link" /\ tool.text = t /\ tool.row = i)

\* Entries only go away and the alert and the tool stay.
LEMMA OnceStays ==
  ASSUME NEW t, OnceFor(t), Live(t)' \subseteq Live(t), alerts'[t] = alerts[t],
         tool' = tool \/ tool.at # "link"
  PROVE  OnceFor(t)'
  BY DEF OnceFor

\* An alert that is asked about, or may be recorded, has no entry.
LEMMA NoneYet ==
  ASSUME TInv, MoneyInv, tool = Idle, NEW t \in Texts, t \notin torn, Fresh(t) \/ alerts[t].status = "pending"
  PROVE  Live(t) = {}
<1> SUFFICES ASSUME NEW i \in Live(t) PROVE FALSE
  OBVIOUS
<1>1. alerts[t].row = i
  BY IdleIs DEF MoneyInv, MoneyOnce
<1>2. rows \in Seq(Row) /\ i \in DOMAIN rows /\ rows[i].live
  BY DEF Live, TInv, BooksInv, BooksTypeOK
<1>3. i \in Nat /\ i # 0
  BY <1>2
<1>4. alerts[t].status \notin {"none", "pending"}
  BY <1>1, <1>3 DEF MoneyInv, RowsPointed
<1>5. Fresh(t)
  BY <1>4
<1>6. alerts[t].row # 0 /\ ~rows[alerts[t].row].live
  BY <1>4, <1>5 DEF Fresh
<1> QED BY <1>1, <1>2, <1>6

\* Rows that kept what they are and only went away.
LEMMA LiveShrinks ==
  ASSUME Alike(rows, rows'), NEW t
  PROVE  Live(t)' \subseteq Live(t)
  BY DEF Alike, Live

\* An entry that is added is its alert's.
LEMMA LiveGrows ==
  ASSUME NEW t, Grows(t), NEW s
  PROVE  Live(s)' \subseteq Live(s) \cup (IF s = t THEN {Len(rows) + 1} ELSE {})
<1> PICK k : k = Len(rows) + 1
  OBVIOUS
<1>1. DOMAIN rows' = DOMAIN rows \cup {k} /\ \A i \in DOMAIN rows : rows'[i] = rows[i]
  BY DEF Grows
<1>2. rows'[k].from = t
  BY DEF Grows
<1> QED BY <1>1, <1>2 DEF Live

\* Alerts as they were, an alert the trader is asked about or answers, one whose number was
\* written, and one whose turn died.
AlertsMove ==
  \/ UNCHANGED <<alerts, torn, tool>>
  \/ /\ tool = Idle /\ UNCHANGED <<torn, tool>>
     /\ \E t \in Texts : /\ Fresh(t) \/ alerts[t].status = "pending"
                         /\ \A s \in Texts : s # t => alerts'[s] = alerts[s]
                         /\ alerts'[t].status \in {"pending", "ignored"} => alerts'[t].row = 0
                         /\ alerts'[t].status \in {"pending", "ignored", "already_recorded"}
  \/ /\ tool.at = "link" /\ tool' = Idle /\ torn' = torn
     /\ \A s \in Texts : s # tool.text => alerts'[s] = alerts[s]
     /\ alerts'[tool.text].status = "recorded" /\ alerts'[tool.text].row = tool.row
  \/ tool' = Idle /\ alerts' = alerts /\ torn' = torn \cup {tool.text}

LEMMA AnswersMove ==
  ASSUME TInv, RowsPointed, AnswerAlerts, rows' = rows
  PROVE  AlertsMove
<1>1. alerts \in [Texts -> Alert] /\ tool \in Tool /\ (tool.at = "link" => tool.text \in Texts)
  BY DEF TInv, BooksInv, BooksTypeOK, AlertsTypeOK, ToolFits
<1>2. ASSUME NEW t \in Texts, ReviewAsk(t) PROVE AlertsMove
  <2>1. /\ tool = Idle /\ Fresh(t) /\ torn' = torn /\ tool' = tool
        /\ alerts' = [alerts EXCEPT ![t] = [status |-> "pending", row |-> 0]]
    BY <1>2 DEF ReviewAsk
  <2>2. alerts'[t].status = "pending" /\ alerts'[t].row = 0 /\ \A s \in Texts : s # t => alerts'[s] = alerts[s]
    BY <1>1, <2>1
  <2> QED BY <2>1, <2>2 DEF AlertsMove
<1>3. ASSUME NEW t \in Texts, ResolveIgnore(t) PROVE AlertsMove
  <2>1. /\ tool = Idle /\ alerts[t].status = "pending" /\ torn' = torn /\ tool' = tool
        /\ alerts' = [alerts EXCEPT ![t].status = "ignored"]
    BY <1>3 DEF ResolveIgnore, Waiting
  <2>2. /\ alerts'[t].status = "ignored" /\ alerts'[t].row = alerts[t].row
        /\ \A s \in Texts : s # t => alerts'[s] = alerts[s]
    BY <1>1, <2>1 DEF Alert
  <2>3. alerts[t].row = 0
    BY <2>1 DEF RowsPointed
  <2> QED BY <2>1, <2>2, <2>3 DEF AlertsMove
<1>4. ASSUME NEW t \in Texts, NEW i \in DOMAIN rows, ResolveAlready(t, i) PROVE AlertsMove
  <2>1. /\ tool = Idle /\ alerts[t].status = "pending" /\ torn' = torn /\ tool' = tool
        /\ alerts' = [alerts EXCEPT ![t] = [status |-> "already_recorded", row |-> i]]
    BY <1>4 DEF ResolveAlready, Waiting
  <2>2. alerts'[t].status = "already_recorded" /\ \A s \in Texts : s # t => alerts'[s] = alerts[s]
    BY <1>1, <2>1
  <2> QED BY <2>1, <2>2 DEF AlertsMove
<1>5. ASSUME Link PROVE AlertsMove
  <2>1. /\ tool.at = "link" /\ tool' = Idle /\ torn' = torn
        /\ alerts' = [alerts EXCEPT ![tool.text] = [status |-> "recorded", row |-> tool.row]]
    BY <1>5 DEF Link
  <2>2. /\ \A s \in Texts : s # tool.text => alerts'[s] = alerts[s]
        /\ alerts'[tool.text].status = "recorded" /\ alerts'[tool.text].row = tool.row
    BY <1>1, <2>1
  <2> QED BY <2>1, <2>2 DEF AlertsMove
<1>6. ASSUME Tear PROVE AlertsMove
  BY <1>6 DEF Tear, AlertsMove
<1>7. ASSUME NEW b \in Banks, ForgetName(b) PROVE AlertsMove
  BY <1>7 DEF ForgetName, AlertsMove
<1>8. ASSUME NEW t \in Texts, NEW kind \in {"money", "repay"}, NEW p \in Parties \cup {NoParty},
             ReviewClear(t, p) \/ ResolveAs(t, kind, p)
      PROVE  FALSE
  <2>1. \E k \in {"money", "repay"} : Record(t, k, p) /\ Call
    BY <1>8 DEF ReviewClear, ResolveAs, Waiting
  <2>2. Puts(t)
    BY <2>1, RecordIs
  <2>3. Len(rows') = Len(rows) + 1 /\ Len(rows) \in Nat
    BY <2>2 DEF Puts, Grows, TInv, BooksInv, BooksTypeOK
  <2> QED BY <2>3
<1> QED BY <1>2, <1>3, <1>4, <1>5, <1>6, <1>7, <1>8 DEF AnswerAlerts, Review, Resolve

\* The rows stay and the alerts move.
LEMMA MovesKeepMoney ==
  ASSUME TInv, MoneyInv, rows' = rows, AlertsMove
  PROVE  MoneyInv'
<1>1. \A t \in Texts : t \notin torn => OnceFor(t)
  BY DEF MoneyInv, MoneyOnce, OnceFor
<1>2. RowsPointed /\ \A t : Live(t)' = Live(t)
  BY DEF MoneyInv, Live
<1>3. Idle.at # "link"
  BY IdleIs
<1>4. CASE UNCHANGED <<alerts, torn, tool>>
  BY <1>2, <1>4 DEF MoneyInv, MoneyOnce, RowsPointed
<1>5. ASSUME tool = Idle, UNCHANGED <<torn, tool>>, NEW t \in Texts, Fresh(t) \/ alerts[t].status = "pending",
             \A s \in Texts : s # t => alerts'[s] = alerts[s],
             alerts'[t].status \in {"pending", "ignored"} => alerts'[t].row = 0,
             alerts'[t].status \in {"pending", "ignored", "already_recorded"}
      PROVE  MoneyInv'
  <2>1. RowsPointed'
    BY <1>2, <1>3, <1>5 DEF RowsPointed
  <2>2. ASSUME NEW s \in Texts, s \notin torn PROVE OnceFor(s)'
    <3>1. CASE s = t
      <4>1. Live(s) = {}
        BY <1>5, <2>2, <3>1, NoneYet
      <4> QED BY <1>2, <4>1 DEF OnceFor
    <3>2. CASE s # t
      BY <1>1, <1>2, <1>5, <2>2, <3>2, OnceStays
    <3> QED BY <3>1, <3>2
  <2> QED BY <1>5, <2>1, <2>2 DEF MoneyInv, MoneyOnce, OnceFor
<1>6. CASE /\ tool.at = "link" /\ tool' = Idle /\ torn' = torn
           /\ \A s \in Texts : s # tool.text => alerts'[s] = alerts[s]
           /\ alerts'[tool.text].status = "recorded" /\ alerts'[tool.text].row = tool.row
  <2>1. RowsPointed'
    BY <1>2, <1>3, <1>6 DEF RowsPointed
  <2>2. ASSUME NEW s \in Texts, s \notin torn PROVE OnceFor(s)'
    <3>1. OnceFor(s)
      BY <1>1, <2>2
    <3>2. CASE s = tool.text
      <4>1. \A i \in Live(s) : i \in Nat /\ i # 0
        BY DEF TInv, BooksInv, BooksTypeOK, Live
      <4>2. alerts[s].row = 0
        BY <1>2, <1>6, <3>2 DEF RowsPointed
      <4>3. \A i \in Live(s) : tool.row = i
        BY <3>1, <4>1, <4>2 DEF OnceFor
      <4> QED BY <1>2, <1>6, <3>1, <3>2, <4>3 DEF OnceFor
    <3>3. CASE s # tool.text
      BY <1>2, <1>6, <3>1, <3>3 DEF OnceFor
    <3> QED BY <3>2, <3>3
  <2> QED BY <1>6, <2>1, <2>2 DEF MoneyInv, MoneyOnce, OnceFor
<1>7. CASE tool' = Idle /\ alerts' = alerts /\ torn' = torn \cup {tool.text}
  <2>1. RowsPointed'
    BY <1>2, <1>3, <1>7 DEF RowsPointed
  <2>2. ASSUME NEW s \in Texts, s \notin torn' PROVE OnceFor(s)'
    <3>1. OnceFor(s) /\ s # tool.text
      BY <1>1, <1>7, <2>2
    <3> QED BY <1>2, <1>7, <3>1 DEF OnceFor
  <2> QED BY <1>7, <2>1, <2>2 DEF MoneyInv, MoneyOnce, OnceFor
<1> QED BY <1>4, <1>5, <1>6, <1>7 DEF AlertsMove

\* Each step keeps it.
LEMMA MoneyNext ==
  ASSUME TInv, MoneyInv, [Next]_vars
  PROVE  MoneyInv'
<1>1. CASE UNCHANGED vars
  <2>1. rows' = rows /\ AlertsMove
    BY <1>1 DEF vars, books, alertVars, AlertsMove
  <2> QED BY <2>1, MovesKeepMoney
<1>2. ASSUME UNCHANGED <<alerts, torn, tool>>, Alike(rows, rows') \/ Grows(NoText)
      PROVE  MoneyInv'
  <2>1. RowsPointed'
    BY <1>2 DEF MoneyInv, RowsPointed
  <2>2. ASSUME NEW t \in Texts, t \notin torn PROVE OnceFor(t)'
    <3>1. OnceFor(t)
      BY <2>2 DEF MoneyInv, MoneyOnce, OnceFor
    <3>2. Live(t)' \subseteq Live(t)
      <4>1. t # NoText
        BY NobodyAndNothing
      <4> QED BY <1>2, <4>1, LiveShrinks, LiveGrows
    <3> QED BY <1>2, <3>1, <3>2, OnceStays
  <2> QED BY <1>2, <2>1, <2>2 DEF MoneyInv, MoneyOnce, OnceFor
<1>3. CASE Keep
  <2>1. UNCHANGED <<alerts, torn, tool>>
    BY <1>3 DEF Keep, Type, Undo, alertVars
  <2> QED BY <1>2, <1>3, <2>1, KeepTypes
<1>4. CASE ClarifyOutside
  <2>1. UNCHANGED <<alerts, torn, tool>>
    BY <1>4 DEF ClarifyOutside, Clarify, alertVars
  <2> QED BY <1>2, <1>4, <2>1, ClarifyTypes
<1>5. CASE Remind
  <2>1. /\ rows' = rows /\ alerts' = alerts /\ torn' = torn
        /\ tool' = tool \/ (tool.at # "link" /\ tool'.at # "link")
    BY <1>5, RemindTypes DEF alertVars
  <2>2. RowsPointed' /\ \A t : Live(t)' = Live(t)
    BY <2>1 DEF MoneyInv, RowsPointed, Live
  <2>3. ASSUME NEW t \in Texts, t \notin torn PROVE OnceFor(t)'
    <3>1. OnceFor(t)
      BY <2>3 DEF MoneyInv, MoneyOnce, OnceFor
    <3> QED BY <2>1, <2>2, <3>1, OnceStays
  <2> QED BY <2>1, <2>2, <2>3 DEF MoneyInv, MoneyOnce, OnceFor
<1>6. CASE AnswerAlerts
  <2>1. CASE rows' = rows
    BY <1>6, <2>1, AnswersMove, MovesKeepMoney DEF MoneyInv
  <2>2. ASSUME tool = Idle, NEW t \in Texts, Puts(t), Fresh(t) \/ alerts[t].status = "pending", torn' = torn
        PROVE  MoneyInv'
    <3>1. /\ Grows(t) /\ alerts'[t].status = "pending" /\ alerts'[t].row = 0
          /\ \A s \in Texts : s # t => alerts'[s] = alerts[s]
          /\ tool'.at = "link" /\ tool'.text = t /\ tool'.row = Len(rows) + 1
      BY <2>2 DEF Puts
    <3>2. RowsPointed'
      BY <3>1 DEF MoneyInv, RowsPointed
    <3>3. ASSUME NEW s \in Texts, s \notin torn PROVE OnceFor(s)'
      <4>1. OnceFor(s) /\ tool.at # "link"
        BY <2>2, <3>3, IdleIs DEF MoneyInv, MoneyOnce, OnceFor
      <4>2. CASE s = t
        <5>1. Live(s) = {}
          BY <2>2, <3>3, <4>2, NoneYet
        <5>2. Live(s)' \subseteq {Len(rows) + 1}
          BY <3>1, <4>2, <5>1, LiveGrows
        <5> QED BY <3>1, <4>2, <5>2 DEF OnceFor
      <4>3. CASE s # t
        <5>1. Live(s)' \subseteq Live(s)
          BY <3>1, <4>3, LiveGrows
        <5> QED BY <3>1, <4>1, <4>3, <5>1, OnceStays
      <4> QED BY <4>2, <4>3
    <3> QED BY <2>2, <3>2, <3>3 DEF MoneyInv, MoneyOnce, OnceFor
  <2> QED BY <1>6, <2>1, <2>2, AnswerTypes
<1> QED BY <1>1, <1>3, <1>4, <1>5, <1>6 DEF Next

\* However often an alert is forwarded, answered and undone, its money is in the books once,
\* unless a turn died between the entry's commit and the alert's.
THEOREM MoneyIsThereOnce == Spec => []MoneyOnce
<1>1. Init => TInv /\ MoneyInv
  <2> SUFFICES ASSUME Init PROVE MoneyInv
    BY TypesInit
  <2>1. PICK p \in Parties, a \in Amounts : rows = <<OldDebt(p, a)>>
    BY DEF Init
  <2>2. DOMAIN rows = {1} /\ rows[1].from = NoText
    BY <2>1 DEF OldDebt
  <2>3. \A t \in Texts : Live(t) = {}
    BY <2>2, NobodyAndNothing DEF Live
  <2>4. alerts = [t \in Texts |-> NoAlert] /\ tool = Idle
    BY DEF Init, AlertsInit
  <2>5. RowsPointed
    BY <2>4, IdleIs DEF RowsPointed, NoAlert
  <2> QED BY <2>3, <2>5 DEF MoneyInv, MoneyOnce
<1>2. TInv /\ MoneyInv /\ [Next]_vars => TInv' /\ MoneyInv'
  BY TypesNext, MoneyNext
<1>3. MoneyInv => MoneyOnce
  BY DEF MoneyInv
<1> QED BY <1>1, <1>2, <1>3, PTL DEF Spec

-----------------------------------------------------------------------------
(* Debtors are asked for what they owe, and spared. *)

\* What was delivered is marked sent, is about to be, or never will be.
AllMarked ==
  \A k \in DOMAIN inbox :
    \/ inbox[k].phone \in adrift
    \/ \E i \in Sent : drafts[i].phone = inbox[k].phone /\ drafts[i].on = inbox[k].on
    \/ /\ tool.at = "sent"
       /\ drafts[tool.draft].phone = inbox[k].phone /\ drafts[tool.draft].on = inbox[k].on

\* A reminder under way was drafted that day and is within the cooldown of none that was sent.
SendingFits ==
  /\ tool.at \in {"send", "sent"} => drafts[tool.draft].status = "draft" /\ drafts[tool.draft].on = day
  /\ tool.at = "send" =>
       \A i \in Sent : drafts[i].phone = drafts[tool.draft].phone => day - drafts[i].on >= Cooldown

\* It asks for what is owed, unless a clarification changed that since.
SendingOwed ==
  tool.at = "send" /\ ~shifted => drafts[tool.draft].amount = Owed(drafts[tool.draft].party)

DebtorsInv == AllMarked /\ SendingFits /\ SendingOwed

LEMMA DebtorsInit ==
  ASSUME Init
  PROVE  DebtorsInv
<1>1. inbox = <<>> /\ tool = Idle
  BY DEF Init, RemindersInit
<1>2. DOMAIN inbox = {}
  BY <1>1
<1> QED BY <1>1, <1>2, IdleIs DEF DebtorsInv, AllMarked, SendingFits, SendingOwed

\* What is owed changes with the books only.
LEMMA SameOwed ==
  ASSUME rows' = rows
  PROVE  \A p : Owed(p)' = Owed(p)
  BY DEF Owed, Sum, Placed, Debts, Repayments

\* Nothing of the reminders changes, and no other reminder is under way.
LEMMA RemindersStay ==
  ASSUME DebtorsInv, UNCHANGED <<day, drafts, inbox, adrift>>,
         \/ tool' = tool /\ (tool.at = "send" /\ ~shifted' => rows' = rows /\ ~shifted)
         \/ tool.at \notin {"send", "sent"} /\ tool'.at \notin {"send", "sent"}
  PROVE  DebtorsInv'
<1>1. Sent' = Sent
  BY DEF Sent
<1>2. CASE tool' = tool /\ (tool.at = "send" /\ ~shifted' => rows' = rows /\ ~shifted)
  BY <1>1, <1>2, SameOwed DEF DebtorsInv, AllMarked, SendingFits, SendingOwed
<1>3. CASE tool.at \notin {"send", "sent"} /\ tool'.at \notin {"send", "sent"}
  BY <1>1, <1>3 DEF DebtorsInv, AllMarked, SendingFits, SendingOwed
<1> QED BY <1>2, <1>3

\* Each step keeps it.
LEMMA DebtorsNext ==
  ASSUME TInv, DebtorsInv, [Next]_vars
  PROVE  DebtorsInv'
<1>0. /\ shifted \in BOOLEAN /\ drafts \in Seq(Draft) /\ Idle.at = "idle"
      /\ (tool.at \in {"send", "sent"} => tool.draft \in DOMAIN drafts)
      /\ AllMarked /\ SendingFits /\ SendingOwed
  BY IdleIs DEF TInv, RemindersTypeOK, ToolFits, DebtorsInv
<1>1. CASE UNCHANGED vars
  BY <1>1, RemindersStay DEF vars, books, reminderVars
<1>2. CASE Keep
  <2>1. /\ tool = Idle /\ tool' = tool /\ UNCHANGED <<day, drafts, inbox, adrift>>
    BY <1>2, KeepTypes DEF Keep, Type, Undo, reminderVars
  <2> QED BY <1>0, <2>1, RemindersStay
<1>3. CASE ClarifyOutside
  <2>1. /\ tool' = tool /\ UNCHANGED <<day, drafts, inbox, adrift>> /\ shifted' = (shifted \/ tool.at = "send")
    BY <1>3 DEF ClarifyOutside, Clarify
  <2> QED BY <1>0, <2>1, RemindersStay
<1>4. CASE AnswerAlerts
  <2>1. /\ UNCHANGED <<day, drafts, inbox, adrift, shifted>>
        /\ tool.at \notin {"send", "sent"} \/ tool' = tool
        /\ tool' # tool => tool'.at \notin {"send", "sent"}
        /\ rows' = rows \/ tool = Idle
    BY <1>4, AnswerTypes DEF reminderVars
  <2> QED BY <1>0, <2>1, RemindersStay
<1>5. CASE Remind
  <2>0. rows' = rows /\ \A p : Owed(p)' = Owed(p)
    BY <1>5, RemindTypes, SameOwed
  <2>1. ASSUME NEW p \in Parties, DraftReminder(p) PROVE DebtorsInv'
    <3>1. /\ DOMAIN drafts' = DOMAIN drafts \cup {Len(drafts) + 1} /\ Len(drafts) + 1 \notin DOMAIN drafts
          /\ \A j \in DOMAIN drafts : drafts'[j] = drafts[j]
          /\ drafts'[Len(drafts) + 1].status = "draft"
      BY <2>1, DraftIs
    <3>2. Sent' = Sent /\ \A i \in Sent : drafts'[i] = drafts[i]
      BY <3>1 DEF Sent
    <3>3. tool = Idle /\ tool' = tool /\ UNCHANGED <<day, inbox, adrift, shifted>>
      BY <2>1 DEF DraftReminder, history
    <3> QED BY <1>0, <3>2, <3>3 DEF DebtorsInv, AllMarked, SendingFits, SendingOwed
  <2>2. ASSUME NEW p \in Parties, NEW n \in Phones, SaveContact(p, n) PROVE DebtorsInv'
    <3>1. tool' = tool /\ UNCHANGED <<day, drafts, inbox, adrift, shifted>>
      BY <2>2 DEF SaveContact, history
    <3> QED BY <2>0, <3>1, RemindersStay
  <2>3. ASSUME NEW i \in DOMAIN drafts, Confirm(i) PROVE DebtorsInv'
    <3>1. tool'.at = "send" /\ tool'.draft = i
      BY <2>3, ConfirmIs
    <3>2. /\ tool = Idle /\ drafts[i].status = "draft" /\ drafts[i].on = day
          /\ WithinLimits(drafts[i].phone) /\ StillOwed(i)
          /\ UNCHANGED <<day, drafts, inbox, adrift>>
      BY <2>3 DEF Confirm
    <3>3. Sent' = Sent
      BY <3>2 DEF Sent
    <3>4. AllMarked'
      BY <1>0, <3>2, <3>3 DEF AllMarked
    <3>5. SendingFits'
      BY <3>1, <3>2, <3>3 DEF SendingFits, WithinLimits
    <3>6. SendingOwed'
      BY <2>0, <3>1, <3>2 DEF SendingOwed, StillOwed
    <3> QED BY <3>4, <3>5, <3>6 DEF DebtorsInv
  <2>4. ASSUME Deliver PROVE DebtorsInv'
    <3> PICK k : k = Len(inbox) + 1
      OBVIOUS
    <3>1. /\ DOMAIN inbox' = DOMAIN inbox \cup {k} /\ \A j \in DOMAIN inbox : inbox'[j] = inbox[j]
          /\ inbox'[k].phone = drafts[tool.draft].phone /\ inbox'[k].on = day
          /\ tool'.at = "sent" /\ tool'.draft = tool.draft
      BY <2>4, DeliverIs
    <3>2. tool.at = "send" /\ UNCHANGED <<day, drafts, adrift, shifted>>
      BY <2>4 DEF Deliver
    <3>3. Sent' = Sent
      BY <3>2 DEF Sent
    <3>4. drafts[tool.draft].status = "draft" /\ drafts[tool.draft].on = day
      BY <1>0, <3>2 DEF SendingFits
    <3>5. AllMarked'
      <4> SUFFICES ASSUME NEW j \in DOMAIN inbox'
                   PROVE  \/ inbox'[j].phone \in adrift
                          \/ \E i \in Sent : drafts[i].phone = inbox'[j].phone /\ drafts[i].on = inbox'[j].on
                          \/ /\ drafts[tool.draft].phone = inbox'[j].phone
                             /\ drafts[tool.draft].on = inbox'[j].on
        BY <3>1, <3>2, <3>3 DEF AllMarked
      <4>1. CASE j = k
        BY <3>1, <3>4, <4>1
      <4>2. CASE j # k
        <5>1. j \in DOMAIN inbox /\ inbox'[j] = inbox[j]
          BY <3>1, <4>2
        <5> QED BY <1>0, <3>2, <5>1 DEF AllMarked
      <4> QED BY <4>1, <4>2
    <3>6. SendingFits' /\ SendingOwed'
      BY <3>1, <3>2, <3>4 DEF SendingFits, SendingOwed
    <3> QED BY <3>5, <3>6 DEF DebtorsInv
  <2>5. ASSUME MarkSent \/ MarkFailed PROVE DebtorsInv'
    <3>1. PICK status \in {"sent", "failed"} : /\ Marked(status)
                                               /\ tool.at = IF status = "sent" THEN "sent" ELSE "send"
      BY <2>5 DEF MarkSent, MarkFailed
    <3>2. PICK i \in DOMAIN drafts : i = tool.draft
      BY <1>0, <3>1
    <3>3. drafts' = [drafts EXCEPT ![i].status = status] /\ RemindersTypeOK
      BY <3>1, <3>2 DEF Marked, TInv
    <3>4. /\ DOMAIN drafts' = DOMAIN drafts
          /\ \A j \in DOMAIN drafts : j # i => drafts'[j] = drafts[j]
          /\ drafts'[i].phone = drafts[i].phone /\ drafts'[i].on = drafts[i].on
          /\ drafts'[i].status = status
      BY <3>3, MarkIs
    <3>5. drafts[i].status = "draft"
      BY <1>0, <3>1, <3>2 DEF SendingFits
    <3>6. /\ Sent \subseteq Sent' /\ (status = "sent" => i \in Sent')
          /\ \A j \in Sent : drafts'[j] = drafts[j]
      BY <3>4, <3>5 DEF Sent
    <3>7. tool' = Idle /\ UNCHANGED <<day, inbox, adrift, shifted>>
      BY <3>1 DEF Marked, history
    <3>8. AllMarked'
      <4> SUFFICES ASSUME NEW j \in DOMAIN inbox
                   PROVE  \/ inbox[j].phone \in adrift
                          \/ \E m \in Sent' : drafts'[m].phone = inbox[j].phone /\ drafts'[m].on = inbox[j].on
        BY <3>7 DEF AllMarked
      <4>1. CASE inbox[j].phone \in adrift
        BY <4>1
      <4>2. CASE \E m \in Sent : drafts[m].phone = inbox[j].phone /\ drafts[m].on = inbox[j].on
        BY <3>6, <4>2
      <4>3. CASE tool.at = "sent" /\ drafts[i].phone = inbox[j].phone /\ drafts[i].on = inbox[j].on
        <5>1. status = "sent"
          BY <3>1, <4>3
        <5> QED BY <3>4, <3>6, <4>3, <5>1
      <4> QED BY <1>0, <3>2, <4>1, <4>2, <4>3 DEF AllMarked
    <3> QED BY <1>0, <3>7, <3>8 DEF DebtorsInv, SendingFits, SendingOwed
  <2>6. ASSUME Lose PROVE DebtorsInv'
    <3>1. /\ tool' = Idle /\ UNCHANGED <<day, drafts, inbox>>
          /\ adrift' = IF tool.at = "sent" THEN adrift \cup {drafts[tool.draft].phone} ELSE adrift
      BY <2>6 DEF Lose
    <3>2. Sent' = Sent
      BY <3>1 DEF Sent
    <3>3. AllMarked'
      BY <1>0, <3>1, <3>2 DEF AllMarked
    <3> QED BY <1>0, <3>1, <3>3 DEF DebtorsInv, SendingFits, SendingOwed
  <2>7. ASSUME NEW n \in Phones, Stop(n) PROVE DebtorsInv'
    <3>1. tool' = tool /\ UNCHANGED <<day, drafts, inbox, adrift, shifted>>
      BY <2>7 DEF Stop
    <3> QED BY <2>0, <3>1, RemindersStay
  <2>8. ASSUME NextRequest PROVE DebtorsInv'
    <3>1. tool' = tool /\ UNCHANGED <<day, drafts, inbox, adrift, shifted>>
      BY <2>8 DEF NextRequest, history
    <3> QED BY <2>0, <3>1, RemindersStay
  <2>9. ASSUME NextDay PROVE DebtorsInv'
    <3>1. tool = Idle /\ tool' = tool /\ UNCHANGED <<drafts, inbox, adrift, shifted>>
      BY <2>9 DEF NextDay, history
    <3>2. Sent' = Sent
      BY <3>1 DEF Sent
    <3> QED BY <1>0, <3>1, <3>2 DEF DebtorsInv, AllMarked, SendingFits, SendingOwed
  <2> QED BY <1>5, <2>1, <2>2, <2>3, <2>4, <2>5, <2>6, <2>7, <2>8, <2>9 DEF Remind, RemindersNext
<1> QED BY <1>1, <1>2, <1>3, <1>4, <1>5 DEF Next

\* Only a delivery is in the inbox, only a confirmation starts a sending, only a STOP is heard.
LEMMA InboxMoves ==
  ASSUME TInv, [Next]_vars
  PROVE  /\ inbox' = inbox \/ Deliver
         /\ tool'.at # "send" \/ tool' = tool \/ \E i \in DOMAIN drafts : Confirm(i)
         /\ stopped' = stopped \/ \E n \in Phones : Stop(n)
<1>1. CASE UNCHANGED vars
  BY <1>1 DEF vars, books, reminderVars
<1>2. CASE Keep
  <2>1. tool' = tool /\ inbox' = inbox /\ stopped' = stopped
    BY <1>2 DEF Keep, Type, Undo, reminderVars
  <2> QED BY <2>1
<1>3. CASE ClarifyOutside
  <2>1. tool' = tool /\ inbox' = inbox /\ stopped' = stopped
    BY <1>3 DEF ClarifyOutside, Clarify
  <2> QED BY <2>1
<1>4. CASE AnswerAlerts
  BY <1>4, AnswerTypes DEF reminderVars
<1>5. CASE Remind
  <2>1. CASE \E i \in DOMAIN drafts : Confirm(i)
    BY <2>1 DEF Confirm
  <2>2. CASE Deliver
    <3>1. tool'.at = "sent" /\ stopped' = stopped
      BY <2>2, DeliverIs DEF Deliver
    <3> QED BY <2>2, <3>1
  <2>3. CASE \E n \in Phones : Stop(n)
    BY <2>3 DEF Stop
  <2>4. CASE \E p \in Parties : DraftReminder(p) \/ \E n \in Phones : SaveContact(p, n)
    BY <2>4 DEF DraftReminder, SaveContact, history
  <2>5. CASE NextRequest \/ MarkSent \/ MarkFailed \/ Lose \/ NextDay
    <3>1. inbox' = inbox /\ stopped' = stopped /\ (tool' = tool \/ tool' = Idle)
      BY <2>5 DEF NextRequest, MarkSent, MarkFailed, Marked, Lose, NextDay, history
    <3> QED BY <3>1, IdleIs
  <2> QED BY <1>5, <2>1, <2>2, <2>3, <2>4, <2>5 DEF Remind, RemindersNext
<1> QED BY <1>1, <1>2, <1>3, <1>4, <1>5 DEF Next

LEMMA SparedStep ==
  ASSUME TInv, DebtorsInv, [Next]_vars
  PROVE  NotTwiceSoon /\ StopIsHeard
<1>0. AllMarked /\ SendingFits /\ inbox \in Seq(Message)
  BY DEF DebtorsInv, TInv, RemindersTypeOK
<1>1. NotTwiceSoon
  <2>1. CASE inbox' = inbox
    <3>1. Len(inbox') = Len(inbox) /\ Len(inbox) \in Nat
      BY <1>0, <2>1
    <3> QED BY <3>1 DEF NotTwiceSoon
  <2>2. CASE Deliver
    <3> PICK k : k = Len(inbox) + 1
      OBVIOUS
    <3>1. /\ Len(inbox') = k /\ \A j \in DOMAIN inbox : inbox'[j] = inbox[j]
          /\ inbox'[k].phone = drafts[tool.draft].phone /\ inbox'[k].on = day
      BY <2>2, DeliverIs
    <3>2. tool.at = "send"
      BY <2>2 DEF Deliver
    <3>3. ASSUME inbox'[k].phone \notin adrift, NEW i \in DOMAIN inbox, inbox[i].phone = inbox'[k].phone
          PROVE  inbox'[k].on - inbox[i].on >= Cooldown
      <4>1. PICK m \in Sent : drafts[m].phone = inbox[i].phone /\ drafts[m].on = inbox[i].on
        BY <1>0, <3>2, <3>3 DEF AllMarked
      <4>2. day - drafts[m].on >= Cooldown
        BY <1>0, <3>1, <3>2, <3>3, <4>1 DEF SendingFits
      <4> QED BY <3>1, <4>1, <4>2
    <3> QED BY <3>1, <3>3 DEF NotTwiceSoon
  <2> QED BY <2>1, <2>2, InboxMoves
<1>2. StopIsHeard
  <2>1. tool'.at = "send" /\ tool.at # "send" => drafts[tool'.draft].phone \notin optedOut
    <3> SUFFICES ASSUME tool'.at = "send", tool.at # "send" PROVE drafts[tool'.draft].phone \notin optedOut
      OBVIOUS
    <3>1. PICK i \in DOMAIN drafts : Confirm(i)
      BY InboxMoves
    <3>2. tool'.draft = i
      BY <3>1, ConfirmIs
    <3> QED BY <3>1, <3>2 DEF Confirm, WithinLimits
  <2>2. ASSUME NEW n \in stopped' \ stopped, n \notin optedOut'
        PROVE  n \in adrift \/ (tool.at = "sent" /\ drafts[tool.draft].phone = n)
    <3>1. PICK m \in Phones : Stop(m)
      BY <2>2, InboxMoves
    <3>2. /\ \E k \in DOMAIN inbox : inbox[k].phone = n
          /\ ~\E i \in Sent : drafts[i].phone = n
      BY <2>2, <3>1 DEF Stop
    <3> QED BY <1>0, <3>2 DEF AllMarked
  <2> QED BY <2>1, <2>2 DEF StopIsHeard
<1> QED BY <1>1, <1>2

LEMMA OwedStep ==
  ASSUME TInv, DebtorsInv, [Next]_vars, Len(inbox') > Len(inbox), ~shifted
  PROVE  inbox'[Len(inbox')].amount = Owed(drafts[tool.draft].party)
<1>1. Deliver
  <2>1. Len(inbox) \in Nat
    BY DEF TInv, RemindersTypeOK
  <2>2. inbox' # inbox
    BY <2>1
  <2> QED BY <2>2, InboxMoves
<1>2. inbox'[Len(inbox')].amount = drafts[tool.draft].amount
  BY <1>1, DeliverIs
<1>3. drafts[tool.draft].amount = Owed(drafts[tool.draft].party)
  BY <1>1 DEF DebtorsInv, SendingOwed, Deliver
<1> QED BY <1>2, <1>3

LEMMA DebtorsHold == Spec => [](TInv /\ DebtorsInv)
<1>1. Init => TInv /\ DebtorsInv
  BY TypesInit, DebtorsInit
<1>2. TInv /\ DebtorsInv /\ [Next]_vars => (TInv /\ DebtorsInv)'
  BY TypesNext, DebtorsNext
<1> QED BY <1>1, <1>2, PTL DEF Spec

\* A debtor is not written to again within the cooldown, and a STOP is heard, whatever the
\* trader drafts and confirms, unless a delivered reminder was never marked sent.
THEOREM SparesDebtors == Spec => DebtorsAreSpared
<1>1. TInv /\ DebtorsInv /\ [Next]_vars => [NotTwiceSoon /\ StopIsHeard]_vars
  BY SparedStep
<1> QED BY <1>1, DebtorsHold, PTL DEF Spec, DebtorsAreSpared

\* A reminder asks for what is owed when it goes out, whatever was recorded, undone or answered
\* since it was drafted, unless a clarification was made during the sending.
THEOREM AsksForWhatIsOwed == Spec => AmountIsOwed
<1>1. TInv /\ DebtorsInv /\ [Next]_vars =>
        [Len(inbox') > Len(inbox) /\ ~shifted =>
           inbox'[Len(inbox')].amount = Owed(drafts[tool.draft].party)]_vars
  BY OwedStep
<1> QED BY <1>1, DebtorsHold, PTL DEF Spec, AmountIsOwed
=============================================================================
