---------------------------- MODULE LedgerProofs -----------------------------
(***************************************************************************)
(* Facts about the ledger's queries, above all about the running SUM of an *)
(* account (it exists, it is an integer, it does not look beyond the rows  *)
(* it has added, and one more row adds the signed points of that row) and  *)
(* about the history of an account, which adds up to the same balance.     *)
(*                                                                         *)
(* Sums and histories are recursive functions, so these facts need         *)
(* induction.  It is done by hand, with the least counterexample           *)
(* (LeastNat), because the library's induction rules take an operator the  *)
(* provers cannot choose.                                                  *)
(***************************************************************************)
EXTENDS Ledger, WellFoundedInduction, TLAPS

LtNat == {ss \in Nat \X Nat : ss[1] < ss[2]}

LEMMA LtNatWF == IsWellFoundedOn(LtNat, Nat)
BY NatLessThanWellFounded, SMT DEF OpToRel, LtNat

\* A non-empty set of naturals has a least element.
LEMMA LeastNat ==
  ASSUME NEW T, T \subseteq Nat, T # {}
  PROVE  \E x \in T : \A y \in T : ~ (y < x)
<1>1. PICK x \in T : \A y \in T : ~ (<<y, x>> \in LtNat)
  BY LtNatWF, WFMin
<1>2. QED
  BY <1>1 DEF LtNat

-----------------------------------------------------------------------------
(***************************************************************************)
(* Sums of a sequence of integers.                                         *)
(***************************************************************************)
\* s holds the sums of the first 0 .. n members of v.
IsSum(s, n, v) ==
  s = [i \in 0 .. n |-> IF i = 0 THEN 0 ELSE s[i - 1] + v[i]]

LEMMA SumExists ==
  ASSUME NEW v
  PROVE  \A n \in Nat : \E s : IsSum(s, n, v)
<1> DEFINE T == {n \in Nat : ~ \E s : IsSum(s, n, v)}
<1> SUFFICES ASSUME T # {} PROVE FALSE
  OBVIOUS
<1>1. PICK x \in T : \A y \in T : ~ (y < x)
  BY LeastNat
<1>2. IsSum([i \in 0 .. 0 |-> 0], 0, v)
  BY DEF IsSum
<1>3. x # 0
  BY <1>2
<1>4. x - 1 \in Nat /\ x - 1 \notin T
  BY <1>1, <1>3
<1>5. PICK s : IsSum(s, x - 1, v)
  BY <1>4
<1>6. IsSum([i \in 0 .. x |-> IF i = x THEN s[x - 1] + v[x] ELSE s[i]], x, v)
  BY <1>3, <1>4, <1>5 DEF IsSum
<1>7. QED
  BY <1>6

\* The recursive definition of PartialSums defines what it says.
LEMMA SumDef ==
  ASSUME NEW v, Len(v) \in Nat
  PROVE  IsSum(PartialSums(v), Len(v), v)
BY SumExists DEF PartialSums, IsSum

LEMMA PartialSumsInt ==
  ASSUME NEW v \in Seq(Int)
  PROVE  PartialSums(v) \in [0 .. Len(v) -> Int]
<1> DEFINE s == PartialSums(v)
           T == {i \in 0 .. Len(v) : s[i] \notin Int}
<1>1. s = [i \in 0 .. Len(v) |-> IF i = 0 THEN 0 ELSE s[i - 1] + v[i]]
  BY SumDef DEF IsSum
<1>2. \A i \in 1 .. Len(v) : v[i] \in Int
  OBVIOUS
<1> HIDE DEF s
<1>3. T = {}
  <2> SUFFICES ASSUME T # {} PROVE FALSE
    OBVIOUS
  <2>1. T \subseteq Nat
    OBVIOUS
  <2>2. PICK x \in T : \A y \in T : ~ (y < x)
    BY <2>1, LeastNat
  <2>3. x # 0
    BY <1>1
  <2>4. x - 1 \in 0 .. Len(v) /\ x - 1 \notin T
    BY <2>2, <2>3
  <2>5. QED
    BY <1>1, <1>2, <2>3, <2>4
<1>4. QED
  BY <1>1, <1>3 DEF s

LEMMA TotalInt ==
  ASSUME NEW v \in Seq(Int)
  PROVE  Total(v) \in Int
<1>1. Len(v) \in 0 .. Len(v)
  OBVIOUS
<1>2. QED
  BY <1>1, PartialSumsInt DEF Total

\* The sum after i members depends on those members only.
LEMMA PartialSumsPrefix ==
  ASSUME NEW v \in Seq(Int), NEW w \in Seq(Int),
         Len(w) <= Len(v), \A i \in 1 .. Len(w) : v[i] = w[i]
  PROVE  \A i \in 0 .. Len(w) : PartialSums(v)[i] = PartialSums(w)[i]
<1> DEFINE s == PartialSums(v)
           t == PartialSums(w)
           T == {i \in 0 .. Len(w) : s[i] # t[i]}
<1>1. s = [i \in 0 .. Len(v) |-> IF i = 0 THEN 0 ELSE s[i - 1] + v[i]]
  BY SumDef DEF IsSum
<1>2. t = [i \in 0 .. Len(w) |-> IF i = 0 THEN 0 ELSE t[i - 1] + w[i]]
  BY SumDef DEF IsSum
<1> HIDE DEF s, t
<1>3. T = {}
  <2> SUFFICES ASSUME T # {} PROVE FALSE
    OBVIOUS
  <2>1. T \subseteq Nat
    OBVIOUS
  <2>2. PICK x \in T : \A y \in T : ~ (y < x)
    BY <2>1, LeastNat
  <2>3. x # 0
    BY <1>1, <1>2
  <2>4. x - 1 \in 0 .. Len(w) /\ x - 1 \notin T
    BY <2>2, <2>3
  <2>5. x \in 1 .. Len(w) /\ v[x] = w[x]
    BY <2>3
  <2>6. x \in 0 .. Len(v) /\ x \in 0 .. Len(w)
    BY <2>5
  <2>7. s[x] = s[x - 1] + v[x]
    BY <1>1, <2>3, <2>6
  <2>8. t[x] = t[x - 1] + w[x]
    BY <1>2, <2>3, <2>6
  <2>9. QED
    BY <2>4, <2>5, <2>7, <2>8
<1>4. QED
  BY <1>3 DEF s, t

\* One more member: the earlier sums stay and the total moves by that member.
LEMMA TotalAppend ==
  ASSUME NEW v \in Seq(Int), NEW x \in Int
  PROVE  /\ \A i \in 0 .. Len(v) : PartialSums(Append(v, x))[i] = PartialSums(v)[i]
         /\ PartialSums(Append(v, x))[Len(v) + 1] = PartialSums(v)[Len(v)] + x
         /\ Total(Append(v, x)) = Total(v) + x
<1> DEFINE w == Append(v, x)
<1>1. w \in Seq(Int) /\ Len(w) = Len(v) + 1 /\ Len(v) \in Nat
  OBVIOUS
<1>2. \A i \in 1 .. Len(v) : w[i] = v[i]
  OBVIOUS
<1>3. w[Len(v) + 1] = x
  OBVIOUS
<1> HIDE DEF w
<1>4. \A i \in 0 .. Len(v) : PartialSums(w)[i] = PartialSums(v)[i]
  BY <1>1, <1>2, PartialSumsPrefix
<1>5. PartialSums(w)[Len(v) + 1] = PartialSums(w)[Len(v)] + x
  <2>1. IsSum(PartialSums(w), Len(w), w)
    BY <1>1, SumDef
  <2>2. QED
    BY <1>1, <1>3, <2>1 DEF IsSum
<1>6. QED
  BY <1>1, <1>4, <1>5 DEF Total, w

\* A sum does not depend on the direction in which it is taken: the last j
\* members, added from the end, are what the first Len(v) - j leave to add.
LEMMA TotalReverse ==
  ASSUME NEW v \in Seq(Int)
  PROVE  Total(Reverse(v)) = Total(v)
<1> DEFINE n == Len(v)
           w == Reverse(v)
           p == PartialSums(v)
           q == PartialSums(w)
           T == {j \in 0 .. n : q[j] + p[n - j] # p[n]}
<1>1. /\ n \in Nat /\ w \in Seq(Int) /\ Len(w) = n
      /\ \A i \in 1 .. n : w[i] = v[n - i + 1]
  BY DEF Reverse
<1>2. p \in [0 .. n -> Int] /\ q \in [0 .. n -> Int]
  BY <1>1, PartialSumsInt
<1>3. p = [i \in 0 .. n |-> IF i = 0 THEN 0 ELSE p[i - 1] + v[i]]
  BY <1>1, SumDef DEF IsSum
<1>4. q = [i \in 0 .. n |-> IF i = 0 THEN 0 ELSE q[i - 1] + w[i]]
  <2>1. IsSum(PartialSums(w), Len(w), w)
    BY <1>1, SumDef
  <2>2. QED
    BY <1>1, <2>1 DEF IsSum
<1>5. \A i \in 1 .. n : v[i] \in Int
  OBVIOUS
<1>6. Total(v) = p[n] /\ Total(Reverse(v)) = q[n]
  BY <1>1 DEF Total
<1> HIDE DEF n, w, p, q
<1>7. T = {}
  <2> SUFFICES ASSUME T # {} PROVE FALSE
    OBVIOUS
  <2>1. T \subseteq Nat
    BY <1>1
  <2>2. PICK x \in T : \A y \in T : ~ (y < x)
    BY <2>1, LeastNat
  <2>3. x \in 0 .. n /\ q[x] + p[n - x] # p[n]
    BY <2>2
  <2>4. q[0] = 0
    BY <1>1, <1>4
  <2>5. x # 0
    BY <1>1, <1>2, <2>3, <2>4
  <2>6. x - 1 \in 0 .. n /\ x - 1 \notin T
    BY <1>1, <2>2, <2>3, <2>5
  <2>7. q[x - 1] + p[n - (x - 1)] = p[n]
    BY <2>6
  <2> DEFINE k == n - x + 1
  <2>8. k \in 1 .. n /\ k - 1 = n - x /\ n - (x - 1) = k
    BY <1>1, <2>3, <2>5
  <2>9. q[x] = q[x - 1] + v[k]
    BY <1>1, <1>4, <2>3, <2>5
  <2> HIDE DEF k
  <2>10. k \in 0 .. n /\ k # 0 /\ k - 1 \in 0 .. n
    BY <1>1, <2>8
  <2>11. p[k] = p[k - 1] + v[k]
    BY <1>3, <2>10
  <2>12. q[x - 1] \in Int /\ p[k - 1] \in Int /\ p[n] \in Int /\ v[k] \in Int
    <3>1. n \in 0 .. n
      BY <1>1
    <3>2. q[x - 1] \in Int
      BY <1>2, <2>6
    <3>3. p[k - 1] \in Int /\ p[n] \in Int
      BY <1>2, <2>10, <3>1
    <3>4. v[k] \in Int
      BY <1>5, <2>8
    <3>5. QED
      BY <3>2, <3>3, <3>4
  <2>13. q[x - 1] + p[k] = p[n] /\ q[x] + p[k - 1] # p[n]
    BY <2>3, <2>7, <2>8
  <2>14. QED
    BY <2>9, <2>11, <2>12, <2>13
<1>8. q[n] + p[0] = p[n]
  BY <1>1, <1>7
<1>9. p[0] = 0
  BY <1>1, <1>3
<1>10. QED
  BY <1>1, <1>2, <1>6, <1>8, <1>9

-----------------------------------------------------------------------------
(***************************************************************************)
(* The running SUM of an account.                                          *)
(***************************************************************************)
LEMMA SignedPointsInt ==
  ASSUME NEW r \in Row, NEW a
  PROVE  SignedPoints(r, a) \in Int
BY LedgerAssumption
   DEF SignedPoints, Row, Transaction, Account, AuditEntry, IsTxn, Points, Kinds

\* The column of signed points that RunningSum adds up.
SignedColumn(d, a) == [i \in 1 .. Len(d) |-> SignedPoints(d[i], a)]

LEMMA SignedColumnInt ==
  ASSUME NEW d \in Seq(Row), NEW a
  PROVE  /\ SignedColumn(d, a) \in Seq(Int)
         /\ Len(SignedColumn(d, a)) = Len(d)
         /\ RunningSum(d, a) = PartialSums(SignedColumn(d, a))
         /\ Balance(d, a) = Total(SignedColumn(d, a))
<1>1. \A i \in 1 .. Len(d) : SignedPoints(d[i], a) \in Int
  BY SignedPointsInt
<1>2. SignedColumn(d, a) \in Seq(Int) /\ Len(SignedColumn(d, a)) = Len(d)
  BY <1>1 DEF SignedColumn
<1>3. RunningSum(d, a) = PartialSums(SignedColumn(d, a))
  BY DEF RunningSum, SignedColumn
<1>4. QED
  BY <1>2, <1>3 DEF Balance, Total

LEMMA SumInt ==
  ASSUME NEW d \in Seq(Row), NEW a
  PROVE  RunningSum(d, a) \in [0 .. Len(d) -> Int]
BY SignedColumnInt, PartialSumsInt

LEMMA BalanceInt ==
  ASSUME NEW d \in Seq(Row), NEW a
  PROVE  Balance(d, a) \in Int
BY SignedColumnInt, TotalInt

\* The recursive definition of RunningSum, row by row.
LEMMA SumStep ==
  ASSUME NEW d \in Seq(Row), NEW a
  PROVE  /\ RunningSum(d, a)[0] = 0
         /\ \A i \in 1 .. Len(d) :
               RunningSum(d, a)[i] = RunningSum(d, a)[i - 1] + SignedPoints(d[i], a)
<1> DEFINE v == SignedColumn(d, a)
           s == PartialSums(v)
<1>1. v \in Seq(Int) /\ Len(v) = Len(d) /\ RunningSum(d, a) = s /\ Len(d) \in Nat
  BY SignedColumnInt
<1>2. \A i \in 1 .. Len(d) : v[i] = SignedPoints(d[i], a)
  BY DEF SignedColumn
<1>3. IsSum(s, Len(v), v)
  BY <1>1, SumDef
<1> HIDE DEF v, s
<1>4. s = [i \in 0 .. Len(d) |-> IF i = 0 THEN 0 ELSE s[i - 1] + v[i]]
  BY <1>1, <1>3 DEF IsSum
<1>5. s[0] = 0
  BY <1>1, <1>4
<1>6. \A i \in 1 .. Len(d) : s[i] = s[i - 1] + v[i]
  BY <1>1, <1>4
<1>7. QED
  BY <1>1, <1>2, <1>5, <1>6

\* The sum after i rows depends on those rows only.
LEMMA SumPrefix ==
  ASSUME NEW d \in Seq(Row), NEW e \in Seq(Row), NEW a,
         Len(e) <= Len(d), \A i \in 1 .. Len(e) : d[i] = e[i]
  PROVE  \A i \in 0 .. Len(e) : RunningSum(d, a)[i] = RunningSum(e, a)[i]
<1> DEFINE v == SignedColumn(d, a)
           w == SignedColumn(e, a)
<1>1. /\ v \in Seq(Int) /\ Len(v) = Len(d) /\ RunningSum(d, a) = PartialSums(v)
      /\ w \in Seq(Int) /\ Len(w) = Len(e) /\ RunningSum(e, a) = PartialSums(w)
  BY SignedColumnInt
<1>2. \A i \in 1 .. Len(e) : v[i] = w[i]
  BY DEF SignedColumn
<1> HIDE DEF v, w
<1>3. \A i \in 0 .. Len(w) : PartialSums(v)[i] = PartialSums(w)[i]
  BY <1>1, <1>2, PartialSumsPrefix
<1>4. QED
  BY <1>1, <1>3

\* One more row: the earlier sums stay and the balance moves by that row.
LEMMA SumAppend ==
  ASSUME NEW d \in Seq(Row), NEW r \in Row, NEW a
  PROVE  /\ \A i \in 0 .. Len(d) :
               RunningSum(Append(d, r), a)[i] = RunningSum(d, a)[i]
         /\ RunningSum(Append(d, r), a)[Len(d) + 1]
               = RunningSum(d, a)[Len(d)] + SignedPoints(r, a)
         /\ Balance(Append(d, r), a) = Balance(d, a) + SignedPoints(r, a)
<1> DEFINE e == Append(d, r)
<1>1. /\ e \in Seq(Row) /\ Len(e) = Len(d) + 1 /\ Len(d) \in Nat
      /\ Len(d) + 1 \in 1 .. Len(e)
  OBVIOUS
<1>2. \A i \in 1 .. Len(d) : e[i] = d[i]
  OBVIOUS
<1>3. e[Len(d) + 1] = r
  OBVIOUS
<1> HIDE DEF e
<1>4. \A i \in 0 .. Len(d) : RunningSum(e, a)[i] = RunningSum(d, a)[i]
  BY <1>1, <1>2, SumPrefix
<1>5. RunningSum(e, a)[Len(d) + 1]
        = RunningSum(e, a)[Len(d) + 1 - 1] + SignedPoints(e[Len(d) + 1], a)
  BY <1>1, SumStep
<1>6. QED
  BY <1>1, <1>3, <1>4, <1>5 DEF Balance, e

\* A prefix of the log has the sums of the log.
LEMMA SumSubSeq ==
  ASSUME NEW d \in Seq(Row), NEW n \in 0 .. Len(d), NEW a
  PROVE  \A i \in 0 .. n : RunningSum(SubSeq(d, 1, n), a)[i] = RunningSum(d, a)[i]
<1> DEFINE e == SubSeq(d, 1, n)
<1>1. e \in Seq(Row) /\ Len(e) = n /\ n <= Len(d)
  OBVIOUS
<1>2. \A i \in 1 .. n : e[i] = d[i]
  OBVIOUS
<1> HIDE DEF e
<1>3. \A i \in 0 .. Len(e) : RunningSum(d, a)[i] = RunningSum(e, a)[i]
  BY <1>1, <1>2, SumPrefix
<1>4. QED
  BY <1>1, <1>3 DEF e

-----------------------------------------------------------------------------
(***************************************************************************)
(* The history of an account.  TransactionsOf filters the log row by row,  *)
(* so its facts are inductions over the log as well.                       *)
(***************************************************************************)
OwnTxn(r, a) == IsTxn(r) /\ r.account = a

\* f[i] holds the transactions of a among the first i rows of d.
IsHistory(f, n, d, a) ==
  f = [i \in 0 .. n |->
         IF i = 0 THEN <<>>
         ELSE IF OwnTxn(d[i], a) THEN Append(f[i - 1], d[i]) ELSE f[i - 1]]

LEMMA HistoryExists ==
  ASSUME NEW d, NEW a
  PROVE  \A n \in Nat : \E f : IsHistory(f, n, d, a)
<1> DEFINE T == {n \in Nat : ~ \E f : IsHistory(f, n, d, a)}
<1> SUFFICES ASSUME T # {} PROVE FALSE
  OBVIOUS
<1>1. PICK x \in T : \A y \in T : ~ (y < x)
  BY LeastNat
<1>2. IsHistory([i \in 0 .. 0 |-> <<>>], 0, d, a)
  BY DEF IsHistory
<1>3. x # 0
  BY <1>2
<1>4. x - 1 \in Nat /\ x - 1 \notin T
  BY <1>1, <1>3
<1>5. PICK f : IsHistory(f, x - 1, d, a)
  BY <1>4
<1> DEFINE newest == IF OwnTxn(d[x], a) THEN Append(f[x - 1], d[x]) ELSE f[x - 1]
           g == [i \in 0 .. x |-> IF i = x THEN newest ELSE f[i]]
<1>6. IsHistory(g, x, d, a)
  <2> HIDE DEF newest
  <2>1. /\ \A i \in 0 .. x - 1 : g[i] = f[i]
        /\ g[x] = newest
    BY <1>3, <1>4
  <2>2. \A i \in 0 .. x - 1 :
          f[i] = IF i = 0 THEN <<>>
                 ELSE IF OwnTxn(d[i], a) THEN Append(f[i - 1], d[i]) ELSE f[i - 1]
    BY <1>5 DEF IsHistory
  <2>3. g[x] = IF OwnTxn(d[x], a) THEN Append(g[x - 1], d[x]) ELSE g[x - 1]
    <3>1. x - 1 \in 0 .. x - 1
      BY <1>4
    <3>2. QED
      BY <2>1, <3>1 DEF newest
  <2>4. ASSUME NEW i \in 0 .. x
        PROVE  g[i] = IF i = 0 THEN <<>>
                      ELSE IF OwnTxn(d[i], a) THEN Append(g[i - 1], d[i]) ELSE g[i - 1]
    <3>1. CASE i = x
      BY <1>3, <2>3, <3>1
    <3>2. CASE i # x
      <4>1. i \in 0 .. x - 1 /\ (i # 0 => i - 1 \in 0 .. x - 1)
        BY <1>4, <3>2
      <4>2. g[i] = f[i] /\ (i # 0 => g[i - 1] = f[i - 1])
        BY <2>1, <4>1
      <4>3. QED
        BY <2>2, <4>1, <4>2
    <3>3. QED
      BY <3>1, <3>2
  <2>5. g = [i \in 0 .. x |-> g[i]]
    OBVIOUS
  <2> HIDE DEF g
  <2>6. QED
    BY <2>4, <2>5 DEF IsHistory
<1>7. QED
  BY <1>6

\* TransactionsOf is the last value of a history.
LEMMA HistoryDef ==
  ASSUME NEW d \in Seq(Row), NEW a
  PROVE  \E f : IsHistory(f, Len(d), d, a) /\ TransactionsOf(d, a) = f[Len(d)]
<1>1. Len(d) \in Nat
  OBVIOUS
<1>2. \E f : IsHistory(f, Len(d), d, a)
  BY <1>1, HistoryExists
<1>3. TransactionsOf(d, a) = (CHOOSE f : IsHistory(f, Len(d), d, a))[Len(d)]
  BY DEF TransactionsOf, IsHistory, OwnTxn
<1>4. QED
  BY <1>2, <1>3

\* What a transaction adds to the balance of its account.
Worth(t) == IF t.kind = "earn" THEN t.points ELSE -t.points
WorthColumn(rows) == [i \in 1 .. Len(rows) |-> Worth(rows[i])]

LEMMA WorthInt ==
  ASSUME NEW t \in Transaction
  PROVE  Worth(t) \in Int
BY LedgerAssumption DEF Worth, Transaction, Points

LEMMA WorthColumnInt ==
  ASSUME NEW rows \in Seq(Transaction)
  PROVE  WorthColumn(rows) \in Seq(Int) /\ Len(WorthColumn(rows)) = Len(rows)
<1>1. \A i \in 1 .. Len(rows) : Worth(rows[i]) \in Int
  BY WorthInt
<1>2. QED
  BY <1>1 DEF WorthColumn

LEMMA OwnTxnWorth ==
  ASSUME NEW r \in Row, NEW a
  PROVE  /\ OwnTxn(r, a) => r \in Transaction /\ SignedPoints(r, a) = Worth(r)
         /\ ~ OwnTxn(r, a) => SignedPoints(r, a) = 0
<1>1. ASSUME OwnTxn(r, a) PROVE r \in Transaction
  BY <1>1 DEF OwnTxn, IsTxn, Row, Transaction, Account, AuditEntry
<1>2. ASSUME OwnTxn(r, a) PROVE SignedPoints(r, a) = Worth(r)
  <2>1. r.kind \in Kinds
    BY <1>1, <1>2 DEF Transaction
  <2>2. QED
    BY <1>2, <2>1 DEF OwnTxn, SignedPoints, Worth, Kinds
<1>3. ~ OwnTxn(r, a) => SignedPoints(r, a) = 0
  BY DEF OwnTxn, SignedPoints
<1>4. QED
  BY <1>1, <1>2, <1>3

LEMMA WorthAppend ==
  ASSUME NEW rows \in Seq(Transaction), NEW t \in Transaction
  PROVE  Total(WorthColumn(Append(rows, t))) = Total(WorthColumn(rows)) + Worth(t)
<1> DEFINE v == WorthColumn(rows)
           w == WorthColumn(Append(rows, t))
<1>1. v \in Seq(Int) /\ Len(v) = Len(rows) /\ Worth(t) \in Int /\ Len(rows) \in Nat
  BY WorthColumnInt, WorthInt
<1>2. Append(rows, t) \in Seq(Transaction) /\ Len(Append(rows, t)) = Len(rows) + 1
  OBVIOUS
<1>3. w \in Seq(Int) /\ Len(w) = Len(rows) + 1
  BY <1>2, WorthColumnInt
<1>4. ASSUME NEW i \in 1 .. Len(rows) + 1
      PROVE  w[i] = IF i = Len(rows) + 1 THEN Worth(t) ELSE v[i]
  <2>1. w[i] = Worth(Append(rows, t)[i])
    BY <1>2 DEF WorthColumn
  <2>2. CASE i = Len(rows) + 1
    BY <2>1, <2>2
  <2>3. CASE i # Len(rows) + 1
    <3>1. i \in 1 .. Len(rows) /\ Append(rows, t)[i] = rows[i]
      BY <1>1, <2>3
    <3>2. v[i] = Worth(rows[i])
      BY <3>1 DEF WorthColumn
    <3>3. QED
      BY <2>1, <2>3, <3>1, <3>2
  <2>4. QED
    BY <2>2, <2>3
<1> HIDE DEF v, w
<1>5. w = Append(v, Worth(t))
  BY <1>1, <1>3, <1>4
<1>6. Total(Append(v, Worth(t))) = Total(v) + Worth(t)
  BY <1>1, TotalAppend
<1>7. QED
  BY <1>5, <1>6 DEF v, w

LEMMA TotalEmpty == Total(<<>>) = 0
<1>1. IsSum(PartialSums(<<>>), 0, <<>>)
  BY SumDef
<1>2. QED
  BY <1>1 DEF IsSum, Total

LEMMA WorthEmpty == Total(WorthColumn(<<>>)) = 0
<1>1. WorthColumn(<<>>) = <<>>
  BY DEF WorthColumn
<1>2. QED
  BY <1>1, TotalEmpty

\* rows are transactions of a that stand in d.
HistoryOf(rows, d, a) ==
  /\ rows \in Seq(Transaction)
  /\ \A k \in 1 .. Len(rows) :
        \E j \in 1 .. Len(d) : rows[k] = d[j] /\ OwnTxn(d[j], a)

LEMMA HistoryAppend ==
  ASSUME NEW rows, NEW d \in Seq(Row), NEW a, HistoryOf(rows, d, a),
         NEW j \in 1 .. Len(d), OwnTxn(d[j], a)
  PROVE  HistoryOf(Append(rows, d[j]), d, a)
<1>1. rows \in Seq(Transaction) /\ Len(rows) \in Nat
  BY DEF HistoryOf
<1>2. d[j] \in Row
  OBVIOUS
<1>3. d[j] \in Transaction
  BY <1>2, OwnTxnWorth
<1> DEFINE t == d[j]
<1>4. t \in Transaction
  BY <1>3
<1>5. ASSUME NEW k \in 1 .. Len(Append(rows, t))
      PROVE  \E i \in 1 .. Len(d) : Append(rows, t)[k] = d[i] /\ OwnTxn(d[i], a)
  <2>1. CASE k = Len(rows) + 1
    BY <1>1, <2>1
  <2>2. CASE k # Len(rows) + 1
    <3>1. k \in 1 .. Len(rows) /\ Append(rows, t)[k] = rows[k]
      BY <1>1, <2>2
    <3>2. QED
      BY <3>1 DEF HistoryOf
  <2>3. QED
    BY <2>1, <2>2
<1>6. Append(rows, t) \in Seq(Transaction)
  BY <1>1, <1>4
<1>7. QED
  BY <1>5, <1>6 DEF HistoryOf

\* The history of an account holds its own transactions only, and what they
\* are worth adds up to its balance.
LEMMA HistoryAddsUp ==
  ASSUME NEW d \in Seq(Row), NEW a
  PROVE  /\ HistoryOf(TransactionsOf(d, a), d, a)
         /\ Total(WorthColumn(TransactionsOf(d, a))) = Balance(d, a)
<1> DEFINE n == Len(d)
           s == RunningSum(d, a)
           Good(rows, i) == /\ HistoryOf(rows, d, a)
                            /\ Total(WorthColumn(rows)) = s[i]
<1>1. PICK f : IsHistory(f, n, d, a) /\ TransactionsOf(d, a) = f[n]
  BY HistoryDef
<1>2. /\ f[0] = <<>>
      /\ \A i \in 1 .. n :
            f[i] = IF OwnTxn(d[i], a) THEN Append(f[i - 1], d[i]) ELSE f[i - 1]
  <2>1. n \in Nat
    OBVIOUS
  <2> HIDE DEF n
  <2>2. \A i \in 0 .. n :
          f[i] = IF i = 0 THEN <<>>
                 ELSE IF OwnTxn(d[i], a) THEN Append(f[i - 1], d[i]) ELSE f[i - 1]
    BY <1>1 DEF IsHistory
  <2>3. 0 \in 0 .. n /\ \A i \in 1 .. n : i \in 0 .. n /\ i # 0
    BY <2>1
  <2>4. QED
    BY <2>2, <2>3
<1>3. /\ s[0] = 0 /\ s \in [0 .. n -> Int]
      /\ \A i \in 1 .. n : s[i] = s[i - 1] + SignedPoints(d[i], a)
  BY SumStep, SumInt
<1>4. n \in Nat /\ \A i \in 1 .. n : d[i] \in Row
  OBVIOUS
<1>5. Good(<<>>, 0)
  BY <1>3, WorthEmpty DEF HistoryOf
<1>6. ASSUME NEW i \in 1 .. n, Good(f[i - 1], i - 1)
      PROVE  Good(f[i], i)
  <2>1. CASE OwnTxn(d[i], a)
    <3>1. f[i] = Append(f[i - 1], d[i])
      BY <1>2, <2>1
    <3>2. HistoryOf(f[i], d, a)
      BY <1>6, <2>1, <3>1, HistoryAppend
    <3>3. d[i] \in Transaction /\ SignedPoints(d[i], a) = Worth(d[i])
      BY <1>4, <2>1, OwnTxnWorth
    <3>4. f[i - 1] \in Seq(Transaction)
      BY <1>6 DEF HistoryOf
    <3>5. Total(WorthColumn(f[i])) = Total(WorthColumn(f[i - 1])) + Worth(d[i])
      BY <3>1, <3>3, <3>4, WorthAppend
    <3>6. Total(WorthColumn(f[i - 1])) = s[i - 1]
      BY <1>6
    <3>7. s[i] = s[i - 1] + Worth(d[i])
      BY <1>3, <3>3
    <3>8. QED
      BY <3>2, <3>5, <3>6, <3>7
  <2>2. CASE ~ OwnTxn(d[i], a)
    <3>1. f[i] = f[i - 1]
      BY <1>2, <2>2
    <3>2. SignedPoints(d[i], a) = 0
      BY <1>4, <2>2, OwnTxnWorth
    <3>3. s[i] = s[i - 1]
      <4>1. s[i - 1] \in Int
        BY <1>3, <1>4
      <4>2. s[i] = s[i - 1] + 0
        BY <1>3, <3>2
      <4>3. QED
        BY <4>1, <4>2
    <3>4. QED
      BY <1>6, <3>1, <3>3
  <2>3. QED
    BY <2>1, <2>2
<1> DEFINE T == {i \in 0 .. n : ~ Good(f[i], i)}
<1>7. T = {}
  <2> HIDE DEF Good, n
  <2> SUFFICES ASSUME T # {} PROVE FALSE
    OBVIOUS
  <2>1. T \subseteq Nat
    BY <1>4
  <2>2. PICK x \in T : \A y \in T : ~ (y < x)
    BY <2>1, LeastNat
  <2>3. x # 0
    BY <1>2, <1>5
  <2>4. x \in 1 .. n /\ x - 1 \in 0 .. n /\ x - 1 \notin T
    BY <1>4, <2>2, <2>3
  <2>5. Good(f[x - 1], x - 1)
    BY <2>4
  <2>6. Good(f[x], x)
    BY <1>6, <2>4, <2>5
  <2>7. QED
    BY <2>6
<1>8. Good(f[n], n)
  <2>1. n \in 0 .. n
    BY <1>4
  <2> HIDE DEF Good
  <2>2. QED
    BY <1>7, <2>1
<1>9. QED
  BY <1>1, <1>8 DEF Balance

\* What GET /accounts/{id}/transactions shows of a row.
EntryOf(t) == [ref |-> t.ref, kind |-> t.kind, points |-> t.points]

\* The listing shows every row of the history, the newest first.
LEMMA ListingOfHistory ==
  ASSUME NEW d \in Seq(Row), NEW a
  PROVE  LET rows == TransactionsOf(d, a)
             list == ListTransactionsByAccount(d, a)
         IN  /\ list = [i \in 1 .. Len(rows) |-> EntryOf(rows[Len(rows) - i + 1])]
             /\ Len(rows) \in Nat /\ Len(list) = Len(rows)
<1> DEFINE rows == TransactionsOf(d, a)
           list == ListTransactionsByAccount(d, a)
           ent == [i \in 1 .. Len(rows) |-> EntryOf(rows[i])]
<1>1. rows \in Seq(Transaction)
  BY HistoryAddsUp DEF HistoryOf
<1>2. list = Reverse(ent)
  BY DEF ListTransactionsByAccount, EntryOf
<1> HIDE DEF rows, list
<1>3. Len(rows) \in Nat /\ Len(ent) = Len(rows)
  BY <1>1
<1>4. list = [i \in 1 .. Len(rows) |-> ent[Len(rows) - i + 1]]
  BY <1>2, <1>3 DEF Reverse
<1>5. \A i \in 1 .. Len(rows) : Len(rows) - i + 1 \in 1 .. Len(rows)
  BY <1>3
<1>6. list = [i \in 1 .. Len(rows) |-> EntryOf(rows[Len(rows) - i + 1])]
  BY <1>4, <1>5
<1>7. Len(list) = Len(rows)
  BY <1>3, <1>6
<1>8. QED
  BY <1>3, <1>6, <1>7 DEF rows, list

\* Whoever adds up the listing gets the balance.
LEMMA ListingAddsUp ==
  ASSUME NEW d \in Seq(Row), NEW a
  PROVE  Total(WorthColumn(ListTransactionsByAccount(d, a))) = Balance(d, a)
<1> DEFINE rows == TransactionsOf(d, a)
           list == ListTransactionsByAccount(d, a)
           n == Len(rows)
           v == WorthColumn(rows)
<1>1. rows \in Seq(Transaction) /\ Total(v) = Balance(d, a)
  BY HistoryAddsUp DEF HistoryOf
<1>2. /\ list = [i \in 1 .. n |-> EntryOf(rows[n - i + 1])]
      /\ n \in Nat /\ Len(list) = n
  BY ListingOfHistory
<1>3. v \in Seq(Int) /\ Len(v) = n
  BY <1>1, WorthColumnInt
<1>4. \A i \in 1 .. n : v[i] = Worth(rows[i])
  BY DEF WorthColumn
<1>5. \A i \in 1 .. n : n - i + 1 \in 1 .. n
  BY <1>2
<1> HIDE DEF rows, list, n, v
<1>6. \A i \in 1 .. n : Worth(list[i]) = Worth(rows[n - i + 1])
  BY <1>2 DEF Worth, EntryOf
<1>7. WorthColumn(list) = [i \in 1 .. n |-> v[n - i + 1]]
  BY <1>2, <1>4, <1>5, <1>6 DEF WorthColumn
<1>8. WorthColumn(list) = Reverse(v)
  BY <1>3, <1>7 DEF Reverse
<1>9. Total(Reverse(v)) = Total(v)
  BY <1>3, TotalReverse
<1>10. QED
  BY <1>1, <1>8, <1>9 DEF list

\* The correlated subquery of GET /accounts computes the same balance.
LEMMA AccountListAddsUp ==
  ASSUME NEW d \in Seq(Row), NEW a \in AccountsIn(d)
  PROVE  ListAccountsWithBalance(d)[a].balance = Balance(d, a)
<1> DEFINE Signed(t) == CASE t.kind = "earn" -> t.points
                          [] t.kind \in {"spend", "redeem"} -> -t.points
                          [] OTHER -> 0
           rows == TransactionsOf(d, a)
           column == [i \in 1 .. Len(rows) |-> Signed(rows[i])]
<1>1. rows \in Seq(Transaction) /\ Total(WorthColumn(rows)) = Balance(d, a)
  BY HistoryAddsUp DEF HistoryOf
<1>2. ListAccountsWithBalance(d)[a].balance = Total(column)
  BY DEF ListAccountsWithBalance
<1>3. ASSUME NEW t \in Transaction PROVE Signed(t) = Worth(t)
  BY DEF Transaction, Kinds, Worth
<1> HIDE DEF rows, Signed
<1>4. \A i \in 1 .. Len(rows) : rows[i] \in Transaction
  BY <1>1
<1>5. column = WorthColumn(rows)
  BY <1>3, <1>4 DEF WorthColumn
<1>6. QED
  BY <1>1, <1>2, <1>5

\* A listing shows transactions of its account, and nothing else.
LEMMA ListingIsOwn ==
  ASSUME NEW d \in Seq(Row), NEW a,
         NEW k \in 1 .. Len(ListTransactionsByAccount(d, a))
  PROVE  \E j \in 1 .. Len(d) :
            /\ IsTxn(d[j]) /\ d[j].account = a
            /\ d[j].ref = ListTransactionsByAccount(d, a)[k].ref
<1> DEFINE rows == TransactionsOf(d, a)
           list == ListTransactionsByAccount(d, a)
           n == Len(rows)
           i == n - k + 1
<1>1. HistoryOf(rows, d, a)
  BY HistoryAddsUp
<1>2. /\ list = [m \in 1 .. n |-> EntryOf(rows[n - m + 1])]
      /\ n \in Nat /\ Len(list) = n
  BY ListingOfHistory
<1>3. k \in 1 .. n
  BY <1>2
<1> HIDE DEF rows, list, n
<1>4. i \in 1 .. n
  BY <1>2, <1>3
<1>5. list[k].ref = rows[i].ref
  BY <1>2, <1>3 DEF EntryOf
<1>6. PICK j \in 1 .. Len(d) : rows[i] = d[j] /\ OwnTxn(d[j], a)
  BY <1>1, <1>4 DEF HistoryOf, n
<1>7. QED
  BY <1>5, <1>6 DEF OwnTxn, list

-----------------------------------------------------------------------------
(***************************************************************************)
(* What is stored under a key stays there: GetTransactionByRef and         *)
(* GetAccount choose a row, and with unique keys there is only one.        *)
(***************************************************************************)
UniqueRefs(d) ==
  \A i, j \in 1 .. Len(d) :
     IsTxn(d[i]) /\ IsTxn(d[j]) /\ d[i].ref = d[j].ref => i = j

UniqueAccounts(d) ==
  \A i, j \in 1 .. Len(d) :
     IsAccount(d[i]) /\ IsAccount(d[j]) /\ d[i].account = d[j].account => i = j

LEMMA RowOfRef ==
  ASSUME NEW d, UniqueRefs(d), NEW i \in 1 .. Len(d), IsTxn(d[i])
  PROVE  RefExists(d, d[i].ref) /\ GetTransactionByRef(d, d[i].ref) = d[i]
BY DEF UniqueRefs, RefExists, GetTransactionByRef

LEMMA RowOfAccount ==
  ASSUME NEW d, UniqueAccounts(d), NEW i \in 1 .. Len(d), IsAccount(d[i])
  PROVE  AccountExists(d, d[i].account) /\ GetAccount(d, d[i].account) = d[i]
BY DEF UniqueAccounts, AccountExists, GetAccount

LEMMA RefStays ==
  ASSUME NEW d \in Seq(Row), NEW r \in Row, UniqueRefs(Append(d, r)),
         NEW ref, RefExists(d, ref)
  PROVE  /\ RefExists(Append(d, r), ref)
         /\ GetTransactionByRef(Append(d, r), ref) = GetTransactionByRef(d, ref)
<1> DEFINE e == Append(d, r)
<1>1. /\ Len(d) \in Nat /\ Len(e) = Len(d) + 1
      /\ \A i \in 1 .. Len(d) : i \in 1 .. Len(e) /\ e[i] = d[i]
  OBVIOUS
<1>2. UniqueRefs(e)
  OBVIOUS
<1> HIDE DEF e
<1>3. UniqueRefs(d)
  BY <1>1, <1>2 DEF UniqueRefs
<1>4. PICK i \in 1 .. Len(d) : IsTxn(d[i]) /\ d[i].ref = ref
  BY DEF RefExists
<1>5. GetTransactionByRef(d, ref) = d[i]
  BY <1>3, <1>4, RowOfRef
<1>6. RefExists(e, ref) /\ GetTransactionByRef(e, ref) = e[i]
  BY <1>1, <1>2, <1>4, RowOfRef
<1>7. QED
  BY <1>1, <1>5, <1>6 DEF e

LEMMA AccountStays ==
  ASSUME NEW d \in Seq(Row), NEW r \in Row, UniqueAccounts(Append(d, r)),
         NEW a, AccountExists(d, a)
  PROVE  /\ AccountExists(Append(d, r), a)
         /\ GetAccount(Append(d, r), a) = GetAccount(d, a)
<1> DEFINE e == Append(d, r)
<1>1. /\ Len(d) \in Nat /\ Len(e) = Len(d) + 1
      /\ \A i \in 1 .. Len(d) : i \in 1 .. Len(e) /\ e[i] = d[i]
  OBVIOUS
<1>2. UniqueAccounts(e)
  OBVIOUS
<1> HIDE DEF e
<1>3. UniqueAccounts(d)
  BY <1>1, <1>2 DEF UniqueAccounts
<1>4. PICK i \in 1 .. Len(d) : IsAccount(d[i]) /\ d[i].account = a
  BY DEF AccountExists
<1>5. GetAccount(d, a) = d[i]
  BY <1>3, <1>4, RowOfAccount
<1>6. AccountExists(e, a) /\ GetAccount(e, a) = e[i]
  BY <1>1, <1>2, <1>4, RowOfAccount
<1>7. QED
  BY <1>1, <1>5, <1>6 DEF e

\* A new row is found under its key.
LEMMA NewRef ==
  ASSUME NEW d \in Seq(Row), NEW r \in Row, IsTxn(r)
  PROVE  /\ RefExists(Append(d, r), r.ref)
         /\ UniqueRefs(Append(d, r)) => GetTransactionByRef(Append(d, r), r.ref) = r
<1> DEFINE e == Append(d, r)
<1>1. Len(d) + 1 \in 1 .. Len(e) /\ e[Len(d) + 1] = r
  OBVIOUS
<1> HIDE DEF e
<1>2. RefExists(e, r.ref)
  BY <1>1 DEF RefExists
<1>3. UniqueRefs(e) => GetTransactionByRef(e, r.ref) = r
  BY <1>1, RowOfRef
<1>4. QED
  BY <1>2, <1>3 DEF e

LEMMA NewId ==
  ASSUME NEW d \in Seq(Row), NEW r \in Row, IsAccount(r)
  PROVE  /\ AccountExists(Append(d, r), r.account)
         /\ UniqueAccounts(Append(d, r)) => GetAccount(Append(d, r), r.account) = r
<1> DEFINE e == Append(d, r)
<1>1. Len(d) + 1 \in 1 .. Len(e) /\ e[Len(d) + 1] = r
  OBVIOUS
<1> HIDE DEF e
<1>2. AccountExists(e, r.account)
  BY <1>1 DEF AccountExists
<1>3. UniqueAccounts(e) => GetAccount(e, r.account) = r
  BY <1>1, RowOfAccount
<1>4. QED
  BY <1>2, <1>3 DEF e

\* A sum that has overflowed does not come back.
LEMMA OverflowStays ==
  ASSUME NEW d \in Seq(Row), NEW n \in 0 .. Len(d), NEW a,
         Overflows(SubSeq(d, 1, n), a)
  PROVE  Overflows(d, a)
<1>1. Len(SubSeq(d, 1, n)) = n /\ n \in Nat /\ Len(d) \in Nat /\ n <= Len(d)
  OBVIOUS
<1>2. PICK i \in 0 .. n : RunningSum(SubSeq(d, 1, n), a)[i] \notin Int64
  BY <1>1 DEF Overflows
<1>3. RunningSum(d, a)[i] \notin Int64
  BY <1>2, SumSubSeq
<1>4. i \in 0 .. Len(d)
  BY <1>1, <1>2
<1>5. QED
  BY <1>3, <1>4 DEF Overflows

=============================================================================
