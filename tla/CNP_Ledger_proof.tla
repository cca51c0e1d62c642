-------------------------- MODULE CNP_Ledger_proof --------------------------
(***************************************************************************)
(* Lemmas about the sum a log comes to.  The sum is a fold, which takes    *)
(* the records in an order nobody knows; what is proved here is that the   *)
(* order does not matter and that a new record adds its amount.            *)
(*                                                                         *)
(* Induction is by a smallest counterexample: the finite subsets of a set  *)
(* are well-founded under inclusion.                                       *)
(***************************************************************************)
EXTENDS CNP_Ledger, FiniteSetTheorems, TLAPS

\* A non-empty collection of subsets of a finite set has a smallest one.
LEMMA SmallestSubset ==
  ASSUME NEW S, IsFiniteSet(S), NEW Bad, Bad \subseteq SUBSET S, Bad # {}
  PROVE  \E s \in Bad : \A u \in Bad : u \subseteq s => u = s
  <1>1. IsWellFoundedOn(StrictSubsetOrdering(S), FiniteSubsetsOf(S))
    BY FS_StrictSubsetOrderingWellFounded
  <1>2. FiniteSubsetsOf(S) = SUBSET S
    BY FS_FiniteSubsetsOfFinite
  <1>3. PICK s \in Bad : \A u \in Bad : ~ (<<u, s>> \in StrictSubsetOrdering(S))
    BY <1>1, <1>2, WFMin
  <1>4. ASSUME NEW u \in Bad, u \subseteq s
        PROVE  u = s
    <2>1. u \in SUBSET S /\ s \in SUBSET S
      OBVIOUS
    <2>2. <<u, s>> \notin StrictSubsetOrdering(S)
      BY <1>3
    <2> QED
      BY <1>4, <2>1, <2>2 DEF StrictSubsetOrdering
  <1> QED
    BY <1>3, <1>4

---------------------------------------------------------------------------
(* The fold                                                                *)

\* h is the function by which the fold over the records of ids is computed.
Pick(s) == CHOOSE x \in s : TRUE

IsFold(h, records, ids) ==
  h = [s \in SUBSET ids |->
         IF s = {} THEN 0 ELSE Signed(records[Pick(s)]) + h[s \ {Pick(s)}]]

\* What that says of one set.
LEMMA FoldAt ==
  ASSUME NEW h, NEW records, NEW ids, IsFold(h, records, ids), NEW s \in SUBSET ids
  PROVE  /\ s = {} => h[s] = 0
         /\ s # {} => /\ Pick(s) \in s /\ s \ {Pick(s)} \in SUBSET ids
                      /\ h[s] = Signed(records[Pick(s)]) + h[s \ {Pick(s)}]
  <1>1. h[s] = IF s = {} THEN 0 ELSE Signed(records[Pick(s)]) + h[s \ {Pick(s)}]
    BY DEF IsFold
  <1>2. s # {} => Pick(s) \in s
    BY DEF Pick
  <1> QED
    BY <1>1, <1>2

\* Two folds agree on the sets whose records they agree on.
LEMMA FoldUnique ==
  ASSUME NEW g, NEW h, NEW rg, NEW rh, NEW A, NEW B, NEW ids,
         IsFold(g, rg, A), IsFold(h, rh, B),
         IsFiniteSet(ids), ids \subseteq A, ids \subseteq B,
         \A i \in ids : rg[i] = rh[i]
  PROVE  \A s \in SUBSET ids : g[s] = h[s]
  <1> DEFINE Bad == {s \in SUBSET ids : g[s] # h[s]}
  <1> SUFFICES ASSUME Bad # {}
               PROVE  FALSE
    OBVIOUS
  <1>0. Bad \subseteq SUBSET ids
    OBVIOUS
  <1>1. PICK s \in Bad : \A u \in Bad : u \subseteq s => u = s
    <2> HIDE DEF Bad
    <2> QED
      BY <1>0, SmallestSubset
  <1>2. s \in SUBSET A /\ s \in SUBSET B
    OBVIOUS
  <1>3. s # {}
    BY <1>2, FoldAt
  <1>4. Pick(s) \in s /\ s \ {Pick(s)} \in SUBSET ids
    BY <1>2, <1>3, FoldAt
  <1>5. g[s \ {Pick(s)}] = h[s \ {Pick(s)}]
    BY <1>1, <1>4
  <1>6. /\ g[s] = Signed(rg[Pick(s)]) + g[s \ {Pick(s)}]
        /\ h[s] = Signed(rh[Pick(s)]) + h[s \ {Pick(s)}]
    BY <1>2, <1>3, FoldAt
  <1> QED
    BY <1>4, <1>5, <1>6

\* There is such a function.
LEMMA FoldExists ==
  ASSUME NEW records, NEW ids, IsFiniteSet(ids)
  PROVE  \E h : IsFold(h, records, ids)
  <1> DEFINE Bad == {s \in SUBSET ids : ~ \E h : IsFold(h, records, s)}
  <1> SUFFICES ASSUME Bad # {}
               PROVE  FALSE
    OBVIOUS
  <1>0. Bad \subseteq SUBSET ids
    OBVIOUS
  <1>1. PICK m \in Bad : \A u \in Bad : u \subseteq m => u = m
    <2> HIDE DEF Bad
    <2> QED
      BY <1>0, SmallestSubset
  <1> DEFINE G(u) == CHOOSE h : IsFold(h, records, u)
             H == [s \in SUBSET m |->
                     IF s = {} THEN 0
                     ELSE Signed(records[Pick(s)]) + G(s \ {Pick(s)})[s \ {Pick(s)}]]
  <1>2. ASSUME NEW u \in SUBSET m, u # m
        PROVE  IsFold(G(u), records, u)
    <2>1. u \in SUBSET ids /\ u \notin Bad
      BY <1>1, <1>2
    <2>2. \E h : IsFold(h, records, u)
      BY <2>1
    <2> QED
      BY <2>2
  <1> HIDE DEF G
  <1>3. ASSUME NEW u \in SUBSET m, u # m
        PROVE  H[u] = G(u)[u]
    <2>1. CASE u = {}
      BY <1>2, <1>3, <2>1, FoldAt
    <2>2. CASE u # {}
      <3> DEFINE v == u \ {Pick(u)}
      <3>1. Pick(u) \in u
        BY <2>2 DEF Pick
      <3>2. v \in SUBSET m /\ v # m /\ IsFiniteSet(v) /\ v \subseteq u
        <4>1. v \in SUBSET ids
          OBVIOUS
        <4> QED
          BY <3>1, <4>1, FS_Subset
      <3>3. IsFold(G(u), records, u) /\ IsFold(G(v), records, v)
        BY <1>2, <1>3, <3>2
      <3>4. G(u)[v] = G(v)[v]
        BY <3>2, <3>3, FoldUnique
      <3>5. G(u)[u] = Signed(records[Pick(u)]) + G(u)[v]
        BY <2>2, <3>3, FoldAt
      <3>6. H[u] = Signed(records[Pick(u)]) + G(v)[v]
        BY <2>2
      <3> QED
        BY <3>4, <3>5, <3>6
    <2> QED
      BY <2>1, <2>2
  <1>4. ASSUME NEW s \in SUBSET m, s # {}
        PROVE  H[s] = Signed(records[Pick(s)]) + H[s \ {Pick(s)}]
    <2>1. Pick(s) \in s
      BY <1>4 DEF Pick
    <2>2. s \ {Pick(s)} \in SUBSET m /\ s \ {Pick(s)} # m
      BY <2>1
    <2>3. H[s \ {Pick(s)}] = G(s \ {Pick(s)})[s \ {Pick(s)}]
      BY <1>3, <2>2
    <2> QED
      BY <1>4, <2>3
  <1>5. H = [s \in SUBSET m |-> H[s]]
    OBVIOUS
  <1>6. H[{}] = 0
    OBVIOUS
  <1> HIDE DEF H
  <1>7. IsFold(H, records, m)
    <2>1. [s \in SUBSET m |-> H[s]] =
            [s \in SUBSET m |->
               IF s = {} THEN 0 ELSE Signed(records[Pick(s)]) + H[s \ {Pick(s)}]]
      BY <1>4, <1>6
    <2> QED
      BY <1>5, <2>1 DEF IsFold
  <1> QED
    BY <1>1, <1>7

---------------------------------------------------------------------------
(* The sum                                                                 *)

\* The amounts of these records are integers.
AmountsOK(records, ids) == \A i \in ids : Signed(records[i]) \in Int

\* The sum is what the fold comes to.
LEMMA SumIsFold ==
  ASSUME NEW records, NEW ids, IsFiniteSet(ids)
  PROVE  \E h : IsFold(h, records, ids) /\ SumOf(records, ids) = h[ids]
  <1> DEFINE h == CHOOSE h : IsFold(h, records, ids)
  <1>1. IsFold(h, records, ids)
    BY FoldExists
  <1>2. SumOf(records, ids) = h[ids]
    BY DEF SumOf, MapThenSumSet, MapThenFoldSet, IsFold, Pick
  <1> HIDE DEF h
  <1> QED
    BY <1>1, <1>2

\* Whichever fold is taken.
LEMMA SumIsAnyFold ==
  ASSUME NEW records, NEW ids, NEW A, NEW h, IsFold(h, records, A),
         IsFiniteSet(ids), ids \subseteq A
  PROVE  SumOf(records, ids) = h[ids]
  <1>1. PICK g : IsFold(g, records, ids) /\ SumOf(records, ids) = g[ids]
    BY SumIsFold
  <1>2. ids \in SUBSET ids /\ \A i \in ids : records[i] = records[i]
    OBVIOUS
  <1> QED
    BY <1>1, <1>2, FoldUnique

\* Sums depend on the records summed and no others.
LEMMA SumSame ==
  ASSUME NEW r, NEW q, NEW ids, IsFiniteSet(ids), \A i \in ids : r[i] = q[i]
  PROVE  SumOf(r, ids) = SumOf(q, ids)
  <1>1. PICK g : IsFold(g, r, ids) /\ SumOf(r, ids) = g[ids]
    BY SumIsFold
  <1>2. PICK h : IsFold(h, q, ids) /\ SumOf(q, ids) = h[ids]
    BY SumIsFold
  <1> QED
    BY <1>1, <1>2, FoldUnique

\* The fold of integers is an integer.
LEMMA FoldType ==
  ASSUME NEW records, NEW ids, NEW h, IsFold(h, records, ids),
         IsFiniteSet(ids), AmountsOK(records, ids)
  PROVE  \A s \in SUBSET ids : h[s] \in Int
  <1> DEFINE Bad == {s \in SUBSET ids : h[s] \notin Int}
  <1> SUFFICES ASSUME Bad # {}
               PROVE  FALSE
    OBVIOUS
  <1>0. Bad \subseteq SUBSET ids
    OBVIOUS
  <1>1. PICK s \in Bad : \A u \in Bad : u \subseteq s => u = s
    <2> HIDE DEF Bad
    <2> QED
      BY <1>0, SmallestSubset
  <1>2. s # {}
    <2>1. s \in SUBSET ids /\ h[s] \notin Int
      OBVIOUS
    <2>2. s = {} => h[s] = 0
      BY <2>1, FoldAt
    <2> QED
      BY <2>1, <2>2
  <1>3. /\ Pick(s) \in s /\ s \ {Pick(s)} \in SUBSET ids
        /\ h[s] = Signed(records[Pick(s)]) + h[s \ {Pick(s)}]
    BY <1>2, FoldAt
  <1>4. h[s \ {Pick(s)}] \in Int /\ Signed(records[Pick(s)]) \in Int
    BY <1>1, <1>3 DEF AmountsOK
  <1> QED
    BY <1>3, <1>4

\* Any record of the set may be the one that is added last.
LEMMA FoldAnyOrder ==
  ASSUME NEW records, NEW ids, NEW h, IsFold(h, records, ids),
         IsFiniteSet(ids), AmountsOK(records, ids)
  PROVE  \A s \in SUBSET ids : \A y \in s : h[s] = Signed(records[y]) + h[s \ {y}]
  <1> DEFINE Bad == {s \in SUBSET ids : \E y \in s : h[s] # Signed(records[y]) + h[s \ {y}]}
  <1> SUFFICES ASSUME Bad # {}
               PROVE  FALSE
    OBVIOUS
  <1>0. Bad \subseteq SUBSET ids
    OBVIOUS
  <1>1. PICK s \in Bad : \A u \in Bad : u \subseteq s => u = s
    <2> HIDE DEF Bad
    <2> QED
      BY <1>0, SmallestSubset
  <1>2. PICK y \in s : h[s] # Signed(records[y]) + h[s \ {y}]
    BY <1>1
  <1> DEFINE x == Pick(s)
             v == s \ {x, y}
  <1>3. x \in s /\ h[s] = Signed(records[x]) + h[s \ {x}]
    BY <1>2, FoldAt
  <1>4. x # y
    BY <1>2, <1>3
  <1>5. ASSUME NEW u \in SUBSET s, u # s, NEW z \in u
        PROVE  h[u] = Signed(records[z]) + h[u \ {z}]
    BY <1>1, <1>5
  <1>6. h[s \ {x}] = Signed(records[y]) + h[v]
    <2>1. y \in s \ {x} /\ s \ {x} \in SUBSET s /\ s \ {x} # s /\ (s \ {x}) \ {y} = v
      BY <1>3, <1>4
    <2>2. h[s \ {x}] = Signed(records[y]) + h[(s \ {x}) \ {y}]
      BY <1>5, <2>1
    <2> QED
      BY <2>1, <2>2
  <1>7. h[s \ {y}] = Signed(records[x]) + h[v]
    <2>1. x \in s \ {y} /\ s \ {y} \in SUBSET s /\ s \ {y} # s /\ (s \ {y}) \ {x} = v
      BY <1>3, <1>4
    <2>2. h[s \ {y}] = Signed(records[x]) + h[(s \ {y}) \ {x}]
      BY <1>5, <2>1
    <2> QED
      BY <2>1, <2>2
  <1>8. h[v] \in Int /\ Signed(records[x]) \in Int /\ Signed(records[y]) \in Int
    BY <1>3, FoldType DEF AmountsOK
  <1> HIDE DEF x, v
  <1> QED
    BY <1>2, <1>3, <1>6, <1>7, <1>8

\* A sum of integers is an integer.
LEMMA SumType ==
  ASSUME NEW records, NEW ids, IsFiniteSet(ids), AmountsOK(records, ids)
  PROVE  SumOf(records, ids) \in Int
  <1>1. PICK h : IsFold(h, records, ids) /\ SumOf(records, ids) = h[ids]
    BY SumIsFold
  <1> QED
    BY <1>1, FoldType

\* No records come to nothing.
LEMMA SumEmpty ==
  ASSUME NEW records
  PROVE  SumOf(records, {}) = 0
  <1>1. IsFiniteSet({})
    BY FS_EmptySet
  <1>2. PICK h : IsFold(h, records, {}) /\ SumOf(records, {}) = h[{}]
    BY <1>1, SumIsFold
  <1> QED
    BY <1>2, FoldAt

\* One record more adds its amount.
LEMMA SumAdd ==
  ASSUME NEW records, NEW ids, NEW x, x \notin ids,
         IsFiniteSet(ids), AmountsOK(records, ids \cup {x})
  PROVE  SumOf(records, ids \cup {x}) = Signed(records[x]) + SumOf(records, ids)
  <1>1. IsFiniteSet(ids \cup {x})
    BY FS_AddElement
  <1>2. PICK h : IsFold(h, records, ids \cup {x})
                   /\ SumOf(records, ids \cup {x}) = h[ids \cup {x}]
    BY <1>1, SumIsFold
  <1>3. h[ids \cup {x}] = Signed(records[x]) + h[(ids \cup {x}) \ {x}]
    BY <1>1, <1>2, FoldAnyOrder
  <1>4. (ids \cup {x}) \ {x} = ids
    OBVIOUS
  <1>5. SumOf(records, ids) = h[ids]
    BY <1>2, SumIsAnyFold
  <1> QED
    BY <1>2, <1>3, <1>4, <1>5

---------------------------------------------------------------------------
(* Arithmetic in DWORD width                                               *)

\* A quotient and a remainder in range are the only ones.
LEMMA ModUnique ==
  ASSUME NEW n \in Int, NEW D \in Nat, D > 0, NEW q \in Int, NEW r \in 0 .. (D - 1),
         n = D * q + r
  PROVE  n % D = r
  <1> DEFINE m == n % D
             e == n \div D
  <1>1. m \in 0 .. (D - 1) /\ e \in Int /\ n = D * e + m
    OBVIOUS
  <1> HIDE DEF m, e
  <1>2. D * (e - q) = D * e - D * q /\ D * e \in Int /\ D * q \in Int
    BY <1>1
  <1>3. D * (e - q) < D /\ D * (e - q) > 0 - D
    BY <1>1, <1>2
  <1>4. \A k \in Int : D * k < D /\ D * k > 0 - D => k = 0
    OBVIOUS
  <1>5. e - q = 0
    BY <1>1, <1>3, <1>4
  <1>6. m = r
    BY <1>1, <1>2, <1>5
  <1> QED
    BY <1>6 DEF m

\* A sum may be cut to its width before it is completed, and a value that has
\* the width keeps it.
LEMMA ModSum ==
  ASSUME NEW a \in Int, NEW b \in Int
  PROVE  /\ ((a % DwordMod) + b) % DwordMod = (a + b) % DwordMod
         /\ a % DwordMod \in DWORD
         /\ a \in DWORD => a % DwordMod = a
  <1> DEFINE D == DwordMod
  <1>1. D \in Nat /\ D > 0 /\ DWORD = 0 .. (D - 1)
    BY WidthAssumption DEF DWORD
  <1> HIDE DEF D
  <1>2. /\ a % D \in 0 .. (D - 1) /\ a \div D \in Int
        /\ a = D * (a \div D) + (a % D)
    BY <1>1
  <1>3. /\ (a + b) % D \in 0 .. (D - 1) /\ (a + b) \div D \in Int
        /\ a + b = D * ((a + b) \div D) + ((a + b) % D)
    BY <1>1
  <1>4. (a % D) + b = D * (((a + b) \div D) - (a \div D)) + ((a + b) % D)
    <2>1. ASSUME NEW x \in Int, NEW y \in Int
          PROVE  D * (x - y) = D * x - D * y /\ D * x \in Int
      BY <1>1
    <2> QED
      BY <1>1, <1>2, <1>3, <2>1
  <1>5. ((a % D) + b) % D = (a + b) % D
    <2> DEFINE n == (a % D) + b
               q == ((a + b) \div D) - (a \div D)
               r == (a + b) % D
    <2>1. n \in Int /\ q \in Int /\ r \in 0 .. (D - 1) /\ n = D * q + r
      BY <1>1, <1>2, <1>3, <1>4
    <2> HIDE DEF n, q, r
    <2>2. n % D = r
      BY <1>1, <2>1, ModUnique
    <2> QED
      BY <2>2 DEF n, r
  <1>6. a \in 0 .. (D - 1) => a % D = a
    <2>1. a = D * 0 + a
      BY <1>1
    <2> QED
      BY <1>1, <2>1, ModUnique
  <1> QED
    BY <1>1, <1>2, <1>5, <1>6 DEF D

\* += and -= undo each other, and stay within the width.
LEMMA BalanceUndo ==
  ASSUME NEW balance \in DWORD, NEW amount \in DWORD
  PROVE  /\ incr_Balance(balance, amount) \in DWORD
         /\ decr_Balance(balance, amount) \in DWORD
         /\ decr_Balance(incr_Balance(balance, amount), amount) = balance
         /\ incr_Balance(decr_Balance(balance, amount), amount) = balance
         /\ amount <= balance => decr_Balance(balance, amount) = balance - amount
  <1>1. balance \in Int /\ amount \in Int /\ DWORD \subseteq Int
    BY DEF DWORD
  <1>2. balance + amount \in Int /\ balance - amount \in Int /\ 0 - amount \in Int
    BY <1>1
  <1>3. (((balance + amount) % DwordMod) - amount) % DwordMod = balance
    <2>1. (((balance + amount) % DwordMod) + (0 - amount)) % DwordMod
             = ((balance + amount) + (0 - amount)) % DwordMod
      BY <1>2, ModSum
    <2>2. (balance + amount) + (0 - amount) = balance /\ balance % DwordMod = balance
      BY <1>1, ModSum
    <2>3. (balance + amount) % DwordMod \in DWORD
      BY <1>2, ModSum
    <2>4. \A x \in DWORD : x + (0 - amount) = x - amount
      BY <1>1
    <2> QED
      BY <2>1, <2>2, <2>3, <2>4
  <1>4. (((balance - amount) % DwordMod) + amount) % DwordMod = balance
    <2>1. (((balance - amount) % DwordMod) + amount) % DwordMod
             = ((balance - amount) + amount) % DwordMod
      BY <1>1, <1>2, ModSum
    <2>2. (balance - amount) + amount = balance /\ balance % DwordMod = balance
      BY <1>1, ModSum
    <2> QED
      BY <2>1, <2>2
  <1>5. amount <= balance => (balance - amount) % DwordMod = balance - amount
    <2>1. amount <= balance => balance - amount \in DWORD
      BY WidthAssumption DEF DWORD
    <2> QED
      BY <1>2, <2>1, ModSum
  <1> QED
    BY <1>2, <1>3, <1>4, <1>5, ModSum DEF incr_Balance, decr_Balance

---------------------------------------------------------------------------
(* Balances and the log                                                    *)

\* The amounts of a log are integers.
LEMMA LogAmounts ==
  ASSUME NEW tr \in Transaction
  PROVE  Signed(tr) \in Int
  BY DEF Signed, Transaction, DWORD

\* The ledger of an account is an integer, 0 when the account has no record.
LEMMA LedgerType ==
  ASSUME NEW records, LogOK(records), NEW c
  PROVE  /\ IsFiniteSet(RecordsOf(records, c))
         /\ AmountsOK(records, RecordsOf(records, c))
         /\ LedgerOf(records, c) \in Int
         /\ (\A i \in DOMAIN records : records[i].customer # c) => LedgerOf(records, c) = 0
  <1>1. RecordsOf(records, c) \subseteq DOMAIN records
    BY DEF RecordsOf
  <1>2. IsFiniteSet(RecordsOf(records, c))
    BY <1>1, FS_Subset DEF LogOK
  <1>3. AmountsOK(records, RecordsOf(records, c))
    BY <1>1, LogAmounts DEF LogOK, AmountsOK
  <1>4. (\A i \in DOMAIN records : records[i].customer # c) => RecordsOf(records, c) = {}
    BY DEF RecordsOf
  <1> QED
    BY <1>2, <1>3, <1>4, SumType, SumEmpty DEF LedgerOf

\* A new record adds its amount to the ledger of its account and leaves the
\* others alone.
LEMMA LedgerInsert ==
  ASSUME NEW records, LogOK(records), NEW id, id \notin DOMAIN records,
         NEW tr \in Transaction, NEW c
  PROVE  LedgerOf(Insert(records, id, tr), c) =
           IF tr.customer = c THEN Signed(tr) + LedgerOf(records, c)
           ELSE LedgerOf(records, c)
  <1> DEFINE new == Insert(records, id, tr)
             ids == RecordsOf(records, c)
  <1>1. /\ DOMAIN new = DOMAIN records \cup {id} /\ new[id] = tr
        /\ \A i \in DOMAIN records : new[i] = records[i]
    BY DEF Insert
  <1>2. /\ IsFiniteSet(ids) /\ AmountsOK(records, ids) /\ id \notin ids
        /\ ids \subseteq DOMAIN records
    BY LedgerType DEF RecordsOf
  <1> HIDE DEF new
  <1>3. SumOf(new, ids) = SumOf(records, ids)
    BY <1>1, <1>2, SumSame
  <1>4. RecordsOf(new, c) = IF tr.customer = c THEN ids \cup {id} ELSE ids
    BY <1>1 DEF RecordsOf
  <1>5. AmountsOK(new, ids \cup {id})
    BY <1>1, <1>2, LogAmounts DEF AmountsOK
  <1> HIDE DEF ids
  <1>6. SumOf(new, ids \cup {id}) = Signed(tr) + SumOf(new, ids)
    BY <1>1, <1>2, <1>5, SumAdd
  <1> QED
    BY <1>3, <1>4, <1>6 DEF LedgerOf, ids, new

\* An account that is opened has no record yet.
LEMMA BalancedOpen ==
  ASSUME NEW balances, NEW records, LogOK(records), Balanced(balances, records),
         NEW c, c \notin DOMAIN balances,
         \A i \in DOMAIN records : records[i].customer \in DOMAIN balances
  PROVE  Balanced(Insert(balances, c, 0), records)
  <1>1. LedgerOf(records, c) = 0
    BY LedgerType
  <1>2. 0 % DwordMod = 0
    BY ModSum, WidthAssumption DEF DWORD
  <1> QED
    BY <1>1, <1>2 DEF Balanced, Insert

\* A deposit or a withdrawal moves the balance by what it records.
LEMMA BalancedCharge ==
  ASSUME NEW balances, NEW records, BalancesOK(balances), LogOK(records),
         Balanced(balances, records),
         NEW c \in DOMAIN balances, c \in QWORD, NEW id, id \notin DOMAIN records,
         NEW type \in TransactionTypes, NEW amount \in DWORD, NEW value,
         value = IF type = "DEPOSIT" THEN incr_Balance(balances[c], amount)
                 ELSE decr_Balance(balances[c], amount)
  PROVE  Balanced([balances EXCEPT ![c] = value],
                  Insert(records, id, TRANSACTION_INFO(amount, type, c)))
  <1> DEFINE tr == TRANSACTION_INFO(amount, type, c)
  <1>1. tr \in Transaction /\ tr.customer = c
        /\ Signed(tr) = (IF type = "DEPOSIT" THEN amount ELSE 0 - amount)
    BY DEF TRANSACTION_INFO, Transaction, Signed
  <1> HIDE DEF tr
  <1>2. \A d : LedgerOf(Insert(records, id, tr), d) =
                 IF c = d THEN Signed(tr) + LedgerOf(records, d) ELSE LedgerOf(records, d)
    BY <1>1, LedgerInsert
  <1>3. value = (Signed(tr) + LedgerOf(records, c)) % DwordMod
    <2> DEFINE L == LedgerOf(records, c)
    <2>1. L \in Int /\ Signed(tr) \in Int /\ amount \in Int /\ balances[c] = L % DwordMod
      BY <1>1, LedgerType, LogAmounts DEF Balanced, DWORD
    <2> HIDE DEF L
    <2>2. ((L % DwordMod) + Signed(tr)) % DwordMod = (L + Signed(tr)) % DwordMod
      BY <2>1, ModSum
    <2>3. L + Signed(tr) = Signed(tr) + L /\ L % DwordMod \in DWORD /\ DWORD \subseteq Int
      BY <2>1, ModSum DEF DWORD
    <2>4. value = ((L % DwordMod) + Signed(tr)) % DwordMod
      <3>1. \A x \in DWORD : x - amount = x + (0 - amount)
        BY <2>3
      <3> QED
        BY <1>1, <2>1, <2>3, <3>1 DEF incr_Balance, decr_Balance
    <2> QED
      BY <2>2, <2>3, <2>4 DEF L
  <1>4. ASSUME NEW d \in DOMAIN balances
        PROVE  [balances EXCEPT ![c] = value][d] =
                 LedgerOf(Insert(records, id, tr), d) % DwordMod
    <2>1. CASE d = c
      BY <1>2, <1>3, <2>1
    <2>2. CASE d # c
      BY <1>2, <2>2 DEF Balanced
    <2> QED
      BY <2>1, <2>2
  <1> QED
    BY <1>4 DEF Balanced, tr

\* In a log whose IDs are 1 .. n, size() + 1 is free, and a record inserted there keeps the log
\* what it is.
LEMMA SequentialInsert ==
  ASSUME NEW records, LogOK(records), Sequential(records), NEW tr \in Transaction,
         NEW id, id = Cardinality(DOMAIN records) + 1
  PROVE  /\ id \in Nat \ {0} /\ id \notin DOMAIN records
         /\ DOMAIN Insert(records, id, tr) = DOMAIN records \cup {id}
         /\ Insert(records, id, tr)[id] = tr
         /\ \A i \in DOMAIN records : Insert(records, id, tr)[i] = records[i]
         /\ LogOK(Insert(records, id, tr)) /\ Sequential(Insert(records, id, tr))
  <1> DEFINE n == Cardinality(DOMAIN records)
             new == Insert(records, id, tr)
  <1>1. n \in Nat /\ id = n + 1 /\ DOMAIN records = 1 .. n
    BY FS_CardinalityType DEF LogOK, Sequential
  <1>2. /\ DOMAIN new = DOMAIN records \cup {id} /\ new[id] = tr
        /\ \A i \in DOMAIN records : new[i] = records[i]
        /\ new \in [DOMAIN new -> Transaction]
    BY <1>1 DEF Insert, LogOK
  <1> HIDE DEF n, new
  <1>3. DOMAIN new = 1 .. (n + 1)
    BY <1>1, <1>2
  <1>4. IsFiniteSet(1 .. (n + 1)) /\ Cardinality(1 .. (n + 1)) = n + 1
    BY <1>1, FS_Interval
  <1> QED
    BY <1>1, <1>2, <1>3, <1>4 DEF LogOK, Sequential, new

=============================================================================
