-------------------------- MODULE CNP_Client_proof --------------------------
(***************************************************************************)
(* Proofs about the client program: what it reports it has ordered and the *)
(* server has done, and the pages of a history add up, whatever the other  *)
(* clients do between two of them.                                         *)
(***************************************************************************)
EXTENDS CNP_Client, CNP_Ledger_proof, SequenceTheorems

---------------------------------------------------------------------------
(* A page of the history                                                   *)

\* How many of a set of IDs come before one of them.
Below(ids, i) == {j \in ids : j < i}

\* A larger ID has more of them below it.
LEMMA BelowGrows ==
  ASSUME NEW ids, IsFiniteSet(ids), ids \subseteq Nat, NEW i \in ids, NEW k \in Nat, i < k
  PROVE  /\ Cardinality(Below(ids, i)) \in Nat /\ Cardinality(Below(ids, k)) \in Nat
         /\ Cardinality(Below(ids, i)) < Cardinality(Below(ids, k))
  <1>1. /\ Below(ids, i) \subseteq Below(ids, k) /\ Below(ids, k) \subseteq ids
        /\ i \in Below(ids, k) /\ i \notin Below(ids, i)
    <2>1. i \in Nat
      OBVIOUS
    <2>2. \A j \in ids : j < i => j < k
      <3>1. \A j \in ids : j \in Nat
        OBVIOUS
      <3> QED
        BY <2>1, <3>1
    <2>3. i \in Below(ids, k) /\ i \notin Below(ids, i)
      BY <2>1 DEF Below
    <2> QED
      BY <2>2, <2>3 DEF Below
  <1>2. IsFiniteSet(Below(ids, i)) /\ IsFiniteSet(Below(ids, k))
    BY <1>1, FS_Subset
  <1>3. /\ Cardinality(Below(ids, i)) \in Nat /\ Cardinality(Below(ids, k)) \in Nat
        /\ Cardinality(Below(ids, i)) <= Cardinality(Below(ids, k))
        /\ Cardinality(Below(ids, i)) # Cardinality(Below(ids, k))
    BY <1>1, <1>2, FS_Subset, FS_CardinalityType
  <1> QED
    BY <1>3

\* A set of IDs has a smallest one.
LEMMA Smallest ==
  ASSUME NEW ids, ids \subseteq Nat, ids # {}
  PROVE  \E i \in ids : \A j \in ids : i <= j
  <1>1. PICK i \in ids : \A j \in ids : <<j, i>> \notin OpToRel(<, Nat)
    BY NatLessThanWellFounded, WFMin
  <1>2. ASSUME NEW j \in ids
        PROVE  i <= j
    <2>1. i \in Nat /\ j \in Nat
      OBVIOUS
    <2>2. ~(j < i)
      BY <1>1, <2>1 DEF OpToRel
    <2> QED
      BY <2>1, <2>2
  <1> QED
    BY <1>2

\* A finite set of IDs has a bound.
LEMMA Bounded ==
  ASSUME NEW ids, IsFiniteSet(ids)
  PROVE  ids \subseteq Nat => \E n \in Nat : \A j \in ids : j <= n
  <1> DEFINE Bad == {s \in SUBSET ids : s \subseteq Nat /\ ~ \E n \in Nat : \A j \in s : j <= n}
  <1> SUFFICES ASSUME Bad # {}
               PROVE  FALSE
    OBVIOUS
  <1>0. Bad \subseteq SUBSET ids
    OBVIOUS
  <1>1. PICK s \in Bad : \A u \in Bad : u \subseteq s => u = s
    <2> HIDE DEF Bad
    <2> QED
      BY <1>0, SmallestSubset
  <1>2. s \subseteq ids /\ s \subseteq Nat /\ ~ \E n \in Nat : \A j \in s : j <= n
    OBVIOUS
  <1>3. PICK k \in s : k \in Nat
    <2>1. s # {}
      BY <1>2
    <2> QED
      BY <1>2, <2>1
  <1>4. s \ {k} \notin Bad
    BY <1>1, <1>3
  <1>5. PICK n \in Nat : \A j \in s \ {k} : j <= n
    BY <1>2, <1>4
  <1> DEFINE m == IF k <= n THEN n ELSE k
  <1>6. m \in Nat /\ \A j \in s : j <= m
    BY <1>2, <1>3, <1>5
  <1> QED
    BY <1>2, <1>6

\* A finite one has a largest, which Max yields.
LEMMA Largest ==
  ASSUME NEW ids, IsFiniteSet(ids), ids \subseteq Nat, ids # {}
  PROVE  Max(ids) \in ids /\ \A j \in ids : j <= Max(ids)
  <1> DEFINE Upper == {n \in Nat : \A j \in ids : j <= n}
  <1>1. PICK n \in Nat : \A j \in ids : j <= n
    BY Bounded
  <1>2. PICK m \in Upper : \A k \in Upper : m <= k
    <2>1. Upper \subseteq Nat /\ Upper # {}
      BY <1>1
    <2> HIDE DEF Upper
    <2> QED
      BY <2>1, Smallest
  <1>3. m \in ids
    <2> SUFFICES ASSUME m \notin ids
                 PROVE  FALSE
      OBVIOUS
    <2>1. \A j \in ids : j \in Nat /\ j < m
      OBVIOUS
    <2>2. PICK j \in ids : j \in Nat
      OBVIOUS
    <2>3. m - 1 \in Nat
      BY <2>1, <2>2
    <2>4. m - 1 \in Upper
      BY <2>1, <2>3
    <2> QED
      BY <1>2, <2>3, <2>4
  <1>4. m \in ids /\ \A j \in ids : m >= j
    BY <1>3
  <1> HIDE DEF Upper
  <1>5. Max(ids) \in ids /\ \A j \in ids : Max(ids) >= j
    BY <1>4 DEF Max
  <1>6. \A i, j \in ids : i >= j => j <= i
    OBVIOUS
  <1> QED
    BY <1>5, <1>6

\* What a history query selects (the walk of ProcessTransactionQueryRequest
\* from lower_bound(start)): at most count records of the customer, from start
\* on; one that is left out comes after a full page.
LEMMA CollectFacts ==
  ASSUME NEW records, IsFiniteSet(DOMAIN records), DOMAIN records \subseteq Nat,
         NEW customer, NEW start \in Nat, NEW count \in Nat
  PROVE  LET ids == Collect(records, customer, start, count)
         IN  /\ \A i \in ids : /\ i \in DOMAIN records /\ i >= start
                               /\ records[i].customer = customer
             /\ IsFiniteSet(ids) /\ Cardinality(ids) \in Nat /\ Cardinality(ids) <= count
             /\ \A i \in DOMAIN records :
                  i >= start /\ records[i].customer = customer /\ i \notin ids =>
                    Cardinality(ids) >= count /\ \A j \in ids : j < i
  <1> DEFINE own == {i \in DOMAIN records : i >= start /\ records[i].customer = customer}
             ids == {i \in own : Cardinality(Below(own, i)) < count}
  <1>1. Collect(records, customer, start, count) = ids
    BY DEF Collect, Below
  <1>2. /\ own \subseteq Nat /\ IsFiniteSet(own) /\ ids \subseteq own
        /\ IsFiniteSet(ids) /\ Cardinality(ids) \in Nat
    <2>1. own \subseteq DOMAIN records /\ ids \subseteq DOMAIN records /\ ids \subseteq own
      OBVIOUS
    <2> QED
      BY <2>1, FS_Subset, FS_CardinalityType
  <1>3. \A i \in ids : i \in own /\ Cardinality(Below(own, i)) < count
    OBVIOUS
  <1>4. \A i \in own : i \notin ids => ~(Cardinality(Below(own, i)) < count)
    OBVIOUS
  <1>5. \A i : i \in own <=>
          i \in DOMAIN records /\ i >= start /\ records[i].customer = customer
    OBVIOUS
  <1> HIDE DEF own, ids
  <1>6. \A i \in own : IsFiniteSet(Below(own, i)) /\ Cardinality(Below(own, i)) \in Nat
    <2>1. \A i \in own : Below(own, i) \subseteq own
      BY DEF Below
    <2> QED
      BY <1>2, <2>1, FS_Subset, FS_CardinalityType
  <1>7. Cardinality(ids) <= count
    <2>1. CASE ids = {}
      BY <2>1, FS_EmptySet
    <2>2. CASE ids # {}
      <3> DEFINE m == Max(ids)
      <3>1. m \in ids /\ \A j \in ids : j <= m
        BY <1>2, <2>2, Largest
      <3> HIDE DEF m
      <3>2. ids \ {m} \subseteq Below(own, m)
        BY <1>2, <3>1 DEF Below
      <3>3. Cardinality(ids \ {m}) <= Cardinality(Below(own, m))
        BY <1>3, <1>6, <3>1, <3>2, FS_Subset
      <3>4. Cardinality(ids \ {m}) = Cardinality(ids) - 1
        BY <1>2, <3>1, FS_RemoveElement
      <3> QED
        BY <1>2, <1>3, <1>6, <3>1, <3>3, <3>4
    <2> QED
      BY <2>1, <2>2
  <1>8. ASSUME NEW i \in own, i \notin ids
        PROVE  Cardinality(ids) >= count /\ \A j \in ids : j < i
    <2>1. ASSUME NEW j \in ids, ~(j < i)
          PROVE  FALSE
      <3>1. j \in own /\ j \in Nat /\ i \in Nat /\ i < j
        BY <1>2, <1>8, <2>1
      <3>2. Cardinality(Below(own, i)) < Cardinality(Below(own, j))
        BY <1>2, <3>1, BelowGrows
      <3> QED
        BY <1>3, <1>4, <1>6, <1>8, <3>1, <3>2
    <2>2. PICK k \in own \ ids : \A j \in own \ ids : k <= j
      BY <1>2, <1>8, Smallest
    <2>3. Below(own, k) \subseteq ids
      <3>1. \A j \in own : j \in Nat
        BY <1>2
      <3> QED
        BY <2>2, <3>1 DEF Below
    <2>4. Cardinality(Below(own, k)) <= Cardinality(ids)
      BY <1>2, <2>3, FS_Subset
    <2>5. Cardinality(ids) >= count
      BY <1>2, <1>4, <1>6, <2>2, <2>4
    <2> QED
      BY <2>1, <2>5
  <1> QED
    BY <1>1, <1>2, <1>3, <1>5, <1>7, <1>8

\* The list of a page: its IDs, ascending.
LEMMA InOrderFacts ==
  ASSUME NEW ids, IsFiniteSet(ids), ids \subseteq Nat
  PROVE  /\ InOrder(ids) \in Seq(ids) /\ ToSet(InOrder(ids)) = ids
         /\ Ascending(InOrder(ids))
  <1> DEFINE n == Cardinality(ids)
             s == InOrder(ids)
             R == [i \in ids |-> Cardinality(Below(ids, i)) + 1]
  <1>1. n \in Nat
    BY FS_CardinalityType
  <1>2. \A i \in ids : Cardinality(Below(ids, i)) \in 0 .. (n - 1)
    <2>1. ASSUME NEW i \in ids
          PROVE  Cardinality(Below(ids, i)) \in 0 .. (n - 1)
      <3>1. Below(ids, i) \subseteq ids \ {i}
        BY DEF Below
      <3>2. IsFiniteSet(ids \ {i}) /\ Cardinality(ids \ {i}) = n - 1
        BY FS_RemoveElement
      <3>3. /\ Cardinality(Below(ids, i)) \in Nat
            /\ Cardinality(Below(ids, i)) <= n - 1
        BY <3>1, <3>2, FS_Subset, FS_CardinalityType
      <3> QED
        BY <1>1, <3>3
    <2> QED
      BY <2>1
  <1>3. \A i, k \in ids : i < k => Cardinality(Below(ids, i)) < Cardinality(Below(ids, k))
    BY BelowGrows
  <1>4. \A i, k \in ids : Cardinality(Below(ids, i)) = Cardinality(Below(ids, k)) => i = k
    <2>1. \A i, k \in ids : i # k => i < k \/ k < i
      OBVIOUS
    <2>2. \A i \in ids : Cardinality(Below(ids, i)) \in Int
      BY <1>2
    <2> QED
      BY <1>3, <2>1, <2>2
  <1>5. R \in Injection(ids, 1 .. n)
    <2>1. R \in [ids -> 1 .. n]
      BY <1>1, <1>2
    <2>2. \A i, k \in ids : R[i] = R[k] => i = k
      BY <1>2, <1>4
    <2> QED
      BY <2>1, <2>2 DEF Injection, IsInjective
  <1>6. R \in Surjection(ids, 1 .. n)
    <2>1. IsFiniteSet(1 .. n) /\ Cardinality(1 .. n) = n
      BY <1>1, FS_Interval
    <2> HIDE DEF R
    <2> QED
      BY <1>5, <2>1, FS_Injection
  <1>7. \A k \in 1 .. n : \E i \in ids : Cardinality(Below(ids, i)) = k - 1
    <2>1. ASSUME NEW k \in 1 .. n
          PROVE  \E i \in ids : Cardinality(Below(ids, i)) = k - 1
      <3>1. PICK i \in ids : R[i] = k
        BY <1>6 DEF Surjection
      <3>2. Cardinality(Below(ids, i)) = k - 1
        BY <1>2, <3>1
      <3> QED
        BY <3>2
    <2> QED
      BY <2>1
  <1> HIDE DEF R
  <1>8. s = [k \in 1 .. n |-> CHOOSE i \in ids : Cardinality(Below(ids, i)) = k - 1]
    BY DEF InOrder, Below
  <1> HIDE DEF s
  <1>9. \A k \in 1 .. n : s[k] \in ids /\ Cardinality(Below(ids, s[k])) = k - 1
    BY <1>7, <1>8
  <1>10. DOMAIN s = 1 .. n /\ s \in [1 .. n -> ids]
    BY <1>8, <1>9
  <1>11. s \in Seq(ids)
    BY <1>1, <1>10
  <1>12. ToSet(s) = ids
    <2>1. ASSUME NEW i \in ids
          PROVE  \E k \in 1 .. n : s[k] = i
      <3> DEFINE k == Cardinality(Below(ids, i)) + 1
      <3>1. k \in 1 .. n
        BY <1>1, <1>2
      <3>2. Cardinality(Below(ids, s[k])) = Cardinality(Below(ids, i)) /\ s[k] \in ids
        BY <1>2, <1>9, <3>1
      <3> QED
        BY <1>4, <3>1, <3>2
    <2> QED
      BY <1>9, <1>10, <2>1 DEF ToSet
  <1>13. Ascending(s)
    <2>1. ASSUME NEW i \in 1 .. n, NEW j \in 1 .. n, i < j
          PROVE  s[i] < s[j]
      <3>1. s[i] \in ids /\ s[j] \in ids /\ s[i] \in Nat /\ s[j] \in Nat
        BY <1>9
      <3>2. Cardinality(Below(ids, s[i])) < Cardinality(Below(ids, s[j]))
        BY <1>9, <2>1
      <3>3. ~(s[j] < s[i]) /\ s[i] # s[j]
        BY <1>2, <1>3, <3>1, <3>2
      <3> QED
        BY <3>1, <3>3
    <2> QED
      BY <1>10, <2>1 DEF Ascending
  <1> QED
    BY <1>11, <1>12, <1>13 DEF s

---------------------------------------------------------------------------
(* The lists                                                               *)

\* How often an order is on a list, when one more is put on it.
LEMMA CountAppend ==
  ASSUME NEW s \in Seq(Order), NEW p \in Order, NEW o
  PROVE  /\ Count(s, o) \in Nat
         /\ Append(s, p) \in Seq(Order)
         /\ Count(Append(s, p), o) = Count(s, o) + (IF p = o THEN 1 ELSE 0)
  <1> DEFINE here == {i \in DOMAIN s : s[i] = o}
             new  == Len(s) + 1
             t    == Append(s, p)
  <1>1. Len(s) \in Nat /\ DOMAIN s = 1 .. Len(s)
    OBVIOUS
  <1>2. /\ t \in Seq(Order) /\ DOMAIN t = 1 .. new
        /\ \A i \in 1 .. Len(s) : t[i] = s[i]
        /\ t[new] = p
    OBVIOUS
  <1>3. IsFiniteSet(here) /\ Cardinality(here) \in Nat
    <2>1. IsFiniteSet(DOMAIN s) /\ here \subseteq DOMAIN s
      BY <1>1, FS_Interval
    <2> QED
      BY <2>1, FS_Subset, FS_CardinalityType
  <1> HIDE DEF t
  <1>4. new \notin here /\ DOMAIN t = DOMAIN s \cup {new}
    BY <1>1, <1>2
  <1>5. {i \in DOMAIN t : t[i] = o} = IF p = o THEN here \cup {new} ELSE here
    BY <1>1, <1>2, <1>4
  <1>6. Cardinality(here \cup {new}) = Cardinality(here) + 1
    BY <1>3, <1>4, FS_AddElement
  <1>7. Count(t, o) = Cardinality(here) + (IF p = o THEN 1 ELSE 0)
    <2>1. Count(t, o) = Cardinality({i \in DOMAIN t : t[i] = o})
      BY DEF Count
    <2> HIDE DEF here, new
    <2>2. CASE p = o
      BY <1>5, <1>6, <2>1, <2>2
    <2>3. CASE p # o
      <3>1. Count(t, o) = Cardinality(here)
        BY <1>5, <2>1, <2>3
      <3> QED
        BY <1>3, <2>3, <3>1
    <2> QED
      BY <2>2, <2>3
  <1> QED
    BY <1>2, <1>3, <1>7 DEF Count, t

\* A page put behind what is listed already.
LEMMA PutBehind ==
  ASSUME NEW s \in Seq(Nat), NEW t \in Seq(Nat), Ascending(s), Ascending(t),
         \A i \in ToSet(s), j \in ToSet(t) : i < j
  PROVE  /\ ToSet(s \o t) = ToSet(s) \cup ToSet(t)
         /\ Ascending(s \o t)
  <1> DEFINE u == s \o t
  <1>1. /\ Len(s) \in Nat /\ DOMAIN s = 1 .. Len(s)
        /\ Len(t) \in Nat /\ DOMAIN t = 1 .. Len(t)
        /\ DOMAIN u = 1 .. (Len(s) + Len(t))
    OBVIOUS
  <1>2. /\ \A i \in DOMAIN s : u[i] = s[i]
        /\ \A i \in DOMAIN u : i > Len(s) => u[i] = t[i - Len(s)]
    OBVIOUS
  <1> HIDE DEF u
  <1>3. \A i \in DOMAIN t : i + Len(s) \in DOMAIN u /\ u[i + Len(s)] = t[i]
    <2>1. \A i \in DOMAIN t : /\ i + Len(s) \in DOMAIN u /\ i + Len(s) > Len(s)
                               /\ i + Len(s) - Len(s) = i
      BY <1>1
    <2> QED
      BY <1>2, <2>1
  <1>4. \A i \in DOMAIN u : i \in DOMAIN s \/ (i > Len(s) /\ i - Len(s) \in DOMAIN t)
    BY <1>1
  <1>5. ToSet(u) = ToSet(s) \cup ToSet(t)
    <2>1. \A i \in DOMAIN s : i \in DOMAIN u
      BY <1>1
    <2>2. ASSUME NEW x \in ToSet(u)
          PROVE  x \in ToSet(s) \cup ToSet(t)
      BY <1>2, <1>4, <2>2 DEF ToSet
    <2>3. ASSUME NEW x \in ToSet(s) \cup ToSet(t)
          PROVE  x \in ToSet(u)
      BY <1>2, <1>3, <2>1, <2>3 DEF ToSet
    <2> QED
      BY <2>2, <2>3
  <1>6. Ascending(u)
    <2>1. ASSUME NEW i \in DOMAIN u, NEW j \in DOMAIN u, i < j
          PROVE  u[i] < u[j]
      <3>0. i \in Int /\ j \in Int
        BY <1>1
      <3>1. CASE i \in DOMAIN s /\ j \in DOMAIN s
        BY <1>2, <2>1, <3>1 DEF Ascending
      <3>2. CASE i \in DOMAIN s /\ j > Len(s) /\ j - Len(s) \in DOMAIN t
        BY <1>2, <3>2 DEF ToSet
      <3>3. CASE /\ i > Len(s) /\ i - Len(s) \in DOMAIN t
                 /\ j > Len(s) /\ j - Len(s) \in DOMAIN t
        <4>1. i - Len(s) < j - Len(s)
          BY <1>1, <2>1, <3>0
        <4> QED
          BY <1>2, <3>3, <4>1 DEF Ascending
      <3>4. ~(i > Len(s) /\ j \in DOMAIN s)
        BY <1>1, <2>1, <3>0
      <3> QED
        BY <1>4, <3>1, <3>2, <3>3, <3>4
    <2> QED
      BY <2>1 DEF Ascending
  <1> QED
    BY <1>5, <1>6 DEF u

---------------------------------------------------------------------------
(* The client's steps keep its invariant                                   *)

LEMMA ClientInitInv ==
  ClientInit => ClientInv
  <1> SUFFICES ASSUME ClientInit
               PROVE  ClientInv
    OBVIOUS
  <1>1. TablesWellFormed
    BY ClientAssumption DEF ClientInit, TablesWellFormed
  <1>2. ClientTypeOK
    <2>1. 0 \in DWORD /\ ResponseSize(wTransCnt) <= BufferSize /\ wTransCnt = 5
      BY WidthAssumption DEF DWORD, ResponseSize, BufferSize, wTransCnt
    <2>2. ASSUME NEW resp \in ({inbox} \ {NONE}) \cup {g_szBuffer}
          PROVE  /\ resp.result \in CER_TYPE
                 /\ resp.ids \subseteq DOMAIN log /\ Cardinality(resp.ids) <= wTransCnt
      <3>1. resp = Answer("zeros", "CER_SUCCESS", {})
        BY DEF ClientInit
      <3> QED
        BY <2>1, <3>1, FS_EmptySet DEF Answer, CER_TYPE
    <2> QED
      BY <2>1, <2>2 DEF ClientInit, ClientTypeOK, Steps, Options
  <1>3. ConversationInv
    BY DEF ClientInit, ConversationInv, Answers
  <1>4. OrdersInv
    <2>1. \A o : Count(<<>>, o) = 0
      <3>1. \A o : {i \in DOMAIN <<>> : <<>>[i] = o} = {}
        OBVIOUS
      <3> QED
        BY <3>1, FS_EmptySet DEF Count
    <2>2. <<>> \in Seq(Order)
      OBVIOUS
    <2>3. ~Charging /\ Answers = {}
      BY DEF ClientInit, Charging, Answers
    <2> QED
      BY <2>1, <2>2, <2>3 DEF ClientInit, OrdersInv
  <1> QED
    BY <1>1, <1>2, <1>3, <1>4 DEF ClientInv

\* What depends on the tables and the last answers only.
LEMMA TablesStay ==
  ASSUME ClientInv, UNCHANGED tables
  PROVE  TablesWellFormed'
  BY DEF ClientInv, TablesWellFormed, tables

LEMMA ReadOptionKeeps ==
  ASSUME ClientInv, ReadOption
  PROVE  ClientInv'
  <1> USE DEF ReadOption, consoleVars, listVars, netVars, tellVars
  <1>1. TablesWellFormed'
    BY TablesStay
  <1>2. step = "menu" /\ step' \in {"exited", "menu", "call"} /\ cInputOption' \in Options
    BY DEF ClientInv, ClientTypeOK
  <1>3. step' = "call" => cInputOption' \in MSG_TYPE
    BY <1>2 DEF Options
  <1>4. ClientTypeOK'
    BY <1>2 DEF ClientInv, ClientTypeOK, Steps, tables
  <1>5. Answers = {} /\ Answers' = {} /\ ~Charging /\ ~Charging'
    BY <1>2 DEF ClientInv, ConversationInv, Answers, Charging
  <1>6. ConversationInv'
    BY <1>2, <1>3, <1>5 DEF ClientInv, ConversationInv
  <1>7. OrdersInv'
    BY <1>5 DEF ClientInv, OrdersInv
  <1> QED
    BY <1>1, <1>4, <1>6, <1>7 DEF ClientInv

\* What the Send function builds is an order of its type.
LEMMA OrderBuilt ==
  ASSUME NEW type \in MSG_TYPE, NEW o \in Typed(type) \cup Failed(type)
  PROVE  o \in Order /\ o.type = type
  <1>1. 0 \in DWORD
    BY WidthAssumption DEF DWORD
  <1> QED
    BY <1>1, ClientAssumption DEF Typed, Failed, Order

LEMMA CallKeeps ==
  ASSUME ClientInv, Call
  PROVE  ClientInv'
  <1> USE DEF consoleVars, listVars, netVars, tellVars
  <1>1. TablesWellFormed'
    BY TablesStay DEF Call
  <1>2. /\ step = "call" /\ step' = "send" /\ cInputOption' = cInputOption
        /\ cInputOption \in MSG_TYPE
        /\ dwStartID' = 0 /\ answered' = TRUE
        /\ UNCHANGED <<tables, missed, commands, wClientID, g_szBuffer, link, request, inbox,
                       done, told>>
    BY DEF Call, ClientInv, ConversationInv
  <1>3. order' \in Order /\ order'.type = cInputOption
    <2>1. order' \in Typed(cInputOption) \cup Failed(cInputOption)
      BY DEF Call
    <2> QED
      BY <1>2, <2>1, OrderBuilt
  <1>4. cin' \in {"good", "fail"} /\ (cin' = "good" => cin = "good")
    BY DEF Call, ClientInv, ClientTypeOK
  <1>5. ClientTypeOK'
    <2>1. 0 \in DWORD
      BY WidthAssumption DEF DWORD
    <2>2. session' = session /\ request = NONE
      BY <1>2 DEF Call, ClientInv, ConversationInv
    <2>3. \A resp \in ({inbox'} \ {NONE}) \cup {g_szBuffer'} :
            /\ resp.result \in CER_TYPE
            /\ resp.ids \subseteq DOMAIN log' /\ Cardinality(resp.ids) <= wTransCnt
      BY <1>2 DEF ClientInv, ClientTypeOK, tables
    <2>4. /\ cInputOption \in Options /\ wClientID \in BOOLEAN /\ missed \in BOOLEAN
          /\ link \in {"up", "ended", "reset"}
          /\ session \in Customers \cup {INVALID_CUSTOMER_ID, NONE}
          /\ ResponseSize(wTransCnt) <= BufferSize
      BY DEF ClientInv, ClientTypeOK
    <2> QED
      BY <1>2, <1>3, <1>4, <2>1, <2>2, <2>3, <2>4 DEF ClientTypeOK, Steps
  <1>6. request = NONE /\ inbox = NONE /\ ~Charging
    BY <1>2 DEF ClientInv, ConversationInv, Charging
  <1>7. /\ Answers = {} /\ Answers' = {}
        /\ Charging' <=> order'.type \in TransactionTypes
    BY <1>2, <1>6 DEF Answers, Charging
  <1>8. ConversationInv'
    <2>1. session' = session /\ (link = "up" /\ wClientID => session # NONE)
      BY DEF Call, ClientInv, ConversationInv
    <2> QED
      BY <1>2, <1>3, <1>6, <1>7, <2>1 DEF ConversationInv
  <1>9. OrdersInv'
    <2>1. CASE typed' = typed /\ ~(cin' = "good" /\ order'.type \in TransactionTypes)
      BY <1>2, <1>4, <1>6, <1>7, <2>1 DEF ClientInv, OrdersInv
    <2>2. CASE typed' = Append(typed, order') /\ order'.type \in TransactionTypes
      <3>1. typed \in Seq(Order) /\ done \in Seq(Order)
        BY DEF ClientInv, OrdersInv
      <3>2. \A o \in Order : /\ Count(typed, o) \in Nat /\ Count(done, o) \in Nat
                            /\ Count(typed', o) = Count(typed, o) + (IF order' = o THEN 1 ELSE 0)
        BY <1>3, <2>2, <3>1, CountAppend
      <3>3. typed' \in Seq(Order)
        BY <1>3, <2>2, <3>1
      <3>4. cin' = "good" => \A o \in Order :
              Count(done, o) + (IF o = order' THEN 1 ELSE 0) <= Count(typed', o)
        <4>1. cin' = "good" => \A o \in Order : Count(done, o) + 0 <= Count(typed, o)
          BY <1>4, <1>6 DEF ClientInv, OrdersInv
        <4> QED
          BY <3>2, <4>1
      <3> QED
        BY <1>2, <1>7, <2>2, <3>3, <3>4 DEF ClientInv, OrdersInv
    <2> QED
      BY <1>2, <1>3, <2>1, <2>2 DEF Call, Prompts
  <1> QED
    BY <1>1, <1>5, <1>8, <1>9 DEF ClientInv

LEMMA SendKeeps ==
  ASSUME ClientInv, Send
  PROVE  ClientInv'
  <1> USE DEF consoleVars, listVars, netVars, tellVars
  <1>1. TablesWellFormed'
    BY TablesStay DEF Send
  <1>2. /\ step = "send" /\ order \in Order /\ order.type = cInputOption
        /\ cInputOption \in MSG_TYPE /\ request = NONE /\ inbox = NONE
        /\ inbox' = inbox /\ Answers = {}
    BY DEF Send, ClientInv, ConversationInv, Answers
  <1>3. /\ step' \in {"receive", "killed"} /\ link' \in {"up", "ended", "reset"}
        /\ link' = "up" => link = "up"
        /\ request' # NONE => /\ link' = "up" /\ step' = "receive"
                               /\ request' = [order |-> order, known |-> wClientID,
                                              start |-> dwStartID]
    BY <1>2 DEF Send, ClientInv, ClientTypeOK
  <1>4. ClientTypeOK'
    BY <1>2, <1>3 DEF Send, ClientInv, ClientTypeOK, Steps, tables
  <1>5. Answers' = {} /\ (Charging' => Charging)
    BY <1>2, <1>3 DEF Send, Answers, Charging
  <1>6. ConversationInv'
    BY <1>2, <1>3, <1>5 DEF Send, ClientInv, ConversationInv
  <1>7. OrdersInv'
    <2>1. /\ cin' = cin /\ typed' = typed /\ done' = done /\ told' = told
          /\ order' = order
      BY DEF Send
    <2>2. /\ typed \in Seq(Order) /\ done \in Seq(Order) /\ told \in Seq(Order)
          /\ link = "up" => told = done
      BY <1>2 DEF ClientInv, OrdersInv
    <2>3. cin = "good" => \A o \in Order : /\ Count(done, o) \in Nat /\ Count(typed, o) \in Nat
                                         /\ Count(done, o) + (IF Charging /\ o = order THEN 1 ELSE 0)
                                              <= Count(typed, o)
      BY <1>2, <2>2, CountAppend DEF ClientInv, OrdersInv
    <2>4. cin = "good" => \A o \in Order :
            Count(done, o) + (IF Charging' /\ o = order THEN 1 ELSE 0) <= Count(typed, o)
      BY <1>5, <2>3
    <2> QED
      BY <1>3, <1>5, <2>1, <2>2, <2>4 DEF OrdersInv
  <1> QED
    BY <1>1, <1>4, <1>6, <1>7 DEF ClientInv

LEMMA ReceiveKeeps ==
  ASSUME ClientInv, Receive
  PROVE  ClientInv'
  <1> USE DEF consoleVars, listVars, netVars, tellVars
  <1>1. TablesWellFormed'
    BY TablesStay DEF Receive, tellVars
  <1>2. /\ step = "receive" /\ step' = "report" /\ order \in Order
        /\ order.type = cInputOption /\ cInputOption \in MSG_TYPE
        /\ inbox' = NONE /\ request = NONE
        /\ UNCHANGED <<tables, missed, cInputOption, cin, wClientID, order, dwStartID, shown, before, link,
                       request, session, typed, done, told>>
    BY DEF Receive, ClientInv, ConversationInv, ClientTypeOK
  <1>3. /\ g_szBuffer' = g_szBuffer \/ (inbox # NONE /\ g_szBuffer' = inbox)
        /\ answered' => answered
        /\ link = "up" => answered' /\ inbox # NONE /\ g_szBuffer' = inbox
        /\ answered' => inbox # NONE /\ g_szBuffer' = inbox
    BY DEF Receive, ClientInv, ConversationInv
  <1>4. ClientTypeOK'
    BY <1>2, <1>3 DEF ClientInv, ClientTypeOK, Steps, tables
  <1>5. /\ Answers' \subseteq Answers
        /\ link = "up" => Answers' = Answers
        /\ ~Charging'
    BY <1>2, <1>3 DEF Answers, Charging
  <1>6. ConversationInv'
    BY <1>2, <1>3, <1>5 DEF ClientInv, ConversationInv
  <1>7. OrdersInv'
    <2>1. /\ typed \in Seq(Order) /\ done \in Seq(Order) /\ told \in Seq(Order)
      BY DEF ClientInv, OrdersInv
    <2>2. cin = "good" => \A o \in Order : Count(done, o) + 0 <= Count(typed, o)
      BY <2>1, <1>2, <1>5, CountAppend DEF ClientInv, OrdersInv, Charging
    <2>3. /\ link = "up" /\ Answers = {} => told = done
          /\ \A resp \in Answers : link = "up" =>
               done = IF order.type \in TransactionTypes /\ Succeeded(resp.result)
                      THEN Append(told, order) ELSE told
      BY DEF ClientInv, OrdersInv
    <2> QED
      BY <1>2, <1>5, <2>1, <2>2, <2>3 DEF OrdersInv
  <1> QED
    BY <1>1, <1>4, <1>6, <1>7 DEF ClientInv

\* The IDs of the log are 1 .. n.
LEMMA LogIDs ==
  ASSUME TablesWellFormed
  PROVE  /\ IsFiniteSet(DOMAIN log) /\ Cardinality(DOMAIN log) \in Nat
         /\ DOMAIN log \subseteq Nat
         /\ \A i \in DOMAIN log : i \in Nat /\ i <= Cardinality(DOMAIN log)
  <1>1. DOMAIN log = 1 .. Cardinality(DOMAIN log) /\ IsFiniteSet(DOMAIN log)
    BY DEF TablesWellFormed, Sequential, LogOfCustomers
  <1>2. Cardinality(DOMAIN log) \in Nat
    BY <1>1, FS_CardinalityType
  <1> DEFINE n == Cardinality(DOMAIN log)
  <1>3. \A i \in 1 .. n : i \in Nat /\ i <= n
    BY <1>2
  <1> HIDE DEF n
  <1>4. \A i \in DOMAIN log : i \in Nat /\ i <= n
    BY <1>1, <1>3 DEF n
  <1> QED
    BY <1>1, <1>2, <1>4 DEF n

\* The records of the response in the buffer.
LEMMA PageFinite ==
  ASSUME ClientInv
  PROVE  LET ids == g_szBuffer.ids
         IN  /\ ids \subseteq DOMAIN log /\ ids \subseteq Nat /\ IsFiniteSet(ids)
             /\ Cardinality(ids) \in Nat /\ Cardinality(ids) <= wTransCnt
  <1>1. IsFiniteSet(DOMAIN log) /\ DOMAIN log \subseteq Nat
    BY LogIDs DEF ClientInv
  <1>2. g_szBuffer.ids \subseteq DOMAIN log /\ Cardinality(g_szBuffer.ids) <= wTransCnt
    BY DEF ClientInv, ClientTypeOK
  <1> QED
    BY <1>1, <1>2, FS_Subset, FS_CardinalityType

\* A full page has a last record; the next one begins after it, unless the IDs
\* are at their limit.
LEMMA StartInRange ==
  ASSUME ClientInv, Cardinality(g_szBuffer.ids) >= wTransCnt
  PROVE  LET ids == g_szBuffer.ids
         IN  /\ Max(ids) \in ids /\ \A i \in ids : i <= Max(ids)
             /\ NextStart(ids) \in DWORD
             /\ Max(ids) + 1 < DwordMod => NextStart(ids) = Max(ids) + 1
  <1> DEFINE ids == g_szBuffer.ids
  <1>1. ids \subseteq Nat /\ IsFiniteSet(ids) /\ ids # {}
    BY PageFinite, FS_EmptySet DEF wTransCnt
  <1>2. Max(ids) \in ids /\ \A i \in ids : i <= Max(ids)
    BY <1>1, Largest
  <1> DEFINE m == Max(ids)
  <1>3. m \in Nat /\ DwordMod \in Nat \ {0}
    BY <1>1, <1>2, WidthAssumption
  <1>4. (m + 1) % DwordMod \in 0 .. (DwordMod - 1)
    <2> HIDE DEF m
    <2> QED
      BY <1>3
  <1>5. m + 1 < DwordMod => (m + 1) % DwordMod = m + 1
    <2> HIDE DEF m
    <2> QED
      BY <1>3
  <1> QED
    BY <1>2, <1>4, <1>5 DEF NextStart, DWORD

LEMMA ReportKeeps ==
  ASSUME ClientInv, Report
  PROVE  ClientInv'
  <1> USE DEF consoleVars, netVars
  <1> DEFINE ok == Succeeded(g_szBuffer.result)
  <1>1. TablesWellFormed'
    BY TablesStay DEF Report
  <1>2. /\ step = "report" /\ order \in Order
        /\ order.type = cInputOption /\ cInputOption \in MSG_TYPE
        /\ inbox = NONE /\ request = NONE
        /\ UNCHANGED <<tables, missed, cInputOption, cin, order, g_szBuffer, before, answered, link,
                       request, inbox, session, typed, done>>
    BY DEF Report, ClientInv, ConversationInv
  <1>3. wClientID' = (wClientID \/ (order.type = "CONNECT" /\ ok))
    BY DEF Report
  <1>4. told' = IF order.type \in TransactionTypes /\ ok THEN Append(told, order) ELSE told
    BY DEF Report
  <1>5. /\ step' \in {"menu", "send", "killed"} /\ dwStartID' \in DWORD
        /\ step' = "send" => order.type = "TRANSACTION_QUERY"
    <2>1. dwStartID \in DWORD
      BY DEF ClientInv, ClientTypeOK
    <2>2. Cardinality(g_szBuffer.ids) >= wTransCnt => NextStart(g_szBuffer.ids) \in DWORD
      BY StartInRange
    <2>3. ~(Cardinality(g_szBuffer.ids) < wTransCnt) => Cardinality(g_szBuffer.ids) >= wTransCnt
      BY PageFinite DEF wTransCnt
    <2> QED
      BY <2>1, <2>2, <2>3 DEF Report, List
  <1>6. Answers' = {} /\ ~Charging'
    BY <1>2, <1>5 DEF Answers, Charging, TransactionTypes
  <1>7. ClientTypeOK'
    BY <1>2, <1>3, <1>5 DEF ClientInv, ClientTypeOK, Steps, tables
  <1>8. Answers = IF answered THEN {g_szBuffer} ELSE {}
    BY <1>2 DEF Answers
  <1>9. ConversationInv'
    BY <1>2, <1>3, <1>5, <1>6, <1>8 DEF ClientInv, ConversationInv
  <1>10. OrdersInv'
    <2>1. /\ typed \in Seq(Order) /\ done \in Seq(Order) /\ told \in Seq(Order)
          /\ told' \in Seq(Order)
      BY <1>2, <1>4 DEF ClientInv, OrdersInv
    <2>2. cin = "good" => \A o \in Order : Count(done, o) + 0 <= Count(typed, o)
      BY <2>1, <1>2, CountAppend DEF ClientInv, OrdersInv, Charging
    <2>3. link = "up" => told' = done
      BY <1>4, <1>8 DEF ClientInv, ConversationInv, OrdersInv
    <2> QED
      BY <1>2, <1>6, <2>1, <2>2, <2>3 DEF OrdersInv
  <1> QED
    BY <1>1, <1>7, <1>9, <1>10 DEF ClientInv

LEMMA ServerEndsKeeps ==
  ASSUME ClientInv, ServerEnds
  PROVE  ClientInv'
  <1> USE DEF consoleVars, listVars, tellVars
  <1>1. TablesWellFormed'
    BY TablesStay DEF ServerEnds
  <1>2. /\ link = "up" /\ link' \in {"ended", "reset"} /\ request' = NONE
        /\ UNCHANGED <<tables, missed, step, cInputOption, cin, wClientID, order, g_szBuffer, dwStartID,
                       shown, before, answered, inbox, session, typed, done, told>>
    BY DEF ServerEnds
  <1>3. ClientTypeOK'
    BY <1>2 DEF ClientInv, ClientTypeOK, Steps, tables
  <1>4. Answers' = Answers /\ (Charging' => Charging)
    BY <1>2 DEF Answers, Charging
  <1>5. ConversationInv'
    BY <1>2, <1>4 DEF ClientInv, ConversationInv
  <1>6. OrdersInv'
    <2>1. /\ typed \in Seq(Order) /\ done \in Seq(Order) /\ told \in Seq(Order)
      BY DEF ClientInv, OrdersInv
    <2>2. cin = "good" => \A o \in Order :
            /\ Count(done, o) \in Nat /\ Count(typed, o) \in Nat
            /\ Count(done, o) + (IF Charging /\ o = order THEN 1 ELSE 0) <= Count(typed, o)
      BY <2>1, CountAppend DEF ClientInv, OrdersInv
    <2>3. cin = "good" => \A o \in Order :
            Count(done, o) + (IF Charging' /\ o = order THEN 1 ELSE 0) <= Count(typed, o)
      BY <1>4, <2>2
    <2> QED
      BY <1>2, <2>1, <2>3 DEF OrdersInv
  <1> QED
    BY <1>1, <1>3, <1>5, <1>6 DEF ClientInv

LEMMA StutterKeeps ==
  ASSUME ClientInv, UNCHANGED clientVars
  PROVE  ClientInv'
  <1> USE DEF clientVars, consoleVars, listVars, netVars, tellVars
  <1>1. TablesWellFormed'
    BY TablesStay
  <1>2. ClientTypeOK'
    BY DEF ClientInv, ClientTypeOK, tables
  <1>3. Answers' = Answers /\ Charging' = Charging
    BY DEF Answers, Charging
  <1>4. ConversationInv'
    BY <1>3 DEF ClientInv, ConversationInv
  <1>5. OrdersInv'
    BY <1>3 DEF ClientInv, OrdersInv
  <1> QED
    BY <1>1, <1>2, <1>4, <1>5 DEF ClientInv

---------------------------------------------------------------------------
(* So do the server's                                                      *)

\* What a step of the server may do to the tables: an account may come, and a
\* record of a customer.
TablesMove ==
  /\ accounts' \subseteq Customers
  /\ log' = log \/ \E customer \in Customers : Record(customer)

\* A record comes under the next ID, which is free; the others stay.
LEMMA RecordFacts ==
  ASSUME TablesWellFormed, NEW customer \in Customers, Record(customer)
  PROVE  /\ Cardinality(DOMAIN log') = Cardinality(DOMAIN log) + 1
         /\ \A i \in DOMAIN log : i \in DOMAIN log' /\ log'[i] = log[i]
         /\ LogOfCustomers(log') /\ Sequential(log')
  <1> DEFINE n  == Cardinality(DOMAIN log)
             id == n + 1
             tr == [customer |-> customer]
  <1>1. n \in Nat /\ IsFiniteSet(DOMAIN log) /\ DOMAIN log = 1 .. n
    BY LogIDs DEF TablesWellFormed, Sequential
  <1>2. log' = Insert(log, id, tr) /\ id \notin DOMAIN log
    BY <1>1 DEF Record
  <1>3. /\ DOMAIN log' = DOMAIN log \cup {id} /\ log'[id] = tr
        /\ \A i \in DOMAIN log : log'[i] = log[i]
        /\ log' = [i \in DOMAIN log' |-> log'[i]]
    BY <1>2 DEF Insert
  <1> HIDE DEF n, id
  <1>4. IsFiniteSet(DOMAIN log') /\ Cardinality(DOMAIN log') = n + 1
    BY <1>1, <1>2, <1>3, FS_AddElement DEF n
  <1>5. DOMAIN log' = 1 .. (n + 1)
    BY <1>1, <1>3 DEF id
  <1>6. \A i \in DOMAIN log' : log'[i] \in [customer : Customers]
    <2>1. log \in [DOMAIN log -> [customer : Customers]]
      BY DEF TablesWellFormed, LogOfCustomers
    <2> QED
      BY <1>3, <2>1
  <1>7. log' \in [DOMAIN log' -> [customer : Customers]]
    BY <1>3, <1>6
  <1> QED
    BY <1>3, <1>4, <1>5, <1>7 DEF LogOfCustomers, Sequential, n

\* The tables stay well formed; the log grows by one record at most, and none
\* of its records changes.
LEMMA MoveKeepsTables ==
  ASSUME TablesWellFormed, TablesMove
  PROVE  /\ TablesWellFormed'
         /\ Cardinality(DOMAIN log) \in Nat /\ Cardinality(DOMAIN log') \in Nat
         /\ Cardinality(DOMAIN log') <= Cardinality(DOMAIN log) + 1
         /\ DOMAIN log \subseteq DOMAIN log'
         /\ \A i \in DOMAIN log : i \in DOMAIN log' /\ log'[i] = log[i]
  <1>1. Cardinality(DOMAIN log) \in Nat
    BY LogIDs
  <1>2. CASE log' = log
    BY <1>1, <1>2 DEF TablesMove, TablesWellFormed
  <1>3. CASE \E customer \in Customers : Record(customer)
    BY <1>1, <1>3, RecordFacts DEF TablesMove, TablesWellFormed
  <1> QED
    BY <1>2, <1>3 DEF TablesMove

\* What the handler of the client's request does: one move of the tables, a
\* record only for a transaction; the session keeps its customer but for the
\* requests that set it.
LEMMA HandlerMoves ==
  ASSUME ClientInv, link = "up", request # NONE,
         order.type = "CONNECT" \/ wClientID,
         NEW cerRR, Handle(order, cerRR)
  PROVE  /\ TablesMove
         /\ session' \in Customers \cup {INVALID_CUSTOMER_ID}
         /\ order.type = "TRANSACTION_QUERY" => session' = session /\ UNCHANGED tables
         /\ order.type \notin TransactionTypes => log' = log
  <1>1. order.customer \in Customers \cup {INVALID_CUSTOMER_ID}
    BY DEF ClientInv, ClientTypeOK, ConversationInv, Order
  <1>2. order.type # "CONNECT" => session \in Customers \cup {INVALID_CUSTOMER_ID}
    BY DEF ClientInv, ClientTypeOK, ConversationInv
  <1>3. accounts \subseteq Customers
    BY DEF ClientInv, TablesWellFormed
  <1>4. AccountTypes = TransactionTypes \cup {"BALANCE_QUERY", "TRANSACTION_QUERY"}
        /\ TransactionTypes = {"DEPOSIT", "WITHDRAWAL", "STAMP_PURCHASE"}
    BY DEF AccountTypes, TransactionTypes
  <1>5. CASE HandleSession(order, cerRR)
    BY <1>3, <1>4, <1>5 DEF HandleSession, TablesMove, tables
  <1>6. CASE HandleAccount(order, cerRR)
    <2>1. order.type # "CONNECT" /\ session' = session
      BY <1>4, <1>6 DEF HandleAccount
    <2>2. CASE UNCHANGED tables
      BY <1>2, <1>3, <2>1, <2>2 DEF TablesMove, tables
    <2>3. CASE /\ order.type = "CREATE_ACCOUNT" /\ IsValidCustomerID(order.customer)
               /\ accounts' = accounts \cup {order.customer} /\ log' = log
      BY <1>1, <1>2, <1>3, <2>1, <2>3 DEF TablesMove, IsValidCustomerID
    <2>4. CASE /\ order.type \in TransactionTypes /\ IsValidCustomerID(session)
               /\ Record(session) /\ accounts' = accounts
      BY <1>2, <1>3, <1>4, <2>1, <2>4 DEF TablesMove, IsValidCustomerID
    <2> QED
      BY <1>6, <2>2, <2>3, <2>4 DEF HandleAccount
  <1> QED
    BY <1>5, <1>6 DEF Handle

\* A page of the history: as CollectFacts, for the request on its way.
LEMMA PageFacts ==
  ASSUME ClientInv, request # NONE, NEW cerRR
  PROVE  LET ids == Page(order, cerRR)
         IN  /\ ids \subseteq DOMAIN log /\ Cardinality(ids) <= wTransCnt
             /\ order.type = "TRANSACTION_QUERY" /\ Succeeded(cerRR) =>
                  ids = Collect(log, session, dwStartID, wTransCnt)
  <1>1. request.start = dwStartID /\ dwStartID \in Nat
    BY WidthAssumption DEF ClientInv, ClientTypeOK, ConversationInv, DWORD
  <1>2. IsFiniteSet(DOMAIN log) /\ DOMAIN log \subseteq Nat
    BY LogIDs DEF ClientInv
  <1> DEFINE ids == Collect(log, session, dwStartID, wTransCnt)
  <1>3. ids \subseteq DOMAIN log /\ Cardinality(ids) <= wTransCnt
    <2>1. wTransCnt \in Nat
      BY DEF wTransCnt
    <2>2. /\ \A i \in ids : i \in DOMAIN log
          /\ Cardinality(ids) <= wTransCnt
      BY <1>1, <1>2, <2>1, CollectFacts
    <2> QED
      BY <2>2
  <1>4. Cardinality({}) <= wTransCnt
    BY FS_EmptySet DEF wTransCnt
  <1> HIDE DEF ids
  <1>5. Page(order, cerRR) = ids \/ Page(order, cerRR) = {}
    BY <1>1 DEF Page, ids
  <1>6. order.type = "TRANSACTION_QUERY" /\ Succeeded(cerRR) => Page(order, cerRR) = ids
    BY <1>1 DEF Page, ids
  <1> QED
    BY <1>3, <1>4, <1>5, <1>6 DEF ids

LEMMA ServeKeeps ==
  ASSUME ClientInv, Serve
  PROVE  ClientInv'
  <1> USE DEF consoleVars, listVars
  <1>1. /\ link = "up" /\ request # NONE /\ request' = NONE
        /\ step = "receive" /\ inbox = NONE /\ order \in Order /\ order.type \in MSG_TYPE
        /\ order.type = cInputOption /\ answered
        /\ request.order = order /\ request.known = wClientID
        /\ UNCHANGED <<step, cInputOption, cin, wClientID, order, g_szBuffer, dwStartID, shown,
                       before, answered, link, typed, told>>
    BY DEF Serve, ClientInv, ClientTypeOK, ConversationInv
  <1>2. Answers = {} /\ ~Charging' /\ told = done
        /\ (Charging <=> order.type \in TransactionTypes)
    BY <1>1 DEF ClientInv, OrdersInv, Answers, Charging
  <1>3. /\ typed \in Seq(Order) /\ done \in Seq(Order) /\ told \in Seq(Order)
        /\ cin = "good" => \A o \in Order :
             /\ Count(done, o) \in Nat /\ Count(typed, o) \in Nat
             /\ Count(done, o) + (IF Charging /\ o = order THEN 1 ELSE 0) <= Count(typed, o)
    BY CountAppend DEF ClientInv, OrdersInv
  <1>4. CASE Unanswered
    <2>0. missed' = TRUE /\ UNCHANGED <<tables, inbox, session, done>>
      BY <1>4 DEF Unanswered
    <2>1. TablesWellFormed'
      BY <2>0, TablesStay
    <2>2. ClientTypeOK'
      BY <1>1, <2>0 DEF ClientInv, ClientTypeOK, tables
    <2>3. Answers' = {}
      BY <1>1, <2>0 DEF Answers
    <2>4. ConversationInv'
      BY <1>1, <2>0, <2>3 DEF ClientInv, ConversationInv
    <2>5. OrdersInv'
      BY <1>1, <1>2, <1>3, <2>0, <2>3 DEF OrdersInv
    <2> QED
      BY <2>1, <2>2, <2>4, <2>5 DEF ClientInv
  <1>5. ASSUME order.type = "CONNECT" \/ wClientID,
               NEW cerRR \in CER_TYPE, Handle(order, cerRR),
               inbox' = Answer(order.type, cerRR, Page(order, cerRR)),
               done' = IF order.type \in TransactionTypes /\ Succeeded(cerRR)
                       THEN Append(done, order) ELSE done,
               missed' = missed
        PROVE  ClientInv'
    <2> DEFINE ids == Page(order, cerRR)
    <2>1. TablesMove /\ session' \in Customers \cup {INVALID_CUSTOMER_ID} /\ session' # NONE
      BY <1>1, <1>5, HandlerMoves, ClientAssumption
    <2>2. TablesWellFormed' /\ DOMAIN log \subseteq DOMAIN log'
      BY <2>1, MoveKeepsTables DEF ClientInv
    <2>3. ids \subseteq DOMAIN log /\ Cardinality(ids) <= wTransCnt /\ ids \subseteq Nat
      BY <1>1, PageFacts, LogIDs DEF ClientInv
    <2> HIDE DEF ids
    <2>4. inbox' = [type |-> order.type, result |-> cerRR, ids |-> ids] /\ inbox' # NONE
      BY <1>1, <1>5, <2>3, ClientAssumption DEF Answer, ids
    <2>5. ClientTypeOK'
      BY <1>1, <1>5, <2>1, <2>2, <2>3, <2>4 DEF ClientInv, ClientTypeOK
    <2>6. Answers' = {inbox'}
      BY <1>1, <2>4 DEF Answers
    <2>7. ConversationInv'
      BY <1>1, <2>1, <2>4, <2>6 DEF ClientInv, ConversationInv
    <2>8. OrdersInv'
      <3>1. /\ done' \in Seq(Order)
            /\ cin = "good" => \A o \in Order : Count(done', o) + 0 <= Count(typed, o)
        <4>1. CASE done' = done
          BY <1>3, <4>1
        <4>2. CASE order.type \in TransactionTypes /\ done' = Append(done, order)
          <5>1. /\ done' \in Seq(Order)
                /\ \A o \in Order : /\ Count(done, o) \in Nat
                                    /\ Count(done', o)
                                         = Count(done, o) + (IF order = o THEN 1 ELSE 0)
            BY <1>1, <1>3, <4>2, CountAppend
          <5> QED
            BY <1>2, <1>3, <4>2, <5>1
        <4> QED
          BY <1>5, <4>1, <4>2
      <3> QED
        BY <1>1, <1>2, <1>3, <1>5, <2>4, <2>6, <3>1 DEF OrdersInv
    <2> QED
      BY <2>2, <2>5, <2>7, <2>8 DEF ClientInv
  <1> QED
    BY <1>1, <1>4, <1>5 DEF Serve

LEMMA OthersKeep ==
  ASSUME ClientInv, Others
  PROVE  ClientInv' /\ TablesMove
  <1> USE DEF consoleVars, listVars, netVars, tellVars
  <1>1. accounts \subseteq Customers
    BY DEF ClientInv, TablesWellFormed
  <1>2. TablesMove
    BY <1>1 DEF Others, TablesMove
  <1>3. TablesWellFormed' /\ DOMAIN log \subseteq DOMAIN log'
    BY <1>2, MoveKeepsTables DEF ClientInv
  <1>4. UNCHANGED <<step, cInputOption, cin, wClientID, order, g_szBuffer, dwStartID, shown,
                    before, answered, link, request, inbox, missed, session, typed, done, told>>
    BY DEF Others
  <1>5. ClientTypeOK'
    BY <1>3, <1>4 DEF ClientInv, ClientTypeOK
  <1>6. Answers' = Answers /\ Charging' = Charging
    BY <1>4 DEF Answers, Charging
  <1>7. ConversationInv'
    BY <1>4, <1>6 DEF ClientInv, ConversationInv
  <1>8. OrdersInv'
    BY <1>4, <1>6 DEF ClientInv, OrdersInv
  <1> QED
    BY <1>2, <1>3, <1>5, <1>7, <1>8 DEF ClientInv

---------------------------------------------------------------------------
(* The theorems                                                            *)

LEMMA NextKeepsClientInv ==
  ClientInv /\ [ClientNext]_clientVars => ClientInv'
  BY ReadOptionKeeps, CallKeeps, SendKeeps, ReceiveKeeps, ReportKeeps, ServeKeeps, OthersKeep,
     ServerEndsKeeps, StutterKeeps DEF ClientNext, ClientStep, Finished

\* The invariant of the client's conversation: a request on its way is the one
\* its Send function has built, an answer is of its type, and what was typed,
\* made and reported differ by the order under way.
THEOREM ClientInvariance ==
  ClientSpec => []ClientInv
  BY ClientInitInv, NextKeepsClientInv, PTL DEF ClientSpec

\* The parts of the client hold what they may; every history response fits the
\* buffers of the server and of the client.
THEOREM ClientTypes ==
  ClientSpec => []ClientTypeOK
  <1>1. ClientInv => ClientTypeOK
    BY DEF ClientInv
  <1> QED
    BY <1>1, ClientInvariance, PTL

\* While there is a server, the client reports done what the server has made
\* for it, and of that nothing that its user has not typed, and none twice.
THEOREM OrdersAreHonoured ==
  ClientSpec => []OrdersHonoured
  <1>1. ClientInv => OrdersHonoured
    <2> SUFFICES ASSUME ClientInv, step = "menu", link = "up"
                 PROVE  /\ told = done
                        /\ cin = "good" => \A i \in DOMAIN done :
                             Count(done, done[i]) <= Count(typed, done[i])
      BY DEF OrdersHonoured
    <2>1. Answers = {} /\ ~Charging
      BY DEF ClientInv, ConversationInv, Answers, Charging
    <2>2. told = done /\ done \in Seq(Order)
      BY <2>1 DEF ClientInv, OrdersInv
    <2>3. \A i \in DOMAIN done : done[i] \in Order
      BY <2>2
    <2>4. cin = "good" => \A o \in Order : Count(done, o) + 0 <= Count(typed, o)
      BY <2>1 DEF ClientInv, OrdersInv
    <2>5. \A o \in Order : Count(done, o) \in Nat
      BY <2>2, CountAppend
    <2> QED
      BY <2>2, <2>3, <2>4, <2>5
  <1> QED
    BY <1>1, ClientInvariance, PTL

---------------------------------------------------------------------------
(* How long the log gets                                                   *)

LEMMA CountedKeeps ==
  ASSUME ClientInv, RecordsCounted, [ClientNext]_clientVars
  PROVE  RecordsCounted'
  <1> USE DEF consoleVars, listVars, netVars, tellVars
  <1> DEFINE size == Cardinality(DOMAIN log)
  <1>1. /\ commands \in 0 .. MaxCommands /\ size \in Nat
        /\ MaxCommands \in Nat /\ MaxRecords \in Nat
        /\ size <= MaxRecords + commands
        /\ step = "call" \/ Charging => commands > 0 /\ size < MaxRecords + commands
    BY ClientAssumption, LogIDs DEF ClientInv, RecordsCounted
  <1>2. CASE /\ UNCHANGED <<log, commands>>
             /\ step' = "call" \/ Charging' => step = "call" \/ Charging
    BY <1>1, <1>2 DEF RecordsCounted
  <1>3. CASE ReadOption
    <2>1. /\ commands' = commands + 1 /\ commands < MaxCommands /\ log' = log
          /\ request' = request /\ step = "menu" /\ step' # "send"
      BY <1>3 DEF ReadOption, tables
    <2>2. ~Charging'
      BY <2>1 DEF Charging, ClientInv, ConversationInv
    <2> QED
      BY <1>1, <2>1, <2>2 DEF RecordsCounted
  <1>4. CASE Call \/ Send \/ Receive \/ Report \/ ServerEnds \/ UNCHANGED clientVars
    <2>1. UNCHANGED <<log, commands>>
      BY <1>4 DEF Call, Send, Receive, Report, ServerEnds, clientVars, tables
    <2>2. CASE Call
      BY <1>2, <2>1, <2>2 DEF Call
    <2>3. CASE Send
      BY <1>2, <2>1, <2>3 DEF Send, Charging
    <2>4. CASE Receive
      BY <1>2, <2>1, <2>4 DEF Receive, Charging
    <2>5. CASE Report
      <3>1. step' # "call" /\ (step' = "send" => order.type \notin TransactionTypes)
            /\ UNCHANGED <<order, request>>
        BY <2>5 DEF Report, List, TransactionTypes
      <3> QED
        BY <1>2, <2>1, <3>1 DEF Charging
    <2>6. CASE ServerEnds
      BY <1>2, <2>1, <2>6 DEF ServerEnds, Charging
    <2>7. CASE UNCHANGED clientVars
      BY <1>2, <2>1, <2>7 DEF clientVars, Charging
    <2> QED
      BY <1>4, <2>2, <2>3, <2>4, <2>5, <2>6, <2>7
  <1>5. CASE Serve
    <2>1. /\ link = "up" /\ request # NONE /\ request' = NONE /\ step = "receive"
          /\ UNCHANGED <<step, order, commands>>
          /\ request.order = order /\ request.known = wClientID
      BY <1>5 DEF Serve, ClientInv, ClientTypeOK, ConversationInv
    <2>2. ~Charging' /\ (order.type \in TransactionTypes => Charging)
      BY <2>1 DEF Charging
    <2>3. CASE log' = log
      BY <1>2, <2>1, <2>2, <2>3
    <2>4. CASE log' # log
      <3>1. PICK cerRR \in CER_TYPE : /\ order.type = "CONNECT" \/ wClientID
                                      /\ Handle(order, cerRR)
        BY <1>5, <2>1, <2>4 DEF Serve, Unanswered, tables
      <3>2. TablesMove /\ order.type \in TransactionTypes
        BY <2>1, <2>4, <3>1, HandlerMoves
      <3>3. Cardinality(DOMAIN log') \in Nat /\ Cardinality(DOMAIN log') <= size + 1
        BY <3>2, MoveKeepsTables DEF ClientInv
      <3> QED
        BY <1>1, <2>1, <2>2, <3>2, <3>3 DEF RecordsCounted
    <2> QED
      BY <2>3, <2>4
  <1>6. CASE Others
    <2>1. /\ log' = log \/ size < MaxRecords
          /\ UNCHANGED <<step, order, request, commands>>
      BY <1>6 DEF Others
    <2>2. Cardinality(DOMAIN log') \in Nat /\ Cardinality(DOMAIN log') <= size + 1
      BY <1>6, OthersKeep, MoveKeepsTables DEF ClientInv
    <2>3. Charging' = Charging
      BY <2>1 DEF Charging
    <2>4. CASE log' = log
      BY <1>2, <2>1, <2>3, <2>4
    <2> QED
      BY <1>1, <2>1, <2>2, <2>3, <2>4 DEF RecordsCounted
  <1> QED
    BY <1>3, <1>4, <1>5, <1>6 DEF ClientNext, ClientStep, Finished

---------------------------------------------------------------------------
(* The pages of a history                                                  *)

\* The records of a customer are IDs, and no move takes one away.
LEMMA OwnGrows ==
  ASSUME TablesWellFormed, TablesMove, session' = session
  PROVE  Own(session) \subseteq Nat /\ Own(session) \subseteq Own(session)'
  BY LogIDs, MoveKeepsTables DEF Own

\* What others add to the account while it is listed leaves the list and the
\* page what they have to be.
LEMMA PagesStay ==
  ASSUME UNCHANGED <<before, shown, dwStartID>>, Own(session) \subseteq Own(session)'
  PROVE  /\ Listed => Listed'
         /\ \A ids : PageOf(ids) => PageOf(ids)'
  <1>1. Listed => Listed'
    BY DEF Listed
  <1>2. \A ids : PageOf(ids) => PageOf(ids)'
    BY DEF PageOf
  <1> QED
    BY <1>1, <1>2

\* Nothing to do with a history under way, or with one that has been listed.
LEMMA HistoryStays ==
  ASSUME HistoryInv,
         UNCHANGED <<cInputOption, order, before, shown, dwStartID, g_szBuffer, session>>,
         Own(session) \subseteq Own(session)',
         answered' => answered,
         step' \in {"send", "receive", "report"} => step \in {"send", "receive", "report"},
         step' = "menu" => step = "menu",
         answered' => Answers' \subseteq Answers
  PROVE  PagesInv' /\ HistoryComplete'
  <1>1. PagesInv'
    <2>1. Paging' => Paging /\ Answers' \subseteq Answers
      BY DEF Paging
    <2>2. Paging => Listed /\ \A resp \in Answers : Succeeded(resp.result) => PageOf(resp.ids)
      BY DEF HistoryInv, PagesInv
    <2>3. Listed => Listed'
      BY PagesStay
    <2>4. \A ids : PageOf(ids) => PageOf(ids)'
      BY PagesStay
    <2> QED
      BY <2>1, <2>2, <2>3, <2>4 DEF PagesInv
  <1>2. HistoryComplete'
    BY DEF HistoryInv, HistoryComplete
  <1> QED
    BY <1>1, <1>2

\* The list begins: nothing of it is there, and nothing is before its start.
LEMMA CallBegins ==
  ASSUME ClientInv, Call
  PROVE  PagesInv' /\ HistoryComplete'
  <1> USE DEF consoleVars, listVars, netVars, tellVars
  <1>1. /\ step' = "send" /\ dwStartID' = 0 /\ shown' = <<>> /\ before' = Own(session)
        /\ UNCHANGED <<tables, inbox, session>> /\ inbox = NONE
    BY DEF Call, ClientInv, ConversationInv
  <1>2. Answers' = {}
    BY <1>1 DEF Answers
  <1>3. Own(session)' = Own(session) /\ Own(session) \subseteq Nat
    BY <1>1, LogIDs DEF Own, ClientInv, tables
  <1>4. Listed'
    <2>1. ToSet(<<>>) = {} /\ Ascending(<<>>) /\ <<>> \in Seq(Own(session))
      BY DEF ToSet, Ascending
    <2>2. \A i \in Own(session) : ~(i < 0)
      BY <1>3
    <2> QED
      BY <1>1, <1>3, <2>1, <2>2 DEF Listed
  <1> QED
    BY <1>1, <1>2, <1>4 DEF PagesInv, HistoryComplete

\* The server puts together what CollectFacts says: a page of the account.
LEMMA ServeAnswers ==
  ASSUME ClientInv, HistoryInv, Serve
  PROVE  PagesInv' /\ HistoryComplete'
  <1> USE DEF consoleVars, listVars
  <1>1. /\ link = "up" /\ request # NONE /\ step = "receive" /\ inbox = NONE
        /\ order.type = cInputOption
        /\ request.order = order /\ request.known = wClientID
        /\ UNCHANGED <<step, cInputOption, order, g_szBuffer, dwStartID, shown, before, answered>>
    BY DEF Serve, ClientInv, ClientTypeOK, ConversationInv
  <1>2. HistoryComplete'
    BY <1>1 DEF HistoryComplete
  <1>3. Answers' = {inbox'} \ {NONE}
    BY <1>1 DEF Answers
  <1>4. ASSUME Paging'
        PROVE  Listed' /\ \A resp \in Answers' : Succeeded(resp.result) => PageOf(resp.ids)'
    <2>1. Paging /\ order.type = "TRANSACTION_QUERY"
      BY <1>1, <1>4 DEF Paging
    <2>2. Listed
      BY <2>1 DEF HistoryInv, PagesInv
    <2>3. CASE Unanswered
      BY <1>1, <1>3, <2>2, <2>3 DEF Unanswered, Listed, Own, tables
    <2>4. ASSUME order.type = "CONNECT" \/ wClientID,
                 NEW cerRR \in CER_TYPE, Handle(order, cerRR),
                 inbox' = Answer(order.type, cerRR, Page(order, cerRR))
          PROVE  Listed' /\ \A resp \in Answers' : Succeeded(resp.result) => PageOf(resp.ids)'
      <3>1. session' = session /\ log' = log
        BY <1>1, <2>1, <2>4, HandlerMoves DEF tables
      <3>2. Own(session)' = Own(session)
        BY <3>1 DEF Own
      <3>3. Listed'
        BY <1>1, <2>2, <3>2 DEF Listed
      <3> DEFINE ids == Collect(log, session, dwStartID, wTransCnt)
      <3>4. ASSUME NEW page, page = ids
            PROVE  PageOf(page)'
        <4>1. IsFiniteSet(DOMAIN log) /\ DOMAIN log \subseteq Nat
          BY LogIDs DEF ClientInv
        <4>2. dwStartID \in Nat /\ wTransCnt \in Nat
          BY WidthAssumption DEF ClientInv, ClientTypeOK, DWORD, wTransCnt
        <4>3. /\ \A i \in ids : i \in Own(session) /\ i >= dwStartID
              /\ \A i \in Own(session) : i >= dwStartID /\ i \notin ids =>
                   Cardinality(ids) >= wTransCnt /\ \A j \in ids : j < i
          BY <4>1, <4>2, CollectFacts DEF Own
        <4>4. before \subseteq Own(session)
          BY <2>2 DEF Listed
        <4> HIDE DEF ids
        <4>5. PageOf(page)
          BY <3>4, <4>3, <4>4 DEF PageOf
        <4> QED
          BY <1>1, <3>2, <4>5 DEF PageOf
      <3>5. inbox'.result = cerRR
        BY <2>4 DEF Answer
      <3>6. Succeeded(cerRR) => inbox'.ids = ids
        BY <1>1, <2>1, <2>4, PageFacts DEF Answer
      <3> HIDE DEF ids
      <3>7. ASSUME NEW resp, resp = inbox', Succeeded(resp.result)
            PROVE  PageOf(resp.ids)'
        <4>1. resp.ids = ids
          BY <3>5, <3>6, <3>7
        <4> QED
          BY <3>4, <4>1
      <3> QED
        BY <1>3, <3>3, <3>7
    <2> QED
      BY <1>1, <2>3, <2>4 DEF Serve
  <1>5. PagesInv'
    BY <1>4 DEF PagesInv
  <1> QED
    BY <1>2, <1>5

\* A page is put behind the list: the list then has what there was below the
\* start of the next page, and after a page that is not full there is no more.
LEMMA ReportLists ==
  ASSUME LogFits, ClientInv, HistoryInv, Report
  PROVE  PagesInv' /\ HistoryComplete'
  <1> USE DEF consoleVars, netVars
  <1> DEFINE ok   == Succeeded(g_szBuffer.result)
             ids  == g_szBuffer.ids
             page == InOrder(g_szBuffer.ids)
  <1>1. /\ step = "report" /\ order.type = cInputOption /\ inbox = NONE
        /\ UNCHANGED <<tables, cInputOption, order, g_szBuffer, before, answered, inbox, session>>
    BY DEF Report, ClientInv, ConversationInv
  <1>2. Answers = (IF answered THEN {g_szBuffer} ELSE {})
    BY <1>1 DEF Answers
  <1>3. step' # "report" /\ step' # "receive" /\ Answers' = {}
    BY <1>1 DEF Report, List, Answers
  <1>4. CASE ~(order.type = "TRANSACTION_QUERY" /\ ok /\ answered)
    <2>1. ~Paging'
      BY <1>1, <1>3, <1>4 DEF Report, Paging
    <2>2. HistoryComplete'
      BY <1>1, <1>4 DEF HistoryComplete
    <2> QED
      BY <2>1, <2>2 DEF PagesInv
  <1>5. CASE order.type = "TRANSACTION_QUERY" /\ ok /\ answered
    <2>1. g_szBuffer.type = "TRANSACTION_QUERY"
      BY <1>2, <1>5 DEF ClientInv, ConversationInv
    <2>2. Listed /\ PageOf(ids)
      BY <1>1, <1>2, <1>5 DEF HistoryInv, PagesInv, Paging
    <2>3. /\ ids \subseteq Nat /\ IsFiniteSet(ids) /\ ids \subseteq DOMAIN log
          /\ Cardinality(ids) \in Nat
      BY PageFinite
    <2>4. Own(session) \subseteq Nat /\ Own(session)' = Own(session)
          /\ ids \subseteq Own(session) /\ before \subseteq Own(session)
      BY <1>1, <2>2, LogIDs DEF Own, ClientInv, PageOf, Listed, tables
    <2>5. dwStartID \in Nat
      BY WidthAssumption DEF ClientInv, ClientTypeOK, DWORD
    <2>6. /\ shown' = shown \o page
          /\ IF Cardinality(ids) < wTransCnt
             THEN step' = "menu" /\ UNCHANGED dwStartID
             ELSE step' = "send" /\ dwStartID' = NextStart(ids)
      BY <1>5, <2>1 DEF Report, List
    <2>7. page \in Seq(ids) /\ ToSet(page) = ids /\ Ascending(page)
      BY <2>3, InOrderFacts
    <2>8. /\ shown \in Seq(Own(session)) /\ Ascending(shown)
          /\ \A i \in ToSet(shown) : i < dwStartID
          /\ \A i \in before : i < dwStartID => i \in ToSet(shown)
      BY <2>2 DEF Listed
    <2> HIDE DEF page, ids
    <2>9. /\ \A i \in ids : i >= dwStartID
          /\ \A i \in before : i >= dwStartID /\ i \notin ids =>
               Cardinality(ids) >= wTransCnt /\ \A j \in ids : j < i
      BY <2>2 DEF PageOf
    <2>10. /\ shown \in Seq(Nat) /\ page \in Seq(Nat)
           /\ page \in Seq(Own(session)) /\ shown' \in Seq(Own(session))
      <3>1. Own(session) \subseteq Nat /\ ids \subseteq Own(session)
        BY <2>4
      <3>2. shown \in Seq(Own(session)) /\ page \in Seq(Own(session))
        BY <2>7, <2>8, <3>1
      <3>3. \A S, T : S \subseteq T => Seq(S) \subseteq Seq(T)
        OBVIOUS
      <3>4. shown \o page \in Seq(Own(session))
        BY <3>2
      <3> QED
        BY <2>6, <3>1, <3>2, <3>3, <3>4
    <2>11. \A i \in ToSet(shown) : i \in Own(session)
      BY <2>8 DEF ToSet
    <2>12. \A i \in ToSet(shown), j \in ToSet(page) : i < j
      <3>1. ASSUME NEW i \in ToSet(shown), NEW j \in ids
            PROVE  i < j
        <4>1. i \in Nat /\ j \in Nat /\ i < dwStartID /\ j >= dwStartID
          BY <2>3, <2>4, <2>8, <2>9, <2>11
        <4> QED
          BY <2>5, <4>1
      <3> QED
        BY <2>7, <3>1
    <2>13. ToSet(shown') = ToSet(shown) \cup ids /\ Ascending(shown')
      BY <2>6, <2>7, <2>8, <2>10, <2>12, PutBehind
    <2>14. \A i \in before : i \in Nat
      BY <2>4
    <2>15. CASE Cardinality(ids) < wTransCnt
      <3>1. step' = "menu"
        BY <2>6, <2>15
      <3>2. \A i \in before : i \in ToSet(shown) \cup ids
        <4>1. ~(Cardinality(ids) >= wTransCnt)
          BY <2>3, <2>15 DEF wTransCnt
        <4>2. ASSUME NEW i \in before
              PROVE  i \in ToSet(shown) \cup ids
          <5>1. i < dwStartID \/ i >= dwStartID
            BY <2>5, <2>14
          <5> QED
            BY <2>8, <2>9, <4>1, <5>1
        <4> QED
          BY <4>2
      <3>3. before \subseteq ToSet(shown') /\ ToSet(shown') \subseteq Own(session)
        BY <2>4, <2>11, <2>13, <3>2
      <3>4. HistoryComplete'
        BY <1>1, <2>4, <2>13, <3>3 DEF HistoryComplete, Ascending
      <3> QED
        BY <3>1, <3>4 DEF PagesInv, Paging
    <2>16. CASE Cardinality(ids) >= wTransCnt
      <3> DEFINE m == Max(ids)
      <3>1. step' = "send" /\ dwStartID' = NextStart(ids)
        BY <2>3, <2>6, <2>16 DEF wTransCnt
      <3>2. /\ m \in ids /\ \A i \in ids : i <= m
            /\ m + 1 < DwordMod => NextStart(ids) = m + 1
        BY <2>16, StartInRange DEF ids
      <3> HIDE DEF m
      <3>3. m + 1 < DwordMod
        <4>1. m \in DOMAIN log
          BY <2>3, <3>2
        <4>2. m \in Nat /\ m <= Cardinality(DOMAIN log) /\ Cardinality(DOMAIN log) \in Nat
          BY <4>1, LogIDs DEF ClientInv
        <4>3. /\ Cardinality(DOMAIN log) <= MaxRecords + commands
              /\ commands \in 0 .. MaxCommands
          BY DEF HistoryInv, RecordsCounted
        <4>4. MaxRecords + MaxCommands + 1 < DwordMod
              /\ MaxRecords \in Nat /\ MaxCommands \in Nat /\ DwordMod \in Nat
          BY ClientAssumption, WidthAssumption DEF LogFits
        <4> QED
          BY <4>2, <4>3, <4>4
      <3>4. dwStartID' = m + 1 /\ m \in Nat /\ m >= dwStartID
        BY <2>3, <2>9, <3>1, <3>2, <3>3
      <3>5. \A i \in ToSet(shown') : i < dwStartID'
        <4>1. ASSUME NEW i \in ToSet(shown)
              PROVE  i < m + 1
          <5>1. i \in Nat /\ i < dwStartID
            BY <2>4, <2>8, <2>11
          <5> QED
            BY <2>5, <3>4, <5>1
        <4>2. \A i \in ids : i < m + 1
          BY <2>3, <3>2, <3>4
        <4> QED
          BY <2>13, <3>4, <4>1, <4>2
      <3>6. ASSUME NEW i \in before, i < m + 1
            PROVE  i \in ToSet(shown) \cup ids
        <4>1. i \in Nat /\ ~(m < i)
          BY <2>14, <3>4, <3>6
        <4>2. i < dwStartID \/ i >= dwStartID
          BY <2>5, <4>1
        <4> QED
          BY <2>8, <2>9, <3>2, <4>1, <4>2
      <3>7. Listed'
        BY <1>1, <2>4, <2>10, <2>13, <3>4, <3>5, <3>6 DEF Listed
      <3>8. HistoryComplete'
        BY <3>1 DEF HistoryComplete
      <3> QED
        BY <1>3, <3>7, <3>8 DEF PagesInv
    <2> QED
      BY <2>3, <2>15, <2>16 DEF wTransCnt
  <1> QED
    BY <1>4, <1>5

LEMMA NextKeepsHistory ==
  ASSUME LogFits, ClientInv, HistoryInv, [ClientNext]_clientVars
  PROVE  HistoryInv'
  <1> USE DEF consoleVars, listVars, netVars, tellVars
  <1>1. RecordsCounted'
    BY CountedKeeps DEF HistoryInv
  <1>2. UNCHANGED tables /\ session' = session => Own(session) \subseteq Own(session)'
    BY DEF Own, tables
  <1>3. CASE ReadOption
    <2>1. inbox = NONE /\ step' \in {"exited", "menu", "call"} /\ inbox' = inbox
          /\ (step' = "menu" => cInputOption' = "help")
      BY <1>3 DEF ReadOption, ClientInv, ConversationInv
    <2>2. ~Paging'
      BY <2>1 DEF Paging
    <2>3. HistoryComplete'
      BY <2>1 DEF HistoryComplete
    <2> QED
      BY <1>1, <2>2, <2>3 DEF HistoryInv, PagesInv
  <1>4. CASE Call
    BY <1>1, <1>4, CallBegins DEF HistoryInv
  <1>5. CASE Send
    <2>1. /\ step = "send" /\ step' \in {"receive", "killed"} /\ inbox = NONE
          /\ UNCHANGED <<tables, cInputOption, order, before, shown, dwStartID, g_szBuffer, session,
                         answered, inbox>>
      BY <1>5 DEF Send, ClientInv, ConversationInv
    <2>2. Answers' \subseteq Answers
      BY <2>1 DEF Answers
    <2> QED
      BY <1>1, <1>2, <2>1, <2>2, HistoryStays DEF HistoryInv
  <1>6. CASE Receive
    <2>1. /\ step = "receive" /\ step' = "report" /\ inbox' = NONE
          /\ UNCHANGED <<tables, cInputOption, before, shown, dwStartID, session>>
          /\ answered' => answered /\ inbox # NONE /\ g_szBuffer' = inbox
      BY <1>6 DEF Receive, ClientInv, ConversationInv
    <2>2. answered' => Answers' \subseteq Answers
      BY <2>1 DEF Answers
    <2>3. HistoryComplete'
      BY <2>1 DEF HistoryComplete
    <2>4. ASSUME Paging'
          PROVE  Listed' /\ \A resp \in Answers' : Succeeded(resp.result) => PageOf(resp.ids)'
      <3>1. Paging /\ Answers' \subseteq Answers
        BY <2>1, <2>2, <2>4 DEF Paging
      <3>2. Listed /\ \A resp \in Answers : Succeeded(resp.result) => PageOf(resp.ids)
        BY <3>1 DEF HistoryInv, PagesInv
      <3>3. (Listed => Listed') /\ \A page : PageOf(page) => PageOf(page)'
        BY <1>2, <2>1, PagesStay
      <3> QED
        BY <3>1, <3>2, <3>3
    <2> QED
      BY <1>1, <2>3, <2>4 DEF HistoryInv, PagesInv
  <1>7. CASE Report
    BY <1>1, <1>7, ReportLists DEF HistoryInv
  <1>8. CASE Serve
    BY <1>1, <1>8, ServeAnswers DEF HistoryInv
  <1>9. CASE Others
    <2>1. UNCHANGED <<step, cInputOption, order, before, shown, dwStartID, g_szBuffer, session,
                      answered, inbox>>
      BY <1>9 DEF Others
    <2>2. Own(session) \subseteq Own(session)'
      BY <1>9, <2>1, OthersKeep, OwnGrows DEF ClientInv
    <2>3. Answers' \subseteq Answers
      BY <2>1 DEF Answers
    <2> QED
      BY <1>1, <2>1, <2>2, <2>3, HistoryStays DEF HistoryInv
  <1>10. CASE ServerEnds \/ UNCHANGED clientVars
    <2>1. UNCHANGED <<tables, step, cInputOption, order, before, shown, dwStartID, g_szBuffer,
                      session, answered, inbox>>
      BY <1>10 DEF ServerEnds, clientVars
    <2>2. Answers' \subseteq Answers
      BY <2>1 DEF Answers
    <2> QED
      BY <1>1, <1>2, <2>1, <2>2, HistoryStays DEF HistoryInv
  <1> QED
    BY <1>3, <1>4, <1>5, <1>6, <1>7, <1>8, <1>9, <1>10 DEF ClientNext, ClientStep, Finished

LEMMA HistoryInitInv ==
  LogFits /\ ClientInit => HistoryInv
  <1> SUFFICES ASSUME LogFits, ClientInit
               PROVE  HistoryInv
    OBVIOUS
  <1>1. RecordsCounted
    <2>1. Cardinality(DOMAIN log) \in Nat /\ Cardinality(DOMAIN log) <= MaxRecords
      BY ClientAssumption, FS_CardinalityType DEF ClientInit, LogOfCustomers, LogFits
    <2>2. commands = 0 /\ step # "call" /\ ~Charging
      BY DEF ClientInit, Charging
    <2> QED
      BY <2>1, <2>2, ClientAssumption DEF RecordsCounted
  <1>2. ~Paging /\ HistoryComplete
    BY DEF ClientInit, Paging, HistoryComplete
  <1> QED
    BY <1>1, <1>2 DEF HistoryInv, PagesInv

\* What the pages have in common: the list holds the account's records below
\* the start of the next page, the page on its way those from there on.
THEOREM HistoryInvariance ==
  LogFits /\ ClientSpec => []HistoryInv
  <1>1. LogFits /\ ClientInv /\ HistoryInv /\ [ClientNext]_clientVars => HistoryInv'
    BY NextKeepsHistory
  <1>2. LogFits => LogFits'
    BY DEF LogFits
  <1> QED
    BY <1>1, <1>2, HistoryInitInv, ClientInvariance, PTL DEF ClientSpec

\* The history a user gets to see (SendTransaction, page by page) has every
\* record the account had when it was asked for, each once, in order and none
\* of another account, whatever the other clients add between two pages.
THEOREM HistoryIsComplete ==
  LogFits /\ ClientSpec => []HistoryComplete
  <1>1. HistoryInv => HistoryComplete
    BY DEF HistoryInv
  <1> QED
    BY <1>1, HistoryInvariance, PTL

=============================================================================
