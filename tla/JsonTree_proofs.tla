---------------------------- MODULE JsonTree_proofs ----------------------------
(***************************************************************************)
(* Proofs about JsonTree: for any documents, queries and page size, and    *)
(* any sequence of presses, keys and searches, however long.               *)
(***************************************************************************)
EXTENDS JsonTree, DataLemmas

(***************************************************************************)
(* The order of the document, on any set of paths.                         *)
(***************************************************************************)
LEMMA PrefixIs ==
  ASSUME NEW p \in Seq(Nat), NEW q \in Seq(Nat)
  PROVE  IsStrictPrefix(p, q) <=> Len(p) < Len(q) /\ \A i \in 1..Len(p) : p[i] = q[i]
<1> DEFINE a == Len(p)
           b == Len(q)
           start == SubSeq(q, 1, a)
<1>1. a \in Nat /\ b \in Nat
  BY LenProperties
<1>2. SubSeq(p, 1, a) = p
  BY SubSeqFull
<1>3. a <= b => /\ start \in Seq(Nat) /\ Len(start) = a
                /\ \A i \in 1..a : start[i] = q[i]
  <2> HAVE a <= b
  <2>1. \A i \in 1..a : q[i] \in Nat
    <3>1. 1..a \subseteq 1..b
      BY <1>1
    <3> QED BY <3>1, ElementOfSeq
  <2> HIDE DEF a
  <2>2. /\ start \in Seq(Nat) /\ Len(start) = IF 1 <= a THEN a - 1 + 1 ELSE 0
        /\ \A i \in 1..(a - 1 + 1) : start[i] = q[1 + i - 1]
    BY <1>1, <2>1, SubSeqProperties
  <2>3. Len(start) = a
    BY <1>1, <2>2
  <2>4. \A i \in 1..a : start[i] = q[i]
    BY <1>1, <2>2
  <2> QED BY <2>2, <2>3, <2>4
<1>4. a <= b => (p = start <=> \A i \in 1..a : p[i] = q[i])
  <2> HAVE a <= b
  <2> HIDE DEF start
  <2>1. p = start => \A i \in 1..a : p[i] = q[i]
    BY <1>3
  <2>2. (\A i \in 1..a : p[i] = q[i]) => p = start
    BY <1>3, SeqEqual
  <2> QED BY <2>1, <2>2
<1>5. a = b => (p = start <=> p = q)
  <2> HAVE a = b
  <2>1. SubSeq(q, 1, b) = q
    BY SubSeqFull
  <2> QED BY <2>1
<1>6. IsStrictPrefix(p, q) <=> a <= b /\ p = start /\ p # q
  BY <1>2 DEF IsStrictPrefix, IsPrefix
<1>7. p = q => a = b
  OBVIOUS
<1> HIDE DEF a, b, start
<1>8. IsStrictPrefix(p, q) <=> a < b /\ p = start
  BY <1>1, <1>5, <1>6, <1>7
<1>9. IsStrictPrefix(p, q) <=> a < b /\ \A i \in 1..a : p[i] = q[i]
  BY <1>1, <1>4, <1>8
<1> QED BY <1>9 DEF a, b

(* p and q agree on their first n positions, and p comes first from there.  *)
Splits(p, q, n) ==
  /\ n \in Nat /\ n <= Len(p) /\ n < Len(q)
  /\ \A i \in 1..n : p[i] = q[i]
  /\ n = Len(p) \/ p[n + 1] < q[n + 1]

LEMMA PrecedesIs ==
  ASSUME NEW p \in Seq(Nat), NEW q \in Seq(Nat)
  PROVE  Precedes(p, q) <=> \E n : Splits(p, q, n)
<1>1. Len(p) \in Nat /\ Len(q) \in Nat /\ DOMAIN p = 1..Len(p) /\ DOMAIN q = 1..Len(q)
  BY LenProperties
<1>2. ASSUME IsStrictPrefix(p, q) PROVE Splits(p, q, Len(p))
  BY <1>1, <1>2, PrefixIs DEF Splits
<1>3. ASSUME NEW k \in DOMAIN p \cap DOMAIN q, p[k] < q[k], \A j \in 1..(k - 1) : p[j] = q[j]
      PROVE  Splits(p, q, k - 1)
  <2>1. k - 1 \in Nat /\ k - 1 <= Len(p) /\ k - 1 < Len(q) /\ (k - 1) + 1 = k
    BY <1>1
  <2> QED BY <1>3, <2>1 DEF Splits
<1>4. ASSUME NEW n, Splits(p, q, n) PROVE Precedes(p, q)
  <2>1. CASE n = Len(p)
    BY <1>4, <2>1, PrefixIs DEF Splits, Precedes
  <2>2. CASE n # Len(p)
    <3>a. n \in Nat /\ n <= Len(p) /\ n < Len(q) /\ p[n + 1] < q[n + 1]
      BY <1>4, <2>2 DEF Splits
    <3>b. n < Len(p)
      <4>1. n \in Nat /\ n <= Len(p) /\ Len(p) \in Nat
        BY <1>1, <3>a
      <4> QED BY <2>2, <4>1
    <3>0. n \in Nat /\ n < Len(p) /\ n < Len(q) /\ p[n + 1] < q[n + 1]
      BY <3>a, <3>b
    <3>1. n + 1 \in DOMAIN p \cap DOMAIN q /\ (n + 1) - 1 = n /\ p[n + 1] < q[n + 1]
      BY <1>1, <3>0
    <3>2. \A j \in 1..((n + 1) - 1) : p[j] = q[j]
      BY <1>4, <3>0, <3>1 DEF Splits
    <3> QED BY <3>1, <3>2 DEF Precedes
  <2> QED BY <2>1, <2>2
<1> QED BY <1>2, <1>3, <1>4 DEF Precedes

LEMMA PrecedesOnce == ASSUME NEW p \in Seq(Nat) PROVE ~Precedes(p, p)
<1> SUFFICES ASSUME NEW n, Splits(p, p, n) PROVE FALSE
  BY PrecedesIs
<1>1. Len(p) \in Nat /\ n \in Nat /\ n < Len(p) /\ p[n + 1] < p[n + 1]
  BY LenProperties DEF Splits
<1>2. p[n + 1] \in Nat
  BY <1>1, ElementOfSeq
<1> QED BY <1>1, <1>2

LEMMA PrecedesFurther ==
  ASSUME NEW p \in Seq(Nat), NEW q \in Seq(Nat), NEW r \in Seq(Nat), Precedes(p, q), Precedes(q, r)
  PROVE  Precedes(p, r)
<1>1. PICK n : Splits(p, q, n)
  BY PrecedesIs
<1>2. PICK m : Splits(q, r, m)
  BY PrecedesIs
<1>3. Len(p) \in Nat /\ Len(q) \in Nat /\ Len(r) \in Nat /\ n \in Nat /\ m \in Nat
  BY <1>1, <1>2, LenProperties DEF Splits
<1>4. \A i \in Nat : /\ i < Len(p) => p[i + 1] \in Nat
                     /\ i < Len(q) => q[i + 1] \in Nat
                     /\ i < Len(r) => r[i + 1] \in Nat
  <2> SUFFICES ASSUME NEW i \in Nat
               PROVE  /\ i < Len(p) => i + 1 \in 1..Len(p)
                      /\ i < Len(q) => i + 1 \in 1..Len(q)
                      /\ i < Len(r) => i + 1 \in 1..Len(r)
    BY ElementOfSeq
  <2> QED BY <1>3
<1>5. CASE n < m
  <2>1. n < Len(r) /\ n < Len(q) /\ q[n + 1] = r[n + 1] /\ \A i \in 1..n : p[i] = r[i]
    <3>1. n + 1 \in 1..m /\ 1..n \subseteq 1..m
      BY <1>3, <1>5
    <3> QED BY <1>1, <1>2, <1>3, <1>5, <3>1 DEF Splits
  <2>2. Splits(p, r, n)
    BY <1>1, <2>1 DEF Splits
  <2> QED BY <2>2, PrecedesIs
<1>6. CASE m <= n
  <2>1. m < Len(q) /\ m <= Len(p) /\ \A i \in 1..m : p[i] = r[i]
    <3>1. 1..m \subseteq 1..n
      BY <1>3, <1>6
    <3> QED BY <1>1, <1>2, <1>3, <1>6, <3>1 DEF Splits
  <2>2. q[m + 1] < r[m + 1] /\ m < Len(r)
    BY <1>2, <1>3, <2>1 DEF Splits
  <2>3. m = Len(p) \/ p[m + 1] < r[m + 1]
    <3>1. CASE m = Len(p)
      BY <3>1
    <3>2. CASE m = n /\ m # Len(p)
      BY <1>1, <1>3, <1>4, <2>1, <2>2, <3>2 DEF Splits
    <3>3. CASE m < n
      <4>1. m + 1 \in 1..n
        BY <1>3, <3>3
      <4>2. p[m + 1] = q[m + 1]
        BY <1>1, <4>1 DEF Splits
      <4> QED BY <2>2, <4>2
    <3> QED BY <1>3, <1>6, <3>1, <3>2, <3>3
  <2>4. Splits(p, r, m)
    BY <1>3, <2>1, <2>2, <2>3 DEF Splits
  <2> QED BY <2>4, PrecedesIs
<1> QED BY <1>3, <1>5, <1>6

LEMMA PrecedesOneWay ==
  ASSUME NEW p \in Seq(Nat), NEW q \in Seq(Nat), p # q
  PROVE  Precedes(p, q) \/ Precedes(q, p)
<1> DEFINE a == Len(p)
           b == Len(q)
<1>1. a \in Nat /\ b \in Nat
  BY LenProperties
<1>2. PICK n \in 0..a : /\ n <= b /\ \A i \in 1..n : p[i] = q[i]
                        /\ n = a \/ n = b \/ p[n + 1] # q[n + 1]
  <2>1. Agrees(a, b, p, q)
    BY <1>1, Agree
  <2> QED BY <2>1 DEF Agrees
<1>3. CASE n = a /\ n = b
  BY <1>2, <1>3, SeqEqual
<1>4. CASE n = a /\ n < b
  <2>1. Splits(p, q, n)
    BY <1>1, <1>2, <1>4 DEF Splits
  <2> QED BY <2>1, PrecedesIs
<1>5. CASE n < a /\ n = b
  <2>1. Splits(q, p, n)
    BY <1>1, <1>2, <1>5 DEF Splits
  <2> QED BY <2>1, PrecedesIs
<1>6. CASE n < a /\ n < b
  <2>1. n + 1 \in 1..a /\ n + 1 \in 1..b
    BY <1>1, <1>2, <1>6
  <2>2. p[n + 1] \in Nat /\ q[n + 1] \in Nat /\ p[n + 1] # q[n + 1]
    BY <1>1, <1>2, <1>6, <2>1, ElementOfSeq
  <2>3. Splits(p, q, n) \/ Splits(q, p, n)
    BY <1>1, <1>2, <1>6, <2>2 DEF Splits
  <2> QED BY <2>3, PrecedesIs
<1> QED BY <1>1, <1>2, <1>3, <1>4, <1>5, <1>6

RowOrder == {w \in Seq(Nat) \X Seq(Nat) : Precedes(w[1], w[2])}

(* The rows of a finite set have each its place, and each place its row.    *)
HasPlaces(S) ==
  /\ \A x \in S : Rank(x, S) \in 0..(Cardinality(S) - 1)
  /\ \A x, y \in S : Rank(x, S) = Rank(y, S) => x = y
  /\ \A k \in 0..(Cardinality(S) - 1) : InOrder(k, S) \in S

LEMMA Places == ASSUME NEW S \in SUBSET Seq(Nat), IsFiniteSet(S) PROVE HasPlaces(S)
<1>1. \A x, y \in S : <<x, y>> \in RowOrder <=> Precedes(x, y)
  BY DEF RowOrder
<1>2. Orders(RowOrder, S)
  <2>1. \A x \in S : <<x, x>> \notin RowOrder
    BY <1>1, PrecedesOnce
  <2>2. \A x, y, z \in S : <<x, y>> \in RowOrder /\ <<y, z>> \in RowOrder => <<x, z>> \in RowOrder
    BY <1>1, PrecedesFurther
  <2>3. \A x, y \in S : x # y => <<x, y>> \in RowOrder \/ <<y, x>> \in RowOrder
    BY <1>1, PrecedesOneWay
  <2> QED BY <2>1, <2>2, <2>3 DEF Orders
<1>3. ASSUME NEW x \in S PROVE Rank(x, S) = Cardinality(Before(RowOrder, S, x))
  <2>1. {q \in S : Precedes(q, x)} = Before(RowOrder, S, x)
    BY <1>1 DEF Before
  <2> QED BY <2>1 DEF Rank
<1>4. IsNumbered(RowOrder, S)
  BY <1>2, Numbered
<1>5. \A x \in S : Rank(x, S) \in 0..(Cardinality(S) - 1)
  BY <1>3, <1>4 DEF IsNumbered
<1>6. \A x, y \in S : Rank(x, S) = Rank(y, S) => x = y
  BY <1>3, <1>4 DEF IsNumbered
<1>7. ASSUME NEW k \in 0..(Cardinality(S) - 1) PROVE InOrder(k, S) \in S
  <2>1. \E x \in S : Rank(x, S) = k
    BY <1>3, <1>4 DEF IsNumbered
  <2> QED BY <2>1 DEF InOrder
<1> QED BY <1>5, <1>6, <1>7 DEF HasPlaces

(***************************************************************************)
(* The document.                                                           *)
(***************************************************************************)
(* A branch and a position name a row below it.                             *)
LEMMA AppendIs ==
  ASSUME NEW f \in Seq(Nat), NEW i \in Nat
  PROVE  /\ Append(f, i) \in Seq(Nat) /\ Len(Append(f, i)) = Len(f) + 1
         /\ Append(f, i) # Root /\ Last(Append(f, i)) = i
         /\ Front(Append(f, i)) = f
         /\ \A j \in 1..Len(f) : Append(f, i)[j] = f[j]
         /\ \A k \in 1..Len(f) : SubSeq(Append(f, i), 1, k - 1) = SubSeq(f, 1, k - 1)
         /\ SubSeq(Append(f, i), 1, Len(f)) = f
<1> DEFINE r == Append(f, i)
           n == Len(f)
<1>1. /\ r \in Seq(Nat) /\ Len(r) = n + 1 /\ r # <<>>
      /\ \A j \in 1..n : r[j] = f[j]
      /\ r[n + 1] = i /\ n \in Nat
  BY AppendProperties, LenProperties
<1>2. ASSUME NEW k \in 0..n PROVE SubSeq(r, 1, k) = SubSeq(f, 1, k)
  <2> HIDE DEF r, n
  <2>1. 1 \in Int /\ k \in Int /\ k - 1 + 1 = k
    BY <1>1
  <2>2. \A j \in 1..k : r[j] \in Nat /\ f[j] \in Nat /\ r[j] = f[j] /\ 1 + j - 1 = j
    <3>1. 1..k \subseteq 1..n
      BY <1>1
    <3> QED BY <1>1, <3>1, ElementOfSeq DEF n
  <2> DEFINE s == SubSeq(r, 1, k)
             t == SubSeq(f, 1, k)
  <2>3. /\ s \in Seq(Nat) /\ Len(s) = IF 1 <= k THEN k - 1 + 1 ELSE 0
        /\ \A j \in 1..(k - 1 + 1) : s[j] = r[1 + j - 1]
    BY <2>1, <2>2, SubSeqProperties
  <2>4. /\ t \in Seq(Nat) /\ Len(t) = IF 1 <= k THEN k - 1 + 1 ELSE 0
        /\ \A j \in 1..(k - 1 + 1) : t[j] = f[1 + j - 1]
    BY <2>1, <2>2, SubSeqProperties
  <2> HIDE DEF s, t
  <2>5. Len(s) = k /\ Len(t) = k
    BY <2>1, <2>3, <2>4
  <2>6. \A j \in 1..k : s[j] = t[j]
    BY <2>1, <2>2, <2>3, <2>4
  <2>7. s = t
    BY <2>3, <2>4, <2>5, <2>6, SeqEqual
  <2> QED BY <2>7 DEF s, t
<1>3. SubSeq(f, 1, n) = f
  BY SubSeqFull
<1>4. SubSeq(r, 1, n) = f
  BY <1>1, <1>2, <1>3
<1>5. \A k \in 1..n : SubSeq(r, 1, k - 1) = SubSeq(f, 1, k - 1)
  <2> HIDE DEF n, r
  <2>1. \A k \in 1..n : k - 1 \in 0..n
    BY <1>1
  <2> QED BY <1>2, <2>1
<1>6. Front(r) = f
  <2>1. Len(r) - 1 = n
    BY <1>1
  <2> QED BY <1>4, <2>1 DEF Front
<1>7. Last(r) = i
  BY <1>1 DEF Last
<1> QED BY <1>1, <1>4, <1>5, <1>6, <1>7 DEF Root

(* What is above a row that is not the root.                                *)
LEMMA FrontIs ==
  ASSUME NEW p \in Seq(Nat), p # Root
  PROVE  /\ Len(p) \in Nat \ {0} /\ Len(p) \in DOMAIN p
         /\ Front(p) = SubSeq(p, 1, Len(p) - 1) /\ Last(p) = p[Len(p)]
<1>1. Len(p) \in Nat \ {0} /\ DOMAIN p = 1..Len(p)
  BY EmptySeq, LenProperties DEF Root
<1> QED BY <1>1 DEF Front, Last

DocOK ==
  /\ IsFiniteSet(doc.nodes) /\ doc.nodes \subseteq Seq(Nat)
  /\ Root \in doc.nodes /\ doc.branches \subseteq doc.nodes
  /\ \A p \in doc.nodes : \A k \in 1..Len(p) :
       /\ p[k] \in 1..(MoreRow - 1)
       /\ SubSeq(p, 1, k - 1) \in doc.branches
       /\ \A i \in 1..p[k] : Append(SubSeq(p, 1, k - 1), i) \in doc.nodes
  /\ \A n \in Needles : doc.hits[n] \subseteq doc.nodes

LEMMA DocIs == doc \in Documents => DocOK
<1> SUFFICES ASSUME doc \in Documents PROVE DocOK
  OBVIOUS
<1>1. IsDocument(doc) /\ MoreRow \in Nat
  BY JsonTreeAssumption
<1>2. 1..(MoreRow - 1) \subseteq Nat
  BY <1>1
<1>3. ASSUME NEW p \in doc.nodes PROVE p \in Seq(1..(MoreRow - 1)) /\ p \in Seq(Nat) /\ DOMAIN p = 1..Len(p)
  <2>1. p \in Seq(1..(MoreRow - 1))
    BY <1>1 DEF IsDocument
  <2> QED BY <1>2, <2>1, SeqMonotonic, LenProperties
<1>4. ASSUME NEW p \in doc.nodes, NEW k \in 1..Len(p)
      PROVE  /\ p[k] \in 1..(MoreRow - 1)
             /\ SubSeq(p, 1, k - 1) \in doc.branches
             /\ \A i \in 1..p[k] : Append(SubSeq(p, 1, k - 1), i) \in doc.nodes
  <2>1. p[k] \in 1..(MoreRow - 1)
    BY <1>3, ElementOfSeq
  <2>2. k \in DOMAIN p
    BY <1>3
  <2> QED BY <1>1, <2>1, <2>2 DEF IsDocument
<1> QED BY <1>1, <1>3, <1>4 DEF DocOK, IsDocument

(* A document has finitely many branches, and as many rows "Show more".     *)
MoreRows == {Append(f, MoreRow) : f \in doc.branches}

LEMMA RowsAre ==
  ASSUME doc \in Documents
  PROVE  IsFiniteSet(Rows) /\ Rows \subseteq doc.nodes \cup MoreRows /\ Rows \subseteq Seq(Nat)
<1>1. DocOK /\ MoreRow \in Nat
  BY DocIs, JsonTreeAssumption
<1>2. IsFiniteSet(MoreRows)
  <2> DEFINE g == [f \in doc.branches |-> Append(f, MoreRow)]
  <2>1. g \in Surjection(doc.branches, MoreRows)
    BY DEF Surjection, MoreRows
  <2>2. IsFiniteSet(doc.branches)
    BY <1>1, FS_Subset DEF DocOK
  <2> QED BY <2>1, <2>2, FS_Surjection
<1>3. IsFiniteSet(doc.nodes \cup MoreRows)
  BY <1>1, <1>2, FS_Union DEF DocOK
<1>4. Rows \in SUBSET (doc.nodes \cup MoreRows)
  BY DEF Rows, MoreRows
<1>5. MoreRows \subseteq Seq(Nat)
  BY <1>1, AppendIs DEF MoreRows, DocOK
<1> QED BY <1>1, <1>3, <1>4, <1>5, FS_Subset DEF DocOK

LEMMA AllRowsHas ==
  /\ \A d \in Documents : d.nodes \subseteq AllRows
  /\ \A f \in AllBranches : Append(f, MoreRow) \in AllRows
  /\ \A r \in AllRows : \/ \E d \in Documents : r \in d.nodes
                       \/ \E f \in AllBranches : r = Append(f, MoreRow)
<1> DEFINE N == UNION {d.nodes : d \in Documents}
           M == {Append(f, MoreRow) : f \in AllBranches}
<1>1. /\ \A d \in Documents : d.nodes \subseteq N
      /\ \A r \in N : \E d \in Documents : r \in d.nodes
  OBVIOUS
<1>2. /\ \A f \in AllBranches : Append(f, MoreRow) \in M
      /\ \A r \in M : \E f \in AllBranches : r = Append(f, MoreRow)
  OBVIOUS
<1>3. AllRows = N \cup M
  BY DEF AllRows
<1> HIDE DEF N, M
<1> QED BY <1>1, <1>2, <1>3

LEMMA AllRowsAre == AllRows \subseteq Seq(Nat) /\ AllBranches \subseteq AllRows
<1>1. MoreRow \in Nat /\ 1..(MoreRow - 1) \subseteq Nat
  BY JsonTreeAssumption
<1>2. ASSUME NEW d \in Documents PROVE d.nodes \subseteq Seq(Nat) /\ d.branches \subseteq d.nodes
  <2>1. IsDocument(d)
    BY JsonTreeAssumption
  <2>2. ASSUME NEW p \in d.nodes PROVE p \in Seq(Nat)
    <3>1. p \in Seq(1..(MoreRow - 1))
      BY <2>1 DEF IsDocument
    <3> QED BY <1>1, <3>1, SeqMonotonic
  <2> QED BY <2>1, <2>2 DEF IsDocument
<1>3. AllBranches \subseteq Seq(Nat) /\ AllBranches \subseteq AllRows
  BY <1>2, AllRowsHas DEF AllBranches
<1>4. ASSUME NEW r \in AllRows PROVE r \in Seq(Nat)
  <2>1. CASE \E d \in Documents : r \in d.nodes
    BY <1>2, <2>1
  <2>2. CASE \E f \in AllBranches : r = Append(f, MoreRow)
    BY <1>1, <1>3, <2>2, AppendIs
  <2> QED BY <2>1, <2>2, AllRowsHas
<1> QED BY <1>3, <1>4

LEMMA OnScreen ==
  ASSUME doc \in Documents
  PROVE  /\ doc.nodes \subseteq AllRows /\ Rows \subseteq AllRows
         /\ doc.branches \subseteq AllBranches /\ Root \in AllRows
<1>1. doc.nodes \subseteq AllRows /\ doc.branches \subseteq AllBranches
  BY DEF AllRows, AllBranches
<1>2. MoreRows \subseteq AllRows
  <2> SUFFICES ASSUME NEW f \in doc.branches PROVE Append(f, MoreRow) \in AllRows
    BY DEF MoreRows
  <2>1. f \in AllBranches
    BY <1>1
  <2> QED BY <2>1, AllRowsHas
<1>3. Root \in doc.nodes
  BY DocIs DEF DocOK
<1> QED BY <1>1, <1>2, <1>3, RowsAre

(* What is above a row, "Show more" or other, is a branch.                  *)
LEMMA AboveIs ==
  ASSUME doc \in Documents, NEW r \in Rows, r # Root
  PROVE  Front(r) \in doc.branches
<1>1. DocOK /\ r \in Seq(Nat) /\ MoreRow \in Nat
  BY DocIs, RowsAre, JsonTreeAssumption
<1>2. CASE r \in doc.nodes
  <2>1. Front(r) = SubSeq(r, 1, Len(r) - 1) /\ Len(r) \in 1..Len(r)
    BY <1>1, FrontIs, LenProperties
  <2> QED BY <1>1, <1>2, <2>1 DEF DocOK
<1>3. CASE r \in MoreRows
  <2>1. PICK f \in doc.branches : r = Append(f, MoreRow)
    BY <1>3 DEF MoreRows
  <2>2. f \in Seq(Nat)
    BY <1>1 DEF DocOK
  <2>3. Front(r) = f
    BY <1>1, <2>1, <2>2, AppendIs
  <2> QED BY <2>3
<1> QED BY <1>2, <1>3, RowsAre

(***************************************************************************)
(* The search.                                                             *)
(***************************************************************************)
LEMMA MaxIs ==
  ASSUME NEW T \in SUBSET Nat, T # {}, NEW b \in Nat, \A m \in T : m <= b
  PROVE  Max(T) \in T /\ \A m \in T : m <= Max(T)
<1>1. PICK n \in T : \A m \in T : m <= n
  BY Greatest
<1>2. n \in T /\ \A m \in T : n >= m
  BY <1>1
<1>3. Max(T) \in T /\ \A m \in T : Max(T) >= m
  BY <1>2 DEF Max
<1> QED BY <1>3

(* A search counts no more than it may, and each of its matches has a place. *)
LEMMA MatchesAre ==
  ASSUME doc \in Documents, NEW n \in Needles \cup {NoNeedle}
  PROVE  /\ MatchesOf(n) \subseteq doc.nodes /\ IsFiniteSet(MatchesOf(n))
         /\ Cardinality(MatchesOf(n)) \in 0..MaxMatches
         /\ HasPlaces(MatchesOf(n))
<1> DEFINE found == MatchesOf(n)
<1>0. DocOK /\ MaxMatches \in Nat \ {0}
  BY DocIs, JsonTreeAssumption
<1>1. CASE n = NoNeedle
  <2>1. found = {} /\ found \in SUBSET Seq(Nat)
    BY <1>1 DEF MatchesOf
  <2>2. IsFiniteSet(found) /\ Cardinality(found) = 0
    BY <2>1, FS_EmptySet
  <2> HIDE DEF found
  <2>3. HasPlaces(found)
    BY <2>1, <2>2, Places
  <2> QED BY <1>0, <2>1, <2>2, <2>3 DEF found
<1>2. CASE n # NoNeedle
  <2> DEFINE hits == doc.hits[n]
             place == [m \in found |-> Rank(m, hits)]
  <2>1. hits \in SUBSET doc.nodes /\ found = {m \in hits : Rank(m, hits) < MaxMatches}
    BY <1>0, <1>2 DEF DocOK, MatchesOf
  <2> HIDE DEF hits, found
  <2>2. IsFiniteSet(hits) /\ hits \in SUBSET Seq(Nat) /\ found \in SUBSET hits
    BY <1>0, <2>1, FS_Subset DEF DocOK
  <2>3. IsFiniteSet(found) /\ found \in SUBSET Seq(Nat)
    BY <2>2, FS_Subset
  <2>4. HasPlaces(hits) /\ HasPlaces(found)
    BY <2>2, <2>3, Places
  <2>5. \A m \in found : Rank(m, hits) \in 0..(MaxMatches - 1)
    <3>1. Cardinality(hits) \in Nat
      BY <2>2, FS_CardinalityType
    <3>2. \A m \in hits : Rank(m, hits) \in Nat
      BY <2>4, <3>1 DEF HasPlaces
    <3> QED BY <1>0, <2>1, <3>2
  <2>6. place \in Injection(found, 0..(MaxMatches - 1))
    <3>1. place \in [found -> 0..(MaxMatches - 1)]
      BY <2>5
    <3>2. \A m, o \in found : place[m] = place[o] => m = o
      BY <2>2, <2>4 DEF HasPlaces
    <3> HIDE DEF place
    <3> QED BY <3>1, <3>2 DEF Injection, IsInjective
  <2>7. IsFiniteSet(0..(MaxMatches - 1)) /\ Cardinality(0..(MaxMatches - 1)) = MaxMatches
    <3>1. 0 \in Int /\ MaxMatches - 1 \in Int
      BY <1>0
    <3> QED BY <1>0, <3>1, FS_Interval
  <2>8. Cardinality(found) <= MaxMatches /\ Cardinality(found) \in Nat
    <3> HIDE DEF place
    <3> QED BY <2>3, <2>6, <2>7, FS_Injection, FS_CardinalityType
  <2> QED BY <1>0, <2>1, <2>2, <2>3, <2>4, <2>8 DEF found
<1> QED BY <1>1, <1>2

(* The pages of a branch reach its matches.                                 *)
LEMMA LimitIs ==
  ASSUME JsonTreeTypeOK, NEW f \in doc.branches
  PROVE  /\ LimitOf(f) \in Nat
         /\ \A m \in Matches : IsStrictPrefix(f, m) => m[Len(f) + 1] <= LimitOf(f)
<1> DEFINE below == {m[Len(f) + 1] : m \in {n \in Matches : IsStrictPrefix(f, n)}}
           loaded == pages[f] * PageSize
<1>0. DocOK /\ MoreRow \in Nat /\ PageSize \in Nat /\ doc \in Documents
  BY DocIs, JsonTreeAssumption DEF JsonTreeTypeOK
<1>1. Matches \subseteq doc.nodes
  BY <1>0, MatchesAre DEF Matches, JsonTreeTypeOK
<1>2. ASSUME NEW m \in Matches, IsStrictPrefix(f, m)
      PROVE  m[Len(f) + 1] \in 1..(MoreRow - 1)
  <2>1. m \in doc.nodes /\ m \in Seq(Nat) /\ f \in Seq(Nat)
    BY <1>0, <1>1 DEF DocOK
  <2>2. Len(f) < Len(m) /\ Len(f) \in Nat /\ Len(m) \in Nat
    BY <1>2, <2>1, PrefixIs, LenProperties
  <2>3. Len(f) + 1 \in 1..Len(m)
    BY <2>2
  <2> QED BY <1>0, <2>1, <2>3 DEF DocOK
<1>3. \A i \in below : i \in Nat /\ i <= MoreRow
  BY <1>0, <1>2
<1>4. Needed(f) = (IF below = {} THEN 0 ELSE Max(below))
  BY DEF Needed
<1>5. \A m \in Matches : IsStrictPrefix(f, m) => m[Len(f) + 1] \in below
  OBVIOUS
<1> HIDE DEF below
<1>6. Needed(f) \in Nat /\ \A i \in below : i <= Needed(f)
  <2>1. CASE below = {}
    BY <1>4, <2>1
  <2>2. CASE below # {}
    <3>1. below \in SUBSET Nat
      BY <1>3
    <3>2. Max(below) \in below /\ \A i \in below : i <= Max(below)
      BY <1>0, <1>3, <2>2, <3>1, MaxIs
    <3> QED BY <1>3, <1>4, <2>2, <3>2
  <2> QED BY <2>1, <2>2
<1>7. loaded \in Nat
  <2>1. f \in AllBranches
    BY <1>0, OnScreen
  <2>2. pages[f] \in Nat
    BY <2>1 DEF JsonTreeTypeOK
  <2> QED BY <1>0, <2>2
<1>8. LimitOf(f) = Max({loaded, Needed(f)})
  BY DEF LimitOf
<1> HIDE DEF loaded
<1>9. LimitOf(f) \in Nat /\ Needed(f) <= LimitOf(f)
  <2>1. {loaded, Needed(f)} \in SUBSET Nat /\ {loaded, Needed(f)} # {}
    BY <1>6, <1>7
  <2>2. loaded + Needed(f) \in Nat /\ \A m \in {loaded, Needed(f)} : m <= loaded + Needed(f)
    BY <1>6, <1>7
  <2>3. /\ Max({loaded, Needed(f)}) \in {loaded, Needed(f)}
        /\ \A m \in {loaded, Needed(f)} : m <= Max({loaded, Needed(f)})
    BY <2>1, <2>2, MaxIs
  <2> QED BY <1>8, <2>1, <2>3
<1>10. ASSUME NEW i \in below PROVE i <= LimitOf(f)
  <2>1. i \in Nat /\ i <= Needed(f)
    BY <1>3, <1>6
  <2> QED BY <1>6, <1>9, <2>1
<1> QED BY <1>5, <1>9, <1>10

(* What is above a position of a row.                                       *)
IsAbove(f, p, k) == f \in Seq(Nat) /\ Len(f) = k - 1 /\ IsStrictPrefix(f, p)

LEMMA PrefixOf ==
  ASSUME NEW p \in Seq(Nat), NEW k \in 1..Len(p)
  PROVE  IsAbove(SubSeq(p, 1, k - 1), p, k)
<1> DEFINE f == SubSeq(p, 1, k - 1)
<1>0. Len(p) \in Nat /\ k \in Nat /\ 1 \in Int /\ k - 1 \in Int /\ k - 1 < Len(p)
  BY LenProperties
<1>1. \A i \in 1..(k - 1) : p[i] \in Nat
  <2>1. 1..(k - 1) \subseteq 1..Len(p)
    BY <1>0
  <2> QED BY <2>1, ElementOfSeq
<1>2. /\ f \in Seq(Nat) /\ Len(f) = IF 1 <= k - 1 THEN (k - 1) - 1 + 1 ELSE 0
      /\ \A i \in 1..((k - 1) - 1 + 1) : f[i] = p[1 + i - 1]
  BY <1>0, <1>1, SubSeqProperties
<1> HIDE DEF f
<1>3. Len(f) = k - 1 /\ \A i \in 1..(k - 1) : f[i] = p[i]
  BY <1>0, <1>2
<1>4. IsStrictPrefix(f, p)
  BY <1>0, <1>2, <1>3, PrefixIs
<1> QED BY <1>2, <1>3, <1>4 DEF IsAbove, f

LEMMA MatchesShow ==
  ASSUME JsonTreeTypeOK, NEW m \in Matches, ~ \E f \in ClosedNow : IsStrictPrefix(f, m)
  PROVE  m \in Rows
<1>0. DocOK /\ MoreRow \in Nat /\ doc \in Documents
  BY DocIs, JsonTreeAssumption DEF JsonTreeTypeOK
<1>1. m \in doc.nodes /\ m \in Seq(Nat) /\ DOMAIN m = 1..Len(m)
  <2>1. Matches \subseteq doc.nodes
    BY <1>0, MatchesAre DEF Matches, JsonTreeTypeOK
  <2> QED BY <1>0, <2>1, LenProperties DEF DocOK
<1>2. ASSUME NEW k \in DOMAIN m
      PROVE  /\ SubSeq(m, 1, k - 1) \in doc.branches /\ IsOpen(SubSeq(m, 1, k - 1))
             /\ m[k] # MoreRow /\ m[k] <= LimitOf(SubSeq(m, 1, k - 1))
  <2> DEFINE f == SubSeq(m, 1, k - 1)
  <2>1. f \in doc.branches /\ m[k] \in 1..(MoreRow - 1)
    BY <1>0, <1>1, <1>2 DEF DocOK
  <2>2. IsAbove(f, m, k)
    BY <1>1, <1>2, PrefixOf
  <2> HIDE DEF f
  <2>3. f \in Ancestors /\ IsOpen(f)
    BY <2>1, <2>2 DEF Ancestors, IsOpen, IsAbove
  <2>4. m[k] <= LimitOf(f)
    <3>1. k \in Nat /\ Len(f) + 1 = k
      BY <1>1, <1>2, <2>2 DEF IsAbove
    <3>2. m[Len(f) + 1] <= LimitOf(f)
      BY <2>1, <2>2, LimitIs DEF IsAbove
    <3> QED BY <3>1, <3>2
  <2>5. m[k] # MoreRow
    BY <1>0, <2>1
  <2> QED BY <2>1, <2>3, <2>4, <2>5 DEF f
<1> QED BY <1>1, <1>2 DEF Rows

LEMMA ActiveShows == JsonTreeTypeOK => Active \in Rows
<1> SUFFICES ASSUME JsonTreeTypeOK, activeRaw \notin Rows PROVE Active \in Rows
  BY DEF Active
<1> DEFINE holds == {p \in Rows : ~IsMore(p) /\ (p = Root \/ Within(p, activeRaw))}
           lengths == {Len(p) : p \in holds}
           b == Len(activeRaw)
<1>0. DocOK /\ doc \in Documents /\ activeRaw \in Seq(Nat)
  BY DocIs, AllRowsAre DEF JsonTreeTypeOK
<1>1. Root \in holds
  <2>1. DOMAIN Root = {}
    BY DEF Root
  <2>2. Root \in Rows
    BY <1>0, <2>1 DEF Rows, DocOK
  <2> QED BY <2>2 DEF IsMore
<1>2. ASSUME NEW p \in holds PROVE Len(p) \in Nat /\ Len(p) <= b
  <2>1. p \in Seq(Nat) /\ Len(p) \in Nat /\ b \in Nat
    BY <1>0, RowsAre, LenProperties
  <2>2. CASE p = Root
    <3>1. Len(p) = 0
      BY <2>2 DEF Root
    <3> HIDE DEF b
    <3> QED BY <2>1, <3>1
  <2>3. CASE p = activeRaw
    <3>1. Len(p) = b
      BY <2>3
    <3> HIDE DEF b
    <3> QED BY <2>1, <3>1
  <2>4. CASE IsStrictPrefix(p, activeRaw)
    <3>1. Len(p) < b
      BY <1>0, <2>1, <2>4, PrefixIs
    <3> HIDE DEF b
    <3> QED BY <2>1, <3>1
  <2> QED BY <2>2, <2>3, <2>4 DEF Within
<1> HIDE DEF holds
<1>3. lengths \in SUBSET Nat /\ lengths # {} /\ b \in Nat /\ \A n \in lengths : n <= b
  <2>1. b \in Nat
    BY <1>0, LenProperties
  <2>2. \A n \in lengths : n \in Nat /\ n <= b
    BY <1>2
  <2>3. lengths # {}
    BY <1>1
  <2> QED BY <2>1, <2>2, <2>3
<1>4. PICK n \in lengths : \A o \in lengths : o <= n
  <2> HIDE DEF lengths, b
  <2> QED BY <1>3, Greatest
<1>5. \E p \in holds : \A q \in holds : Len(q) <= Len(p)
  BY <1>4
<1>6. Active = CHOOSE p \in holds : \A q \in holds : Len(q) <= Len(p)
  BY DEF Active, holds
<1>7. Active \in holds
  BY <1>5, <1>6
<1> QED BY <1>7 DEF holds

(* Every match is a row, unless a branch above it was closed, and so is the *)
(* current one: this rests on the types alone, whatever was pressed.        *)
LEMMA TypedIsVisible == JsonTreeTypeOK => MatchesAreVisible
BY MatchesShow, ActiveShows DEF MatchesAreVisible

(***************************************************************************)
(* Steps.                                                                  *)
(***************************************************************************)
LEMMA Quotient == ASSUME NEW a \in Nat, NEW n \in Nat \ {0} PROVE a \div n \in Nat
OBVIOUS

(* A step that changes nothing but what is open, what is loaded and what is *)
(* current.                                                                 *)
LEMMA RowsMove ==
  ASSUME JsonTreeTypeOK, UNCHANGED <<doc, needle>>, matchIndex' \in 0..MaxMatches,
         base' \subseteq AllBranches,
         closed' = closed \/ closed' \in [needle : {needle}, ids : SUBSET AllBranches],
         pages' \in [AllBranches -> Nat \ {0}], activeRaw' \in AllRows
  PROVE  JsonTreeTypeOK'
BY DEF JsonTreeTypeOK, AllBranches, AllRows

(* A row "Show more" is none of the document.                               *)
LEMMA MoreIsApart ==
  ASSUME doc \in Documents, NEW r, IsMore(r)
  PROVE  r \notin doc.nodes /\ r \notin doc.branches
<1> SUFFICES ASSUME r \in doc.nodes PROVE FALSE
  BY DocIs DEF DocOK
<1>1. DocOK /\ r \in Seq(Nat) /\ MoreRow \in Nat
  BY DocIs, JsonTreeAssumption DEF DocOK
<1>2. Len(r) \in 1..Len(r) /\ Last(r) = r[Len(r)] /\ Last(r) = MoreRow
  BY <1>1, FrontIs DEF IsMore
<1>3. r[Len(r)] \in 1..(MoreRow - 1)
  BY <1>1, <1>2 DEF DocOK
<1> QED BY <1>1, <1>2, <1>3

LEMMA ToggleOK ==
  ASSUME JsonTreeTypeOK, NEW f \in doc.branches, NEW want \in BOOLEAN, Toggle(f, want)
  PROVE  /\ base' \subseteq AllBranches
         /\ closed' = closed \/ closed' \in [needle : {needle}, ids : SUBSET AllBranches]
<1>1. f \in AllBranches /\ base \subseteq AllBranches /\ ClosedNow \subseteq AllBranches
  BY OnScreen DEF JsonTreeTypeOK, ClosedNow
<1>2. CASE f \in Ancestors
  BY <1>1, <1>2 DEF Toggle
<1>3. CASE f \notin Ancestors
  BY <1>1, <1>3 DEF Toggle
<1> QED BY <1>2, <1>3

LEMMA ShowMoreOK ==
  ASSUME JsonTreeTypeOK, NEW f \in doc.branches, ShowMore(f)
  PROVE  pages' \in [AllBranches -> Nat \ {0}]
<1> DEFINE reach == LimitOf(f) + PageSize - 1
<1>1. LimitOf(f) \in Nat /\ PageSize \in Nat \ {0}
  BY LimitIs, JsonTreeAssumption
<1>2. reach \in Nat
  BY <1>1
<1> HIDE DEF reach
<1>3. reach \div PageSize \in Nat
  BY <1>1, <1>2, Quotient
<1>4. reach \div PageSize + 1 \in Nat \ {0}
  BY <1>3
<1>5. pages' = [pages EXCEPT ![f] = reach \div PageSize + 1]
  BY DEF ShowMore, reach
<1> QED BY <1>4, <1>5 DEF JsonTreeTypeOK

LEMMA PressOK ==
  ASSUME JsonTreeTypeOK, NEW r \in Rows, Opens(r)
  PROVE  /\ base' \subseteq AllBranches
         /\ closed' = closed \/ closed' \in [needle : {needle}, ids : SUBSET AllBranches]
         /\ pages' \in [AllBranches -> Nat \ {0}]
<1>1. CASE IsMore(r)
  <2>1. Front(r) \in doc.branches
    BY <1>1, AboveIs DEF JsonTreeTypeOK, IsMore
  <2>2. ShowMore(Front(r)) /\ UNCHANGED <<base, closed>>
    BY <1>1, MoreIsApart DEF Opens, JsonTreeTypeOK
  <2> QED BY <2>1, <2>2, ShowMoreOK DEF JsonTreeTypeOK
<1>2. CASE ~IsMore(r) /\ r \in doc.branches
  <2>1. Toggle(r, ~IsOpen(r)) /\ UNCHANGED pages
    BY <1>2 DEF Opens
  <2>2. (~IsOpen(r)) \in BOOLEAN
    OBVIOUS
  <2> QED BY <1>2, <2>1, <2>2, ToggleOK DEF JsonTreeTypeOK
<1>3. CASE ~IsMore(r) /\ r \notin doc.branches
  BY <1>3 DEF Opens, JsonTreeTypeOK
<1> QED BY <1>1, <1>2, <1>3

(* The first child of a branch that has any is a row of the document.       *)
LEMMA FirstChild ==
  ASSUME doc \in Documents, NEW r \in doc.branches, Count(r) > 0
  PROVE  Append(r, 1) \in doc.nodes
<1> DEFINE children == {p \in doc.nodes : Len(p) = Len(r) + 1 /\ IsPrefix(r, p)}
<1>0. DocOK /\ r \in Seq(Nat) /\ Len(r) \in Nat
  BY DocIs, LenProperties DEF DocOK
<1>1. children # {}
  <2> SUFFICES ASSUME children = {} PROVE Count(r) = 0
    OBVIOUS
  <2> QED BY FS_EmptySet DEF Count
<1>2. PICK p \in doc.nodes : Len(p) = Len(r) + 1 /\ IsPrefix(r, p)
  BY <1>1
<1>3. SubSeq(p, 1, Len(r)) = r
  BY <1>0, <1>2, SubSeqFull DEF IsPrefix
<1>4. Len(p) \in 1..Len(p) /\ Len(p) - 1 = Len(r)
  BY <1>0, <1>2
<1>5. /\ p[Len(p)] \in 1..(MoreRow - 1)
      /\ \A i \in 1..p[Len(p)] : Append(SubSeq(p, 1, Len(p) - 1), i) \in doc.nodes
  BY <1>0, <1>4 DEF DocOK
<1>6. 1 \in 1..p[Len(p)]
  BY <1>5
<1> QED BY <1>3, <1>4, <1>5, <1>6

LEMMA TreeInitOK == JsonTreeInit => JsonTreeTypeOK
<1> SUFFICES ASSUME JsonTreeInit PROVE JsonTreeTypeOK
  OBVIOUS
<1>1. base \subseteq AllBranches /\ Root \in AllRows /\ MaxMatches \in Nat
  BY OnScreen, JsonTreeAssumption DEF JsonTreeInit, ToDepth
<1>2. 0 \in 0..MaxMatches
  BY <1>1
<1> QED BY <1>1, <1>2 DEF JsonTreeInit, JsonTreeTypeOK

LEMMA GoOK ==
  ASSUME JsonTreeTypeOK, NEW key \in {"ArrowDown", "ArrowUp", "Home", "End"}, Go(key)
  PROVE  activeRaw' \in Rows
<1> DEFINE rows == Rows
           index == Rank(Active, rows)
           count == Cardinality(rows)
<1>1. Active \in rows
  BY ActiveShows
<1>2. IsFiniteSet(rows) /\ rows \in SUBSET Seq(Nat)
  BY RowsAre DEF JsonTreeTypeOK
<1>3. HasPlaces(rows)
  BY <1>2, Places
<1>4. activeRaw' = CASE key = "ArrowDown" -> IF index = count - 1 THEN Active ELSE InOrder(index + 1, rows)
                     [] key = "ArrowUp" -> IF index = 0 THEN Active ELSE InOrder(index - 1, rows)
                     [] key = "Home" -> InOrder(0, rows)
                     [] key = "End" -> InOrder(count - 1, rows)
  BY DEF Go, MoveTo
<1> HIDE DEF rows
<1>5. index \in 0..(count - 1) /\ \A k \in 0..(count - 1) : InOrder(k, rows) \in rows
  BY <1>1, <1>3 DEF HasPlaces
<1>6. count \in Nat
  BY <1>2, FS_CardinalityType
<1> HIDE DEF index, count
<1>7. /\ index # count - 1 => index + 1 \in 0..(count - 1)
      /\ index # 0 => index - 1 \in 0..(count - 1)
      /\ 0 \in 0..(count - 1) /\ count - 1 \in 0..(count - 1)
  BY <1>5, <1>6
<1>8. activeRaw' \in rows
  BY <1>1, <1>4, <1>5, <1>7
<1> QED BY <1>8 DEF rows

LEMMA StepMatchOK ==
  ASSUME JsonTreeTypeOK, NEW forward \in BOOLEAN, StepMatch(forward)
  PROVE  matchIndex' \in 0..MaxMatches /\ activeRaw' \in AllRows
<1> DEFINE count == Cardinality(Matches)
           at == IF matchIndex < count THEN matchIndex ELSE count - 1
           sum == at + (IF forward THEN 1 ELSE count - 1)
           next == sum % count
<1>1. /\ Matches \subseteq doc.nodes /\ IsFiniteSet(Matches) /\ count \in 0..MaxMatches
      /\ HasPlaces(Matches) /\ MaxMatches \in Nat
  BY MatchesAre, JsonTreeAssumption DEF Matches, JsonTreeTypeOK
<1>2. Matches # {} /\ matchIndex' = next /\ activeRaw' = InOrder(next, Matches)
  BY DEF StepMatch, MoveTo
<1>3. count # 0
  BY <1>1, <1>2, FS_EmptySet
<1> HIDE DEF count
<1>4. count \in Nat \ {0} /\ count <= MaxMatches /\ matchIndex \in Nat
  BY <1>1, <1>3 DEF JsonTreeTypeOK
<1>5. at \in Nat
  BY <1>4
<1> HIDE DEF at
<1>6. sum \in Nat
  BY <1>4, <1>5
<1> HIDE DEF sum
<1>7. next \in 0..(count - 1)
  BY <1>4, <1>6, Remainder
<1> HIDE DEF next
<1>8. InOrder(next, Matches) \in Matches
  BY <1>1, <1>7 DEF HasPlaces, count
<1>9. next \in 0..MaxMatches
  BY <1>1, <1>4, <1>7
<1> QED BY <1>1, <1>2, <1>8, <1>9, OnScreen DEF JsonTreeTypeOK

LEMMA OnQueryOK ==
  ASSUME JsonTreeTypeOK, NEW n \in Needles \cup {NoNeedle}, OnQuery(n)
  PROVE  JsonTreeTypeOK'
<1> DEFINE found == MatchesOf(n)
<1>1. /\ found \subseteq doc.nodes /\ IsFiniteSet(found) /\ HasPlaces(found)
      /\ Cardinality(found) \in 0..MaxMatches /\ MaxMatches \in Nat
  BY MatchesAre, JsonTreeAssumption DEF JsonTreeTypeOK
<1>2. ASSUME found # {} PROVE InOrder(0, found) \in AllRows
  <2> HIDE DEF found
  <2>1. Cardinality(found) # 0
    BY <1>1, <1>2, FS_EmptySet
  <2>2. 0 \in 0..(Cardinality(found) - 1)
    BY <1>1, <2>1
  <2>3. InOrder(0, found) \in found
    BY <1>1, <2>2 DEF HasPlaces
  <2> QED BY <1>1, <2>3, OnScreen DEF JsonTreeTypeOK
<1>3. activeRaw' \in AllRows
  BY <1>2 DEF OnQuery, MoveTo, JsonTreeTypeOK
<1>4. 0 \in 0..MaxMatches
  BY <1>1
<1> QED BY <1>3, <1>4 DEF OnQuery, JsonTreeTypeOK, AllBranches, AllRows

LEMMA TreeStepOK == JsonTreeTypeOK /\ [JsonTreeNext]_treeVars => JsonTreeTypeOK'
<1> SUFFICES ASSUME JsonTreeTypeOK, [JsonTreeNext]_treeVars PROVE JsonTreeTypeOK'
  OBVIOUS
<1> USE DEF MoveTo
<1>0. /\ Active \in Rows /\ Rows \subseteq AllRows /\ doc.nodes \subseteq AllRows
      /\ doc.branches \subseteq AllBranches /\ Root \in AllRows /\ doc.branches \subseteq doc.nodes
      /\ doc \in Documents
  BY ActiveShows, OnScreen, DocIs DEF JsonTreeTypeOK, DocOK
<1>t. /\ base \subseteq AllBranches /\ matchIndex \in 0..MaxMatches
      /\ pages \in [AllBranches -> Nat \ {0}] /\ activeRaw \in AllRows
      /\ Ancestors \subseteq AllBranches
  BY <1>0 DEF JsonTreeTypeOK, Ancestors
<1>1. CASE ExpandAll
  <2>1. closed' \in [needle : {needle}, ids : SUBSET AllBranches]
    BY <1>1 DEF ExpandAll
  <2> QED BY <1>0, <1>t, <1>1, <2>1, RowsMove DEF ExpandAll
<1>2. CASE CollapseAll
  <2>1. closed' \in [needle : {needle}, ids : SUBSET AllBranches]
    BY <1>t, <1>2 DEF CollapseAll
  <2>2. pages' \in [AllBranches -> Nat \ {0}] /\ base' \subseteq AllBranches /\ activeRaw' \in AllRows
    BY <1>0, <1>2 DEF CollapseAll
  <2> QED BY <1>t, <1>2, <2>1, <2>2, RowsMove DEF CollapseAll
<1>3. CASE ArrowRight
  <2> DEFINE r == Active
  <2>1. r \in doc.branches /\ UNCHANGED <<doc, needle, matchIndex, pages>>
    BY <1>3 DEF ArrowRight
  <2>2. CASE ~IsOpen(r)
    <3>1. Toggle(r, TRUE) /\ UNCHANGED activeRaw
      BY <1>3, <2>2 DEF ArrowRight
    <3> QED BY <1>t, <2>1, <3>1, ToggleOK, RowsMove
  <2>3. CASE IsOpen(r)
    <3>1. Count(r) > 0 /\ activeRaw' = Append(r, 1) /\ UNCHANGED <<base, closed>>
      BY <1>3, <2>3 DEF ArrowRight
    <3>2. activeRaw' \in AllRows
      BY <1>0, <2>1, <3>1, FirstChild
    <3> QED BY <1>t, <2>1, <3>1, <3>2, RowsMove
  <2> QED BY <2>2, <2>3
<1>4. CASE ArrowLeft
  <2> DEFINE r == Active
  <2>1. UNCHANGED <<doc, needle, matchIndex, pages>>
    BY <1>4 DEF ArrowLeft
  <2>2. CASE r \in doc.branches /\ IsOpen(r)
    <3>1. Toggle(r, FALSE) /\ UNCHANGED activeRaw
      BY <1>4, <2>2 DEF ArrowLeft
    <3> QED BY <1>t, <2>1, <2>2, <3>1, ToggleOK, RowsMove
  <2>3. CASE ~(r \in doc.branches /\ IsOpen(r))
    <3>1. r # Root /\ activeRaw' = Front(r) /\ UNCHANGED <<base, closed>>
      BY <1>4, <2>3 DEF ArrowLeft
    <3>2. activeRaw' \in AllRows
      BY <1>0, <3>1, AboveIs
    <3> QED BY <1>t, <2>1, <3>1, <3>2, RowsMove
  <2> QED BY <2>2, <2>3
<1>5. CASE OpenCurrent
  BY <1>0, <1>t, <1>5, PressOK, RowsMove DEF OpenCurrent
<1>6. ASSUME NEW r \in Rows, ClickRow(r) PROVE JsonTreeTypeOK'
  BY <1>0, <1>t, <1>6, PressOK, RowsMove DEF ClickRow
<1>7. ASSUME NEW r \in Rows, FocusRow(r) PROVE JsonTreeTypeOK'
  BY <1>0, <1>t, <1>7, RowsMove DEF FocusRow
<1>8. ASSUME NEW key \in {"ArrowDown", "ArrowUp", "Home", "End"}, Go(key) PROVE JsonTreeTypeOK'
  BY <1>0, <1>t, <1>8, GoOK, RowsMove DEF Go
<1>9. ASSUME NEW forward \in BOOLEAN, StepMatch(forward) PROVE JsonTreeTypeOK'
  BY <1>t, <1>9, StepMatchOK, RowsMove DEF StepMatch
<1>10. ASSUME NEW n \in Needles \cup {NoNeedle}, OnQuery(n) PROVE JsonTreeTypeOK'
  BY <1>10, OnQueryOK
<1>11. ASSUME NEW key \in {"Escape", "Enter", "Shift+Enter", "ArrowDown"}, SearchKey(key)
       PROVE  JsonTreeTypeOK'
  <2>1. CASE key = "Escape"
    BY <1>10, <1>11, <2>1 DEF SearchKey
  <2>2. CASE key = "Enter"
    BY <1>9, <1>11, <2>2 DEF SearchKey
  <2>3. CASE key = "Shift+Enter"
    BY <1>9, <1>11, <2>3 DEF SearchKey
  <2>4. CASE key = "ArrowDown"
    BY <1>0, <1>t, <1>11, <2>4, RowsMove DEF SearchKey
  <2> QED BY <1>11, <2>1, <2>2, <2>3, <2>4
<1>12. ASSUME NEW d \in Documents, NewData(d) PROVE JsonTreeTypeOK'
  BY <1>12 DEF NewData, JsonTreeTypeOK, AllBranches, AllRows
<1>13. CASE UNCHANGED treeVars
  BY <1>13 DEF treeVars, JsonTreeTypeOK, AllBranches, AllRows
<1> QED BY <1>1, <1>2, <1>3, <1>4, <1>5, <1>6, <1>7, <1>8, <1>9, <1>10, <1>11, <1>12, <1>13
        DEF JsonTreeNext

(* The tree keeps its types: the row last made current is one that some     *)
(* document has, whichever is shown now.                                    *)
THEOREM TreeTypes == JsonTreeSpec => []JsonTreeTypeOK
<1>1. JsonTreeInit => JsonTreeTypeOK
  BY TreeInitOK
<1>2. JsonTreeTypeOK /\ [JsonTreeNext]_treeVars => JsonTreeTypeOK'
  BY TreeStepOK
<1> QED BY <1>1, <1>2, PTL DEF JsonTreeSpec

(* A search shows what it counts, on whatever page and in whatever branch,  *)
(* but under a branch closed since, and the current row is on the screen:   *)
(* for every document, page size and limit of the search (json-viewer.tsx:  *)
(* searchJson, the rows and the active row).                                *)
THEOREM MatchesAreAlwaysVisible == JsonTreeSpec => []MatchesAreVisible
<1>1. JsonTreeTypeOK => MatchesAreVisible
  BY TypedIsVisible
<1> QED BY <1>1, TreeTypes, PTL
================================================================================
