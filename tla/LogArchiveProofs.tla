--------------------------- MODULE LogArchiveProofs ---------------------------
(***************************************************************************)
(* Proofs about the local history. The tables are behind by what the batch *)
(* and the queue hold, so the inductive invariant says where these lead:   *)
(* each record under way takes the row it is about to another, and the     *)
(* last one to the row that is owed. What a batch does to the tables, and  *)
(* what a queue weighs, are folds over sequences of any length: the first  *)
(* part turns them into what one item adds to the items before it.         *)
(***************************************************************************)
EXTENDS LogArchive, FiniteSetTheorems, SequenceTheorems, TLAPS

------------------------------------------------------------------------------
(* Folds. The library's induction theorems are about operators; a smallest     *)
(* counterexample is a set, and does as well.                                  *)

\* A family of sets of numbers up to N that is not empty has a smallest member, in
\* the sense that no other member is inside it.
LEMMA SmallestMember ==
    ASSUME NEW N \in Nat, NEW B, B # {}, \A T \in B : T \subseteq 0..N
    PROVE  \E M \in B : \A U \in B : U \subseteq M => U = M
<1>1. IsFiniteSet(0..N)
    <2>1. 0 \in Int /\ N \in Int OBVIOUS
    <2> QED BY <2>1, FS_Interval
<1>2. IsWellFoundedOn(StrictSubsetOrdering(0..N), SUBSET (0..N))
    BY <1>1, FS_StrictSubsetOrderingWellFounded, FS_FiniteSubsetsOfFinite
<1>3. B \subseteq SUBSET (0..N) OBVIOUS
<1>4. PICK M \in B : \A U \in B : ~(<<U, M>> \in StrictSubsetOrdering(0..N))
    BY <1>2, <1>3, WFMin
<1> QED BY <1>3, <1>4 DEF StrictSubsetOrdering

\* A set of numbers up to N that is not empty has a smallest and a largest one.
LEMMA Smallest ==
    ASSUME NEW N \in Nat, NEW T \in SUBSET (0..N), T # {}
    PROVE  \E m \in T : \A k \in T : m <= k
<1> DEFINE B == {0..k : k \in T}
<1>1. B # {} /\ \A U \in B : U \subseteq 0..N
    <2>1. \A k \in T : 0..k \subseteq 0..N OBVIOUS
    <2> QED BY <2>1
<1>2. PICK M \in B : \A U \in B : U \subseteq M => U = M
    <2> HIDE DEF B
    <2> QED BY <1>1, SmallestMember
<1>3. PICK m \in T : M = 0..m BY <1>2
<1>4. ASSUME NEW k \in T, k < m PROVE FALSE
    <2>1. 0..k \in B /\ 0..k \subseteq M BY <1>3, <1>4
    <2>2. 0..k = 0..m BY <1>2, <1>3, <2>1
    <2>3. m \in 0..m /\ m \notin 0..k BY <1>4
    <2> QED BY <2>2, <2>3
<1> QED BY <1>4

LEMMA MaxIn ==
    ASSUME NEW N \in Nat, NEW T \in SUBSET (1..N), T # {}
    PROVE  Max(T) \in T /\ \A k \in T : Max(T) >= k
<1> DEFINE D == {N - k : k \in T}
<1>1. D \in SUBSET (0..N) /\ D # {}
    <2>1. \A k \in T : N - k \in 0..N OBVIOUS
    <2> QED BY <2>1
<1>2. PICK d \in D : \A e \in D : d <= e
    <2> HIDE DEF D
    <2> QED BY <1>1, Smallest
<1>3. PICK m \in T : d = N - m BY <1>2
<1>4. \A k \in T : m >= k BY <1>2, <1>3
<1> QED BY <1>4 DEF Max

\* s folds f over every subset of S, in the order in which FoldLeft does; f maps what
\* it has so far, and an index, to what it has next.
Folds(s, f, base, S) ==
    s = [T \in SUBSET S |-> IF T = {} THEN base ELSE f[<<s[T \ {Max(T)}], Max(T)>>]]

Indices(T) == \E N \in Nat : T \in SUBSET (1..N)

LEMMA FoldsOnce ==
    ASSUME NEW f, NEW base, NEW R, Indices(R), NEW S \in SUBSET R,
           NEW s, NEW t, Folds(s, f, base, R), Folds(t, f, base, S)
    PROVE  s[S] = t[S]
<1>. PICK N \in Nat : R \in SUBSET (1..N)
    BY DEF Indices
<1> DEFINE B == {T \in SUBSET S : s[T] # t[T]}
<1> SUFFICES ASSUME B # {} PROVE FALSE
    OBVIOUS
<1>1. PICK M \in B : \A U \in B : U \subseteq M => U = M
    <2>1. \A U \in B : U \subseteq 0..N
        OBVIOUS
    <2> HIDE DEF B
    <2> QED BY <2>1, SmallestMember
<1>2. \A T \in SUBSET S :
          /\ s[T] = IF T = {} THEN base ELSE f[<<s[T \ {Max(T)}], Max(T)>>]
          /\ t[T] = IF T = {} THEN base ELSE f[<<t[T \ {Max(T)}], Max(T)>>]
    BY DEF Folds
<1>3. M # {}
    BY <1>2
<1>4. M \ {Max(M)} \notin B
    BY <1>1, <1>3, MaxIn
<1> QED BY <1>2, <1>3, <1>4

LEMMA FoldsExist ==
    ASSUME NEW f, NEW base, NEW N \in Nat
    PROVE  \E s : Folds(s, f, base, 1..N)
<1> DEFINE B == {T \in SUBSET (1..N) : ~ \E s : Folds(s, f, base, T)}
<1> SUFFICES ASSUME B # {} PROVE FALSE
    OBVIOUS
<1>1. PICK M \in B : \A U \in B : U \subseteq M => U = M
    <2>1. \A U \in B : U \subseteq 0..N
        OBVIOUS
    <2> HIDE DEF B
    <2> QED BY <2>1, SmallestMember
<1> DEFINE r(T) == CHOOSE s : Folds(s, f, base, T)
           v(T) == IF T = {} THEN base ELSE f[<<r(T \ {Max(T)})[T \ {Max(T)}], Max(T)>>]
           s == [T \in SUBSET M |-> v(T)]
<1>2. \A T \in SUBSET M : T # M => Folds(r(T), f, base, T)
    <2> SUFFICES ASSUME NEW T \in SUBSET M, T # M PROVE \E x : Folds(x, f, base, T)
        OBVIOUS
    <2> QED BY <1>1
<1>3. \A T \in SUBSET M : T # M => r(T)[T] = v(T)
    <2> SUFFICES ASSUME NEW T \in SUBSET M, T # M PROVE r(T)[T] = v(T)
        OBVIOUS
    <2>1. Folds(r(T), f, base, T)
        BY <1>2
    <2>2. r(T)[T] = IF T = {} THEN base ELSE f[<<r(T)[T \ {Max(T)}], Max(T)>>]
        BY <2>1 DEF Folds
    <2>3. CASE T = {}
        BY <2>2, <2>3
    <2>4. CASE T # {}
        <3> DEFINE U == T \ {Max(T)}
        <3>1. U \in SUBSET M /\ U # M /\ U \in SUBSET T /\ Indices(T)
            BY <2>4, MaxIn DEF Indices
        <3>2. Folds(r(U), f, base, U)
            BY <1>2, <3>1
        <3>3. r(T)[U] = r(U)[U]
            <4> HIDE DEF U, r, v, s, B
            <4> QED BY <2>1, <3>1, <3>2, FoldsOnce
        <3> QED BY <2>2, <2>4, <3>3
    <2> QED BY <2>3, <2>4
<1>4. \A T \in SUBSET M : v(T) = IF T = {} THEN base ELSE f[<<s[T \ {Max(T)}], Max(T)>>]
    <2> SUFFICES ASSUME NEW T \in SUBSET M
                 PROVE  v(T) = IF T = {} THEN base ELSE f[<<s[T \ {Max(T)}], Max(T)>>]
        OBVIOUS
    <2>1. CASE T = {}
        BY <2>1
    <2>2. CASE T # {}
        <3> DEFINE U == T \ {Max(T)}
        <3>1. U \in SUBSET M /\ U # M
            BY <2>2, MaxIn
        <3>2. s[U] = v(U)
            <4> HIDE DEF v
            <4> QED BY <3>1
        <3>3. r(U)[U] = v(U)
            <4> HIDE DEF r, v
            <4> QED BY <1>3, <3>1
        <3>4. v(T) = f[<<r(U)[U], Max(T)>>]
            BY <2>2
        <3> HIDE DEF v, r, s
        <3> QED BY <2>2, <3>2, <3>3, <3>4
    <2> QED BY <2>1, <2>2
<1>5. Folds(s, f, base, M)
    <2> HIDE DEF v
    <2> QED BY <1>4 DEF Folds
<1> QED BY <1>1, <1>5

\* A fold of values of D is one.
LEMMA FoldsStayIn ==
    ASSUME NEW f, NEW D, NEW base \in D, NEW N \in Nat, NEW s, Folds(s, f, base, 1..N),
           \A x \in D, i \in 1..N : f[<<x, i>>] \in D
    PROVE  \A T \in SUBSET (1..N) : s[T] \in D
<1> DEFINE B == {T \in SUBSET (1..N) : s[T] \notin D}
<1> SUFFICES ASSUME B # {} PROVE FALSE
    OBVIOUS
<1>1. PICK M \in B : \A U \in B : U \subseteq M => U = M
    <2>1. \A U \in B : U \subseteq 0..N
        OBVIOUS
    <2> HIDE DEF B
    <2> QED BY <2>1, SmallestMember
<1>2. s[M] = IF M = {} THEN base ELSE f[<<s[M \ {Max(M)}], Max(M)>>]
    BY DEF Folds
<1>3. M # {}
    BY <1>2
<1>4. Max(M) \in M /\ Max(M) \in 1..N
    BY <1>3, MaxIn
<1>5. M \ {Max(M)} \notin B
    BY <1>1, <1>4
<1> QED BY <1>2, <1>3, <1>4, <1>5

LEMMA UpToN ==
    ASSUME NEW N \in Nat, NEW n \in 1..N
    PROVE  1..n # {} /\ Max(1..n) = n /\ (1..n) \ {n} = 1..(n - 1)
<1>1. n \in 1..n /\ \A k \in 1..n : n >= k /\ k \in Nat OBVIOUS
<1>2. Max(1..n) \in 1..n /\ \A k \in 1..n : Max(1..n) >= k
    BY <1>1, MaxIn
<1>3. Max(1..n) = n BY <1>1, <1>2
<1>4. (1..n) \ {n} = 1..(n - 1) OBVIOUS
<1> QED BY <1>1, <1>3, <1>4

------------------------------------------------------------------------------
(* The bytes of a queue, item by item. *)

Bytes(item) == IF item = None THEN 0 ELSE Files(item)

Records ==
    [operation : {"log", "delivery"}, about : Logs, row : Status]
        \cup [operation : {"message"}, about : Messages, row : Snapshot]
        \cup [operation : {"delete_messages"}, about : Messages, row : {None}]
Items == Records \cup {None}

LEMMA Constants ==
    /\ Messages \cap Logs = {} /\ Aging \subseteq Things
    /\ QueueSize \in Nat /\ QueueSize > 0 /\ BatchSize \in Nat /\ BatchSize > 0
    /\ Attachments \in Nat /\ FileLimit \in Nat /\ MaxVersion \in Nat
    /\ None \notin Snapshot /\ None \notin Status /\ None \notin Records
<1>1. /\ Messages \cap Logs = {} /\ Aging \subseteq Things
      /\ QueueSize \in Nat /\ QueueSize > 0 /\ BatchSize \in Nat /\ BatchSize > 0
      /\ Attachments \in Nat /\ FileLimit \in Nat /\ MaxVersion \in Nat
    BY ArchiveAssumption DEF Things
<1>2. None \notin Snapshot /\ None \notin Status BY NoneAssumption
<1>3. Records \subseteq [operation : {"log", "delivery", "message", "delete_messages"},
                         about : Things, row : Snapshot \cup Status \cup {None}]
    BY DEF Records, Things
<1> QED BY <1>1, <1>2, <1>3, NoneAssumption

LEMMA BytesTyped == \A item \in Items : Bytes(item) \in Nat
<1> SUFFICES ASSUME NEW item \in Items, item # None PROVE Files(item) \in Nat
    BY DEF Bytes
<1>1. CASE item.operation = "message"
  <2>1. item \in [operation : {"message"}, about : Messages, row : Snapshot]
      BY <1>1 DEF Items, Records
  <2>2. item.row.files \in 0..Attachments BY <2>1 DEF Snapshot
  <2> QED BY <1>1, <2>2, Constants DEF Files
<1> QED BY <1>1 DEF Files

Sums(s, q) ==
    s = [T \in SUBSET DOMAIN q |->
            IF T = {} THEN 0 ELSE s[T \ {Max(T)}] + Bytes(q[Max(T)])]

LEMMA FilesAreSums == ASSUME NEW q PROVE FilesIn(q) = (CHOOSE s : Sums(s, q))[DOMAIN q]
BY DEF FilesIn, FoldLeft, MapThenFoldSet, Sums, Bytes

LEMMA SumsExist ==
    ASSUME NEW q \in Seq(Items)
    PROVE  \E s : Sums(s, q)
<1> DEFINE N == Len(q)
           f == [p \in Nat \X (1..N) |-> p[1] + Bytes(q[p[2]])]
<1>1. N \in Nat /\ DOMAIN q = 1..N /\ \A i \in 1..N : q[i] \in Items
    OBVIOUS
<1>2. \A n \in Nat, i \in 1..N : f[<<n, i>>] = n + Bytes(q[i]) /\ f[<<n, i>>] \in Nat
  <2> SUFFICES ASSUME NEW n \in Nat, NEW i \in 1..N
               PROVE  n + Bytes(q[i]) \in Nat
      OBVIOUS
  <2>1. Bytes(q[i]) \in Nat BY <1>1, BytesTyped
  <2> QED BY <2>1
<1> HIDE DEF f, N
<1>3. PICK s : Folds(s, f, 0, 1..N) BY <1>1, FoldsExist
<1>4. \A T \in SUBSET (1..N) : s[T] \in Nat BY <1>1, <1>2, <1>3, FoldsStayIn
<1>5. \A T \in SUBSET (1..N) : T # {} => T \ {Max(T)} \in SUBSET (1..N) /\ Max(T) \in 1..N
    BY <1>1, MaxIn
<1>6. \A T \in SUBSET (1..N) :
         s[T] = IF T = {} THEN 0 ELSE s[T \ {Max(T)}] + Bytes(q[Max(T)])
    BY <1>2, <1>3, <1>4, <1>5 DEF Folds
<1>7. s = [T \in SUBSET (1..N) |-> s[T]] BY <1>3 DEF Folds
<1>8. Sums(s, q) BY <1>1, <1>6, <1>7 DEF Sums
<1> QED BY <1>8

\* h[n] is the number of bytes of the first n items of q.
Counts(h, q) ==
    /\ h[0] = 0 /\ \A n \in 0..Len(q) : h[n] \in Nat
    /\ \A n \in 1..Len(q) : h[n] = h[n - 1] + Bytes(q[n])

LEMMA FilesUnfold ==
    ASSUME NEW q \in Seq(Items)
    PROVE  \E h : Counts(h, q) /\ FilesIn(q) = h[Len(q)]
<1> DEFINE N == Len(q)
           s == CHOOSE t : Sums(t, q)
           h == [n \in 0..N |-> s[1..n]]
<1>1. N \in Nat /\ DOMAIN q = 1..N /\ \A i \in 1..N : q[i] \in Items
    OBVIOUS
<1>2. Sums(s, q) BY SumsExist
<1>3. s[{}] = 0 BY <1>2 DEF Sums
<1>4. FilesIn(q) = s[1..N] BY <1>1, FilesAreSums
<1>5. ASSUME NEW n \in 1..N PROVE s[1..n] = s[1..(n - 1)] + Bytes(q[n])
  <2>1. 1..n \in SUBSET (1..N) BY <1>1
  <2>2. s[1..n] = s[(1..n) \ {Max(1..n)}] + Bytes(q[Max(1..n)])
    <3>1. 1..n # {} BY <1>1, UpToN
    <3> HIDE DEF s
    <3> QED BY <1>1, <1>2, <2>1, <3>1 DEF Sums
  <2> HIDE DEF s
  <2> QED BY <1>1, <2>2, UpToN
<1> HIDE DEF s
<1>6. \A n \in 1..N : h[n] = h[n - 1] + Bytes(q[n])
  <2> SUFFICES ASSUME NEW n \in 1..N PROVE h[n] = h[n - 1] + Bytes(q[n])
      OBVIOUS
  <2>1. n \in 0..N /\ n - 1 \in 0..N BY <1>1
  <2> QED BY <1>5, <2>1
<1>7. h[0] = 0
  <2>1. 1..0 = {} OBVIOUS
  <2> QED BY <1>1, <1>3, <2>1
<1>8. h[N] = FilesIn(q) BY <1>1, <1>4
<1> HIDE DEF h
<1>9. \A n \in 0..N : h[n] \in Nat
  <2> DEFINE C == {n \in 0..N : h[n] \notin Nat}
  <2> SUFFICES ASSUME C # {} PROVE FALSE OBVIOUS
  <2>1. PICK m \in C : \A k \in C : m <= k
    <3>1. C \in SUBSET (0..N) OBVIOUS
    <3> HIDE DEF C
    <3> QED BY <1>1, <3>1, Smallest
  <2>2. m # 0 BY <1>7
  <2>3. m \in 1..N /\ m - 1 \in 0..N /\ m - 1 < m BY <1>1, <2>2
  <2>4. h[m - 1] \in Nat BY <2>1, <2>3
  <2>5. Bytes(q[m]) \in Nat BY <1>1, <2>3, BytesTyped
  <2> QED BY <1>6, <2>3, <2>4, <2>5
<1> QED BY <1>6, <1>7, <1>8, <1>9 DEF Counts

\* There is one way to count.
LEMMA CountsGiveFiles ==
    ASSUME NEW q \in Seq(Items), NEW h, Counts(h, q)
    PROVE  FilesIn(q) = h[Len(q)]
<1> DEFINE N == Len(q)
<1>1. N \in Nat OBVIOUS
<1>2. PICK g : Counts(g, q) /\ FilesIn(q) = g[Len(q)] BY FilesUnfold
<1> DEFINE C == {n \in 0..N : h[n] # g[n]}
<1>3. C = {}
  <2> SUFFICES ASSUME C # {} PROVE FALSE OBVIOUS
  <2>1. PICK m \in C : \A k \in C : m <= k
    <3>1. C \in SUBSET (0..N) OBVIOUS
    <3> HIDE DEF C, N
    <3> QED BY <1>1, <3>1, Smallest
  <2>2. m # 0 BY <1>2 DEF Counts
  <2>3. m \in 1..N /\ m - 1 \in 0..N /\ m - 1 < m BY <1>1, <2>2
  <2>4. h[m - 1] = g[m - 1] BY <2>1, <2>3
  <2>5. h[m] = h[m - 1] + Bytes(q[m]) /\ g[m] = g[m - 1] + Bytes(q[m])
      BY <1>2, <2>3 DEF Counts
  <2> QED BY <2>4, <2>5
<1>4. N \in 0..N BY <1>1
<1> QED BY <1>2, <1>3, <1>4

LEMMA FilesAreNat == ASSUME NEW q \in Seq(Items) PROVE FilesIn(q) \in Nat
<1>1. PICK h : Counts(h, q) /\ FilesIn(q) = h[Len(q)] BY FilesUnfold
<1>2. Len(q) \in 0..Len(q) OBVIOUS
<1> QED BY <1>1, <1>2 DEF Counts

LEMMA FilesOfNothing == FilesIn(<<>>) = 0
<1>1. <<>> \in Seq(Items) /\ Len(<<>>) = 0 OBVIOUS
<1>2. PICK h : Counts(h, <<>>) /\ FilesIn(<<>>) = h[Len(<<>>)] BY <1>1, FilesUnfold
<1> QED BY <1>1, <1>2 DEF Counts

LEMMA FilesOfAppend ==
    ASSUME NEW q \in Seq(Items), NEW item \in Items
    PROVE  FilesIn(Append(q, item)) = FilesIn(q) + Bytes(item)
<1> DEFINE a == Append(q, item)
           N == Len(q)
<1>1. /\ a \in Seq(Items) /\ N \in Nat /\ Len(a) = N + 1 /\ a[N + 1] = item
      /\ \A n \in 1..N : a[n] = q[n]
    OBVIOUS
<1> HIDE DEF a
<1>2. PICK h : Counts(h, a) /\ FilesIn(a) = h[Len(a)] BY <1>1, FilesUnfold
<1>3. h[N + 1] = h[N] + Bytes(item)
  <2>1. N + 1 \in 1..Len(a) /\ (N + 1) - 1 = N BY <1>1
  <2> QED BY <1>1, <1>2, <2>1 DEF Counts
<1>4. Counts(h, q)
  <2>1. \A n \in 0..N : n \in 0..Len(a) BY <1>1
  <2>2. \A n \in 1..N : n \in 1..Len(a) BY <1>1
  <2> QED BY <1>1, <1>2, <2>1, <2>2 DEF Counts
<1>5. FilesIn(q) = h[N] BY <1>4, CountsGiveFiles
<1> QED BY <1>1, <1>2, <1>3, <1>5 DEF a

LEMMA FilesOfConcat ==
    ASSUME NEW p \in Seq(Items), NEW q \in Seq(Items)
    PROVE  FilesIn(p \o q) = FilesIn(p) + FilesIn(q)
<1> DEFINE c == p \o q
           K == Len(p)
           N == Len(q)
<1>1. /\ c \in Seq(Items) /\ K \in Nat /\ N \in Nat /\ Len(c) = K + N
      /\ \A n \in 1..K : c[n] = p[n]
      /\ \A n \in 1..N : c[K + n] = q[n]
    OBVIOUS
<1> HIDE DEF c, K, N
<1>2. PICK h : Counts(h, c) /\ FilesIn(c) = h[Len(c)] BY <1>1, FilesUnfold
<1>3. Counts(h, p)
  <2>1. \A n \in 0..K : n \in 0..Len(c) BY <1>1
  <2>2. \A n \in 1..K : n \in 1..Len(c) BY <1>1
  <2> QED BY <1>1, <1>2, <2>1, <2>2 DEF Counts, K
<1>4. FilesIn(p) = h[K] BY <1>3, CountsGiveFiles DEF K
<1> DEFINE g == [n \in 0..N |-> h[K + n] - h[K]]
<1>5. \A n \in 0..N : K + n \in 0..Len(c) /\ h[K + n] \in Nat
  <2>1. \A n \in 0..N : K + n \in 0..Len(c) BY <1>1
  <2> QED BY <1>2, <2>1 DEF Counts
<1>6. h[K] \in Nat
  <2>1. K \in 0..Len(c) BY <1>1
  <2> QED BY <1>2, <2>1 DEF Counts
<1>7. \A n \in 1..N : h[K + n] = h[K + (n - 1)] + Bytes(q[n])
  <2> SUFFICES ASSUME NEW n \in 1..N PROVE h[K + n] = h[K + (n - 1)] + Bytes(q[n])
      OBVIOUS
  <2>1. K + n \in 1..Len(c) /\ (K + n) - 1 = K + (n - 1) BY <1>1
  <2> QED BY <1>1, <1>2, <2>1 DEF Counts
<1>8. \A n \in 1..N : Bytes(q[n]) \in Nat
    BY BytesTyped DEF N
<1>9. g[0] = 0 BY <1>1, <1>6
<1>10. \A n \in 1..N : g[n] = g[n - 1] + Bytes(q[n])
  <2> SUFFICES ASSUME NEW n \in 1..N PROVE g[n] = g[n - 1] + Bytes(q[n])
      OBVIOUS
  <2>1. n \in 0..N /\ n - 1 \in 0..N BY <1>1
  <2>2. g[n] = h[K + n] - h[K] /\ g[n - 1] = h[K + (n - 1)] - h[K] BY <2>1
  <2>3. h[K + n] \in Nat /\ h[K + (n - 1)] \in Nat /\ Bytes(q[n]) \in Nat BY <1>5, <1>8, <2>1
  <2>4. h[K + n] = h[K + (n - 1)] + Bytes(q[n]) BY <1>7
  <2> HIDE DEF g
  <2> QED BY <1>6, <2>2, <2>3, <2>4
<1>11. g[N] = h[K + N] - h[K] BY <1>1
<1> HIDE DEF g
<1>12. \A n \in 0..N : g[n] \in Nat
  <2> DEFINE C == {n \in 0..N : g[n] \notin Nat}
  <2> SUFFICES ASSUME C # {} PROVE FALSE OBVIOUS
  <2>1. PICK m \in C : \A k \in C : m <= k
    <3>1. C \in SUBSET (0..N) OBVIOUS
    <3> HIDE DEF C
    <3> QED BY <1>1, <3>1, Smallest
  <2>2. m # 0 BY <1>9
  <2>3. m \in 1..N /\ m - 1 \in 0..N /\ m - 1 < m BY <1>1, <2>2
  <2>4. g[m - 1] \in Nat BY <2>1, <2>3
  <2> QED BY <1>8, <1>10, <2>3, <2>4
<1>13. Counts(g, q) BY <1>9, <1>10, <1>12 DEF Counts, N
<1>14. FilesIn(q) = g[N] BY <1>13, CountsGiveFiles DEF N
<1>15. h[K + N] \in Nat
  <2>1. N \in 0..N BY <1>1
  <2> QED BY <1>5, <2>1
<1>16. FilesIn(c) = h[K + N] BY <1>1, <1>2
<1> QED BY <1>4, <1>6, <1>11, <1>14, <1>15, <1>16 DEF c

------------------------------------------------------------------------------
(* The tables after a batch. *)

Rows == {None} \cup Snapshot \cup Status
Tables == [Things -> Rows]

LEMMA ExecutedTyped ==
    ASSUME NEW table \in Tables, NEW item \in Records
    PROVE  Executed(table, item) \in Tables
<1>1. item.row \in Rows BY DEF Records, Rows
<1>2. item.about \in Things BY DEF Records, Things
<1>3. [table EXCEPT ![item.about] = item.row] \in Tables BY <1>1 DEF Tables
<1> QED BY <1>3 DEF Executed

Writes(s, table, q) ==
    s = [T \in SUBSET DOMAIN q |->
            IF T = {} THEN table ELSE Executed(s[T \ {Max(T)}], q[Max(T)])]

LEMMA WrittenIsFold == Written = (CHOOSE s : Writes(s, Table, batch))[DOMAIN batch]
BY DEF Written, FoldLeft, MapThenFoldSet, Writes

LEMMA WritesExist ==
    ASSUME NEW q \in Seq(Records), NEW table \in Tables
    PROVE  \E s : Writes(s, table, q)
<1> DEFINE N == Len(q)
           f == [p \in Tables \X (1..N) |-> Executed(p[1], q[p[2]])]
<1>1. N \in Nat /\ DOMAIN q = 1..N /\ \A i \in 1..N : q[i] \in Records
    OBVIOUS
<1>2. \A t \in Tables, i \in 1..N : f[<<t, i>>] = Executed(t, q[i]) /\ f[<<t, i>>] \in Tables
  <2> SUFFICES ASSUME NEW t \in Tables, NEW i \in 1..N
               PROVE  Executed(t, q[i]) \in Tables
      OBVIOUS
  <2> QED BY <1>1, ExecutedTyped
<1> HIDE DEF f, N
<1>3. PICK s : Folds(s, f, table, 1..N) BY <1>1, FoldsExist
<1>4. \A T \in SUBSET (1..N) : s[T] \in Tables BY <1>1, <1>2, <1>3, FoldsStayIn
<1>5. \A T \in SUBSET (1..N) : T # {} => T \ {Max(T)} \in SUBSET (1..N) /\ Max(T) \in 1..N
    BY <1>1, MaxIn
<1>6. \A T \in SUBSET (1..N) :
         s[T] = IF T = {} THEN table ELSE Executed(s[T \ {Max(T)}], q[Max(T)])
    BY <1>2, <1>3, <1>4, <1>5 DEF Folds
<1>7. s = [T \in SUBSET (1..N) |-> s[T]] BY <1>3 DEF Folds
<1>8. Writes(s, table, q) BY <1>1, <1>6, <1>7 DEF Writes
<1> QED BY <1>8

\* The tables after the first n records of the batch.
LEMMA WrittenUnfolds ==
    ASSUME batch \in Seq(Records), Table \in Tables
    PROVE  \E h : /\ h[0] = Table /\ h[Len(batch)] = Written
                  /\ \A n \in 0..Len(batch) : h[n] \in Tables
                  /\ \A n \in 1..Len(batch) : h[n] = Executed(h[n - 1], batch[n])
<1> DEFINE N == Len(batch)
           s == CHOOSE t : Writes(t, Table, batch)
           h == [n \in 0..N |-> s[1..n]]
<1>1. N \in Nat /\ DOMAIN batch = 1..N /\ \A i \in 1..N : batch[i] \in Records
    OBVIOUS
<1>2. Writes(s, Table, batch) BY WritesExist
<1>3. s[{}] = Table BY <1>2 DEF Writes
<1>4. Written = s[1..N] BY <1>1, WrittenIsFold
<1>5. ASSUME NEW n \in 1..N PROVE s[1..n] = Executed(s[1..(n - 1)], batch[n])
  <2>1. 1..n \in SUBSET (1..N) BY <1>1
  <2>2. s[1..n] = Executed(s[(1..n) \ {Max(1..n)}], batch[Max(1..n)])
    <3>1. 1..n # {} BY <1>1, UpToN
    <3> HIDE DEF s
    <3> QED BY <1>1, <1>2, <2>1, <3>1 DEF Writes
  <2> HIDE DEF s
  <2> QED BY <1>1, <2>2, UpToN
<1> HIDE DEF s
<1>6. \A n \in 1..N : h[n] = Executed(h[n - 1], batch[n])
  <2> SUFFICES ASSUME NEW n \in 1..N PROVE h[n] = Executed(h[n - 1], batch[n])
      OBVIOUS
  <2>1. n \in 0..N /\ n - 1 \in 0..N BY <1>1
  <2> QED BY <1>5, <2>1
<1>7. h[0] = Table
  <2>1. 1..0 = {} OBVIOUS
  <2> QED BY <1>1, <1>3, <2>1
<1>8. h[N] = Written BY <1>1, <1>4
<1> HIDE DEF h
<1>9. \A n \in 0..N : h[n] \in Tables
  <2> DEFINE C == {n \in 0..N : h[n] \notin Tables}
  <2> SUFFICES ASSUME C # {} PROVE FALSE OBVIOUS
  <2>1. PICK m \in C : \A k \in C : m <= k
    <3>1. C \in SUBSET (0..N) OBVIOUS
    <3> HIDE DEF C
    <3> QED BY <1>1, <3>1, Smallest
  <2>2. m # 0 BY <1>7
  <2>3. m \in 1..N /\ m - 1 \in 0..N /\ m - 1 < m BY <1>1, <2>2
  <2>4. h[m - 1] \in Tables BY <2>1, <2>3
  <2> QED BY <1>1, <1>6, <2>3, <2>4, ExecutedTyped
<1> QED BY <1>6, <1>7, <1>8, <1>9

------------------------------------------------------------------------------
(* What a queue does to the row of one message or log. *)

After(x, row, item) ==
    IF \/ item = None \/ item.about # x
       \/ item.operation = "log" /\ row # None
       \/ item.operation = "delivery" /\ row = None
    THEN row ELSE item.row

\* The items of q take the row of x from first to last.
Leads(x, first, q, last) ==
    \E h : /\ h[0] = first /\ h[Len(q)] = last
           /\ \A n \in 1..Len(q) : h[n] = After(x, h[n - 1], q[n])

LEMMA ExecutedIsAfter ==
    ASSUME NEW table \in Tables, NEW item \in Records, NEW x \in Things
    PROVE  Executed(table, item)[x] = After(x, table[x], item)
<1>1. item # None BY Constants
<1>2. item.about \in Things BY DEF Records, Things
<1> QED BY <1>1, <1>2 DEF Executed, After, Tables

LEMMA LeadsNowhere ==
    ASSUME NEW x, NEW first, NEW last
    PROVE  Leads(x, first, <<>>, last) <=> first = last
<1>1. Len(<<>>) = 0 /\ 1..0 = {} OBVIOUS
<1>2. Leads(x, first, <<>>, last) => first = last BY <1>1 DEF Leads
<1>3. ASSUME first = last PROVE Leads(x, first, <<>>, last)
  <2> DEFINE h == [n \in {0} |-> first]
  <2>1. h[0] = first OBVIOUS
  <2> HIDE DEF h
  <2> QED BY <1>1, <1>3, <2>1 DEF Leads
<1> QED BY <1>2, <1>3

LEMMA LeadsOn ==
    ASSUME NEW x, NEW first, NEW last, NEW q \in Seq(Items), NEW item \in Items,
           Leads(x, first, q, last)
    PROVE  Leads(x, first, Append(q, item), After(x, last, item))
<1> DEFINE a == Append(q, item)
           N == Len(q)
<1>1. /\ N \in Nat /\ Len(a) = N + 1 /\ a[N + 1] = item
      /\ \A n \in 1..N : a[n] = q[n]
    OBVIOUS
<1> HIDE DEF a, N
<1>2. PICK h : /\ h[0] = first /\ h[N] = last
               /\ \A n \in 1..N : h[n] = After(x, h[n - 1], q[n])
    BY DEF Leads, N
<1> DEFINE g == [n \in 0..(N + 1) |-> IF n = N + 1 THEN After(x, last, item) ELSE h[n]]
<1>3. g[0] = first /\ g[N] = last /\ g[N + 1] = After(x, last, item)
    BY <1>1, <1>2
<1>4. \A n \in 0..N : g[n] = h[n] BY <1>1
<1> HIDE DEF g
<1>5. \A n \in 1..(N + 1) : g[n] = After(x, g[n - 1], a[n])
  <2> SUFFICES ASSUME NEW n \in 1..(N + 1) PROVE g[n] = After(x, g[n - 1], a[n])
      OBVIOUS
  <2>1. CASE n = N + 1
    <3>1. n - 1 = N BY <1>1, <2>1
    <3> QED BY <1>1, <1>3, <2>1, <3>1
  <2>2. CASE n # N + 1
    <3>1. n \in 1..N /\ n \in 0..N /\ n - 1 \in 0..N BY <1>1, <2>2
    <3> QED BY <1>1, <1>2, <1>4, <3>1
  <2> QED BY <2>1, <2>2
<1>6. Leads(x, first, a, After(x, last, item)) BY <1>1, <1>3, <1>5 DEF Leads
<1> QED BY <1>6 DEF a

\* What leads somewhere leads to what comes before its last item.
LEMMA LeadsBack ==
    ASSUME NEW x, NEW first, NEW last, NEW q \in Seq(Items), NEW item \in Items,
           Leads(x, first, Append(q, item), last)
    PROVE  \E mid : Leads(x, first, q, mid) /\ last = After(x, mid, item)
<1> DEFINE a == Append(q, item)
           N == Len(q)
<1>1. /\ N \in Nat /\ Len(a) = N + 1 /\ a[N + 1] = item
      /\ \A n \in 1..N : a[n] = q[n]
    OBVIOUS
<1> HIDE DEF a, N
<1>2. PICK h : /\ h[0] = first /\ h[N + 1] = last
               /\ \A n \in 1..(N + 1) : h[n] = After(x, h[n - 1], a[n])
    BY <1>1 DEF Leads, a
<1>3. \A n \in 1..N : h[n] = After(x, h[n - 1], q[n]) BY <1>1, <1>2
<1>4. Leads(x, first, q, h[N]) BY <1>2, <1>3 DEF Leads, N
<1>5. last = After(x, h[N], item)
  <2>1. N + 1 \in 1..(N + 1) /\ (N + 1) - 1 = N BY <1>1
  <2> QED BY <1>1, <1>2, <2>1
<1> QED BY <1>4, <1>5

LEMMA LeadsThrough ==
    ASSUME NEW x, NEW first, NEW last, NEW p \in Seq(Items), NEW q \in Seq(Items),
           Leads(x, first, p \o q, last)
    PROVE  \E mid : Leads(x, first, p, mid) /\ Leads(x, mid, q, last)
<1> DEFINE c == p \o q
           K == Len(p)
           N == Len(q)
<1>1. /\ K \in Nat /\ N \in Nat /\ Len(c) = K + N
      /\ \A n \in 1..K : c[n] = p[n]
      /\ \A n \in 1..N : c[K + n] = q[n]
    OBVIOUS
<1> HIDE DEF c, K, N
<1>2. PICK h : /\ h[0] = first /\ h[K + N] = last
               /\ \A n \in 1..(K + N) : h[n] = After(x, h[n - 1], c[n])
    BY <1>1 DEF Leads, c
<1>3. Leads(x, first, p, h[K])
  <2>1. \A n \in 1..K : n \in 1..(K + N) BY <1>1
  <2> QED BY <1>1, <1>2, <2>1 DEF Leads, K
<1> DEFINE g == [n \in 0..N |-> h[K + n]]
<1>4. g[0] = h[K] /\ g[N] = last BY <1>1, <1>2
<1>5. \A n \in 1..N : g[n] = After(x, g[n - 1], q[n])
  <2> SUFFICES ASSUME NEW n \in 1..N PROVE g[n] = After(x, g[n - 1], q[n])
      OBVIOUS
  <2>1. /\ n \in 0..N /\ n - 1 \in 0..N
        /\ K + n \in 1..(K + N) /\ (K + n) - 1 = K + (n - 1)
      BY <1>1
  <2>2. g[n] = h[K + n] /\ g[n - 1] = h[K + (n - 1)] BY <2>1
  <2> HIDE DEF g
  <2> QED BY <1>1, <1>2, <2>1, <2>2
<1> HIDE DEF g
<1>6. Leads(x, h[K], q, last) BY <1>4, <1>5 DEF Leads, N
<1> QED BY <1>3, <1>6

\* There is one way to go.
LEMMA LeadsOnce ==
    ASSUME NEW x, NEW first, NEW q \in Seq(Items), NEW a, NEW b,
           Leads(x, first, q, a), Leads(x, first, q, b)
    PROVE  a = b
<1> DEFINE N == Len(q)
<1>1. N \in Nat OBVIOUS
<1> HIDE DEF N
<1>2. PICK h : /\ h[0] = first /\ h[N] = a
               /\ \A n \in 1..N : h[n] = After(x, h[n - 1], q[n])
    BY DEF Leads, N
<1>3. PICK g : /\ g[0] = first /\ g[N] = b
               /\ \A n \in 1..N : g[n] = After(x, g[n - 1], q[n])
    BY DEF Leads, N
<1> DEFINE C == {n \in 0..N : h[n] # g[n]}
<1>4. C = {}
  <2> SUFFICES ASSUME C # {} PROVE FALSE OBVIOUS
  <2>1. PICK m \in C : \A k \in C : m <= k
    <3>1. C \in SUBSET (0..N) OBVIOUS
    <3> HIDE DEF C
    <3> QED BY <1>1, <3>1, Smallest
  <2>2. m # 0 BY <1>2, <1>3
  <2>3. m \in 1..N /\ m - 1 \in 0..N /\ m - 1 < m BY <1>1, <2>2
  <2>4. h[m - 1] = g[m - 1] BY <2>1, <2>3
  <2> QED BY <1>2, <1>3, <2>3, <2>4
<1>5. N \in 0..N BY <1>1
<1> QED BY <1>2, <1>3, <1>4, <1>5

\* Items about others, and those that do not apply, lead to where one is.
LEMMA LeadsToItself ==
    ASSUME NEW x, NEW row, NEW q \in Seq(Items),
           \A n \in 1..Len(q) : After(x, row, q[n]) = row
    PROVE  \A last : Leads(x, row, q, last) <=> last = row
<1> DEFINE N == Len(q)
           h == [n \in 0..N |-> row]
<1>1. N \in Nat OBVIOUS
<1>2. h[0] = row /\ h[N] = row /\ \A n \in 1..N : h[n] = row /\ h[n - 1] = row
  <2>1. \A n \in 1..N : n \in 0..N /\ n - 1 \in 0..N BY <1>1
  <2> QED BY <1>1, <2>1
<1> HIDE DEF h
<1>3. Leads(x, row, q, row) BY <1>2 DEF Leads
<1> QED BY <1>3, LeadsOnce

LEMMA AboutIs ==
    ASSUME NEW q \in Seq(Items), NEW x
    PROVE  x \in About(q) <=> \E n \in 1..Len(q) : q[n] # None /\ q[n].about = x
BY DEF About

LEMMA LeadsPastOthers ==
    ASSUME NEW x, NEW row, NEW q \in Seq(Items), x \notin About(q)
    PROVE  \A last : Leads(x, row, q, last) <=> last = row
<1>1. \A n \in 1..Len(q) : After(x, row, q[n]) = row BY AboutIs DEF After
<1> QED BY <1>1, LeadsToItself

\* Records about a message say all there is to know.
LEMMA AfterMessage ==
    ASSUME NEW m \in Messages, NEW item \in Records, item.about = m, NEW row
    PROVE  After(m, row, item) = item.row
<1>1. item # None /\ m \notin Logs BY Constants
<1>2. item.operation \notin {"log", "delivery"} BY <1>1 DEF Records
<1> QED BY <1>1, <1>2 DEF After

LEMMA LeadsFromAnywhere ==
    ASSUME NEW m \in Messages, NEW first, NEW last, NEW q \in Seq(Items), m \in About(q),
           Leads(m, first, q, last), NEW other
    PROVE  Leads(m, other, q, last)
<1> DEFINE N == Len(q)
<1>1. N \in Nat OBVIOUS
<1>2. \A n \in 1..N : q[n] \in Items OBVIOUS
<1> DEFINE C == {n \in 0..N : n > 0 /\ q[n] # None /\ q[n].about = m}
<1>3. C # {} BY <1>1, AboutIs
<1>4. PICK k \in C : \A i \in C : k <= i
  <2>1. C \in SUBSET (0..N) OBVIOUS
  <2> HIDE DEF C, N
  <2> QED BY <1>1, <1>3, <2>1, Smallest
<1>5. k \in 1..N /\ q[k] \in Records /\ q[k].about = m BY <1>2 DEF Items
<1> HIDE DEF N
<1>6. PICK h : /\ h[0] = first /\ h[N] = last
               /\ \A n \in 1..N : h[n] = After(m, h[n - 1], q[n])
    BY DEF Leads, N
<1> DEFINE g == [n \in 0..N |-> IF n < k THEN other ELSE h[n]]
<1>7. g[0] = other /\ g[N] = last BY <1>1, <1>5, <1>6
<1>8. \A n \in 1..N : g[n] = After(m, g[n - 1], q[n])
  <2> SUFFICES ASSUME NEW n \in 1..N PROVE g[n] = After(m, g[n - 1], q[n])
      OBVIOUS
  <2>1. n \in 0..N /\ n - 1 \in 0..N /\ n > 0 BY <1>1
  <2>2. CASE n < k
    <3>1. g[n] = other /\ g[n - 1] = other BY <1>5, <2>1, <2>2
    <3>2. n \notin C BY <1>4, <2>2
    <3>3. q[n] = None \/ q[n].about # m BY <2>1, <3>2
    <3> HIDE DEF g
    <3> QED BY <3>1, <3>3 DEF After
  <2>3. CASE n = k
    <3>1. g[n] = h[n] BY <1>5, <2>1, <2>3
    <3>2. h[n] = q[n].row BY <1>5, <1>6, <2>3, AfterMessage
    <3>3. After(m, g[n - 1], q[n]) = q[n].row
      <4> HIDE DEF g
      <4> QED BY <1>5, <2>3, AfterMessage
    <3> QED BY <3>1, <3>2, <3>3
  <2>4. CASE n > k
    <3>1. g[n] = h[n] /\ g[n - 1] = h[n - 1] BY <1>5, <2>1, <2>4
    <3> HIDE DEF g
    <3> QED BY <1>6, <3>1
  <2> QED BY <1>5, <2>2, <2>3, <2>4
<1> HIDE DEF g
<1> QED BY <1>7, <1>8 DEF Leads, N

\* A batch leads the tables to what _write_batch() makes of them.
LEMMA WrittenLeads ==
    ASSUME batch \in Seq(Records), Table \in Tables, NEW x \in Things
    PROVE  Leads(x, Table[x], batch, Written[x])
<1> DEFINE N == Len(batch)
<1>1. N \in Nat /\ \A n \in 1..N : batch[n] \in Records OBVIOUS
<1>2. PICK h : /\ h[0] = Table /\ h[N] = Written
               /\ \A n \in 0..N : h[n] \in Tables
               /\ \A n \in 1..N : h[n] = Executed(h[n - 1], batch[n])
    BY WrittenUnfolds
<1> DEFINE g == [n \in 0..N |-> h[n][x]]
<1>3. g[0] = Table[x] /\ g[N] = Written[x] BY <1>1, <1>2
<1>4. \A n \in 1..N : g[n] = After(x, g[n - 1], batch[n])
  <2> SUFFICES ASSUME NEW n \in 1..N PROVE g[n] = After(x, g[n - 1], batch[n])
      OBVIOUS
  <2>1. n \in 0..N /\ n - 1 \in 0..N BY <1>1
  <2>2. g[n] = h[n][x] /\ g[n - 1] = h[n - 1][x] BY <2>1
  <2>3. h[n - 1] \in Tables BY <1>2, <2>1
  <2> HIDE DEF g
  <2> QED BY <1>1, <1>2, <2>2, <2>3, ExecutedIsAfter
<1> HIDE DEF g
<1> QED BY <1>3, <1>4 DEF Leads

LEMMA WrittenTyped == batch \in Seq(Records) /\ Table \in Tables => Written \in Tables
<1> SUFFICES ASSUME batch \in Seq(Records), Table \in Tables PROVE Written \in Tables
    OBVIOUS
<1>1. Len(batch) \in 0..Len(batch) OBVIOUS
<1> QED BY <1>1, WrittenUnfolds

LEMMA LeadsSomewhere ==
    ASSUME NEW x, NEW first, NEW q \in Seq(Items)
    PROVE  \E last : Leads(x, first, q, last)
<1> DEFINE N == Len(q)
           Goes(h, n) == h[0] = first /\ \A i \in 1..n : h[i] = After(x, h[i - 1], q[i])
<1>1. N \in Nat OBVIOUS
<1> HIDE DEF N
<1> DEFINE C == {n \in 0..N : ~ \E h : Goes(h, n)}
<1>2. C = {}
  <2> SUFFICES ASSUME C # {} PROVE FALSE OBVIOUS
  <2>1. PICK m \in C : \A k \in C : m <= k
    <3>1. C \in SUBSET (0..N) OBVIOUS
    <3> HIDE DEF C
    <3> QED BY <1>1, <3>1, Smallest
  <2>2. m # 0
    <3> DEFINE h == [n \in {0} |-> first]
    <3>1. h[0] = first /\ 1..0 = {} OBVIOUS
    <3> HIDE DEF h
    <3>2. Goes(h, 0) BY <3>1
    <3> QED BY <3>2
  <2>3. m \in 1..N /\ m - 1 \in 0..N /\ m - 1 < m BY <1>1, <2>2
  <2>4. PICK h : Goes(h, m - 1) BY <2>1, <2>3
  <2> DEFINE g == [n \in 0..m |-> IF n = m THEN After(x, h[m - 1], q[m]) ELSE h[n]]
  <2>5. g[0] = first /\ g[m] = After(x, h[m - 1], q[m]) /\ \A n \in 0..(m - 1) : g[n] = h[n]
      BY <2>3, <2>4
  <2> HIDE DEF g
  <2>6. \A i \in 1..m : g[i] = After(x, g[i - 1], q[i])
    <3> SUFFICES ASSUME NEW i \in 1..m PROVE g[i] = After(x, g[i - 1], q[i])
        OBVIOUS
    <3>1. i - 1 \in 0..(m - 1) BY <2>3
    <3>2. CASE i = m BY <2>5, <3>1, <3>2
    <3>3. CASE i # m
      <4>1. i \in 0..(m - 1) /\ i \in 1..(m - 1) BY <2>3, <3>3
      <4> QED BY <2>4, <2>5, <3>1, <4>1
    <3> QED BY <3>2, <3>3
  <2>7. Goes(g, m) BY <2>5, <2>6
  <2> QED BY <2>1, <2>7
<1>3. \E h : Goes(h, N)
  <2>1. N \in 0..N BY <1>1
  <2> HIDE DEF Goes
  <2> QED BY <1>2, <2>1
<1>4. PICK h : Goes(h, N) BY <1>3
<1>5. Leads(x, first, q, h[N]) BY <1>4 DEF Leads, N
<1> QED BY <1>5

LEMMA RecordsFit ==
    ASSUME NEW item \in Records
    PROVE  /\ item # None /\ IsRecord(item) /\ item.about \in Things
           /\ item.operation \in {"log", "delivery"} <=> item.about \in Logs
           /\ item.about \in Messages => item.operation \in {"message", "delete_messages"}
           /\ item.about \in Logs => item.row \in Status
<1>1. item # None BY Constants
<1>2. CASE item \in [operation : {"log", "delivery"}, about : Logs, row : Status]
    BY <1>1, <1>2, Constants DEF IsRecord, IsRow, Things
<1>3. CASE item \in [operation : {"message"}, about : Messages, row : Snapshot]
    BY <1>1, <1>3, Constants DEF IsRecord, IsRow, Things
<1>4. CASE item \in [operation : {"delete_messages"}, about : Messages, row : {None}]
    BY <1>1, <1>4, Constants DEF IsRecord, IsRow, Things
<1> QED BY <1>2, <1>3, <1>4 DEF Records

\* A row leads to a row.
LEMMA LeadsTyped ==
    ASSUME NEW x \in Things, NEW first, IsRow(x, first), NEW q \in Seq(Items), NEW last,
           Leads(x, first, q, last)
    PROVE  IsRow(x, last)
<1> DEFINE N == Len(q)
<1>1. N \in Nat /\ \A n \in 1..N : q[n] \in Items OBVIOUS
<1> HIDE DEF N
<1>2. PICK h : /\ h[0] = first /\ h[N] = last
               /\ \A n \in 1..N : h[n] = After(x, h[n - 1], q[n])
    BY DEF Leads, N
<1> DEFINE C == {n \in 0..N : ~IsRow(x, h[n])}
<1>3. C = {}
  <2> SUFFICES ASSUME C # {} PROVE FALSE OBVIOUS
  <2>1. PICK m \in C : \A k \in C : m <= k
    <3>1. C \in SUBSET (0..N) OBVIOUS
    <3> HIDE DEF C
    <3> QED BY <1>1, <3>1, Smallest
  <2>2. m # 0 BY <1>2
  <2>3. m \in 1..N /\ m - 1 \in 0..N /\ m - 1 < m BY <1>1, <2>2
  <2>4. IsRow(x, h[m - 1]) /\ ~IsRow(x, h[m]) BY <2>1, <2>3
  <2>5. h[m] # h[m - 1] /\ h[m] = After(x, h[m - 1], q[m]) BY <1>2, <2>3, <2>4
  <2>6. q[m] \in Records /\ q[m].about = x /\ h[m] = q[m].row
      BY <1>1, <2>3, <2>5 DEF After, Items
  <2> QED BY <2>4, <2>6, RecordsFit DEF IsRecord
<1>4. N \in 0..N BY <1>1
<1> QED BY <1>2, <1>3, <1>4

------------------------------------------------------------------------------
(* What is on its way to the tables. *)

Way == batch \o queue

LEMMA AboutAppended ==
    ASSUME NEW q \in Seq(Items), NEW item \in Items, NEW x
    PROVE  x \in About(Append(q, item)) <=> x \in About(q) \/ (item # None /\ item.about = x)
<1> DEFINE a == Append(q, item)
           N == Len(q)
<1>1. /\ a \in Seq(Items) /\ N \in Nat /\ Len(a) = N + 1 /\ a[N + 1] = item
      /\ \A n \in 1..N : a[n] = q[n]
    OBVIOUS
<1>2. \A n \in 1..(N + 1) : n = N + 1 \/ n \in 1..N BY <1>1
<1>3. \A n \in 1..N : n \in 1..(N + 1) BY <1>1
<1>4. N + 1 \in 1..(N + 1) BY <1>1
<1> HIDE DEF a, N
<1>5. x \in About(a) <=> \E n \in 1..(N + 1) : a[n] # None /\ a[n].about = x
    BY <1>1, AboutIs
<1>6. x \in About(q) <=> \E n \in 1..N : q[n] # None /\ q[n].about = x
    BY AboutIs DEF N
<1>7. x \in About(a) <=> x \in About(q) \/ (item # None /\ item.about = x)
    BY <1>1, <1>2, <1>3, <1>4, <1>5, <1>6
<1> QED BY <1>7 DEF a

LEMMA AboutJoined ==
    ASSUME NEW p \in Seq(Items), NEW q \in Seq(Items), NEW x
    PROVE  x \in About(p \o q) <=> x \in About(p) \/ x \in About(q)
<1> DEFINE c == p \o q
           K == Len(p)
           N == Len(q)
<1>1. /\ c \in Seq(Items) /\ K \in Nat /\ N \in Nat /\ Len(c) = K + N
      /\ \A n \in 1..K : c[n] = p[n]
      /\ \A n \in 1..N : c[K + n] = q[n]
    OBVIOUS
<1>2. \A n \in 1..(K + N) : n \in 1..K \/ (n - K \in 1..N /\ K + (n - K) = n) BY <1>1
<1>3. \A n \in 1..K : n \in 1..(K + N) BY <1>1
<1>4. \A n \in 1..N : K + n \in 1..(K + N) BY <1>1
<1> HIDE DEF c, K, N
<1>5. x \in About(c) <=> \E n \in 1..(K + N) : c[n] # None /\ c[n].about = x
    BY <1>1, AboutIs
<1>6. x \in About(p) <=> \E n \in 1..K : p[n] # None /\ p[n].about = x
    BY AboutIs DEF K
<1>7. x \in About(q) <=> \E n \in 1..N : q[n] # None /\ q[n].about = x
    BY AboutIs DEF N
<1>8. x \in About(c) => x \in About(p) \/ x \in About(q) BY <1>1, <1>2, <1>5, <1>6, <1>7
<1>9. x \in About(p) => x \in About(c) BY <1>1, <1>3, <1>5, <1>6
<1>10. x \in About(q) => x \in About(c) BY <1>1, <1>4, <1>5, <1>7
<1>11. x \in About(c) <=> x \in About(p) \/ x \in About(q) BY <1>8, <1>9, <1>10
<1> QED BY <1>11 DEF c

LEMMA NothingAbout == About(<<>>) = {}
BY DEF About

\* The sentinel leads nowhere.
LEMMA LeadsToSentinel ==
    ASSUME NEW x, NEW first, NEW last, NEW q \in Seq(Items)
    PROVE  Leads(x, first, Append(q, None), last) <=> Leads(x, first, q, last)
<1>1. None \in Items /\ \A row : After(x, row, None) = row BY DEF Items, After
<1>2. Leads(x, first, q, last) => Leads(x, first, Append(q, None), last) BY <1>1, LeadsOn
<1>3. Leads(x, first, Append(q, None), last) => Leads(x, first, q, last) BY <1>1, LeadsBack
<1> QED BY <1>2, <1>3

LEMMA LeadsBeforeOthers ==
    ASSUME NEW x, NEW first, NEW last, NEW q \in Seq(Items), NEW item \in Records,
           item.about # x, Leads(x, first, q, last)
    PROVE  Leads(x, first, Append(q, item), last)
<1>1. item \in Items /\ After(x, last, item) = last BY DEF Items, After
<1> QED BY <1>1, LeadsOn

LEMMA LeadsToRecord ==
    ASSUME NEW m \in Messages, NEW first, NEW q \in Seq(Items), NEW item \in Records,
           item.about = m
    PROVE  Leads(m, first, Append(q, item), item.row)
<1>1. PICK last : Leads(m, first, q, last) BY LeadsSomewhere
<1>2. item \in Items /\ After(m, last, item) = item.row BY AfterMessage DEF Items
<1> QED BY <1>1, <1>2, LeadsOn

------------------------------------------------------------------------------
(* The inductive invariant. *)

StoreTyped ==
    /\ writer \in {"starting", "waiting", "writing", "ended", "failed", "stopped"}
    /\ closing \in {"no", "putting", "waiting", "closed"}
    /\ queue \in Seq(Items) /\ Len(queue) <= QueueSize
    /\ batch \in Seq(Records) /\ Len(batch) <= BatchSize
    /\ fileBytes \in 0..FileLimit
    /\ messages \in [Messages -> {None} \cup Snapshot]
    /\ logs \in [Logs -> {None} \cup Status]
    /\ latest \in Tables /\ \A x \in Things : IsRow(x, latest[x])
    /\ excused \subseteq Things

RestTyped ==
    /\ hot \in [Messages -> {None} \cup Snapshot]
    /\ enabled \in BOOLEAN /\ keepFiles \in BOOLEAN
    /\ version \in [Messages -> 0..MaxVersion] /\ deleted \subseteq Messages
    /\ reading \subseteq Messages \X (1..MaxVersion)
    /\ delivery \in [Logs -> {"new", "staged", "unstaged", "over", "lost"}]
    /\ command \in Command
    /\ faults \in 0..1 /\ restarts \in 0..1 /\ commands \in 0..1

\* The sentinel is the last item there will be; a writer that ends of
\* itself leaves nothing.
QueueOK ==
    /\ \A i \in 1..Len(queue) :
          queue[i] = None => i = Len(queue) /\ closing \in {"waiting", "closed"}
    /\ writer # "writing" => batch = <<>>
    /\ writer = "ended" => queue = <<>>
    /\ closing = "closed" => Ended
    /\ closing = "waiting" /\ writer \in {"starting", "waiting"} => queue # <<>>
    /\ closing = "waiting" /\ writer \in {"starting", "waiting", "writing"} /\ queue # <<>> =>
          queue[Len(queue)] = None

\* Between flush() and the end of the thread, clear_guild() has emptied the memory
\* and not yet the tables.
Clearing == command.at = "wiping" /\ command.kind = "clear"

CommandOK ==
    /\ command.at \in {"joining", "wiping"} => writer # "starting"
    /\ command.at = "wiping" /\ writer = "failed" => Drained
    /\ command.at # "idle" /\ command.kind = "clear" => ~enabled

\* Who is told of a log's delivery knows that the log was staged.
LogsOK ==
    \A l \in Logs :
       /\ logs[l] # None => delivery[l] # "new"
       /\ writer = "starting" /\ logs[l] # None => delivery[l] = "lost"
       /\ l \in About(Way) => delivery[l] \in {"staged", "over"}
       /\ writer \notin {"starting", "failed"} /\ logs[l] = "pending" => delivery[l] # "lost"

\* The records under way lead each table to what is owed. While the tables are being
\* cleared, they lead an empty one there: no log is staged then, and the delivery
\* of one that was has nothing to update.
Current(x, first) == Leads(x, first, Way, latest[x])
OwedOK ==
    /\ ~Clearing => \A x \in Things \ excused : Current(x, Table[x])
    /\ Clearing =>
          /\ \A m \in Messages \ excused : m \in About(Way) => Current(m, None)
          /\ \A i \in 1..Len(Way) : Way[i] # None => Way[i].operation # "log"

IInv ==
    /\ StoreTyped /\ RestTyped /\ QueueOK /\ FilesAreCounted /\ CommandOK /\ LogsOK
    /\ OwedOK

LEMMA TypeFollows == StoreTyped /\ RestTyped => TypeOK
<1> SUFFICES ASSUME StoreTyped, RestTyped PROVE TypeOK
    OBVIOUS
<1>1. \A i \in DOMAIN queue : queue[i] = None \/ IsRecord(queue[i])
    BY RecordsFit DEF StoreTyped, Items
<1>2. \A i \in DOMAIN batch : IsRecord(batch[i])
    BY RecordsFit DEF StoreTyped
<1>3. \A m \in Messages : IsRow(m, hot[m]) /\ IsRow(m, messages[m])
    BY DEF StoreTyped, RestTyped, IsRow
<1>4. \A l \in Logs : IsRow(l, logs[l])
    BY Constants DEF StoreTyped, IsRow
<1> QED BY <1>1, <1>2, <1>3, <1>4 DEF StoreTyped, RestTyped, TypeOK

LEMMA TableTyped ==
    ASSUME StoreTyped
    PROVE  Table \in Tables /\ \A x \in Things : IsRow(x, Table[x])
<1>1. \A x \in Things : /\ x \in Messages => Table[x] = messages[x]
                        /\ x \in Logs => Table[x] = logs[x]
    BY Constants DEF Table, Things
<1>2. \A x \in Things : Table[x] \in Rows BY <1>1 DEF StoreTyped, Rows, Things
<1>3. \A x \in Things : IsRow(x, Table[x]) BY <1>1, Constants DEF StoreTyped, IsRow, Things
<1>4. Table = [x \in Things |-> Table[x]] BY DEF Table
<1> QED BY <1>2, <1>3, <1>4 DEF Tables

LEMMA TableIs ==
    /\ \A m \in Messages : m \in Things /\ Table[m] = messages[m]
    /\ \A l \in Logs : l \in Things /\ Table[l] = logs[l]
BY Constants DEF Table, Things

LEMMA WayTyped ==
    ASSUME StoreTyped
    PROVE  /\ queue \in Seq(Items) /\ batch \in Seq(Items) /\ Way \in Seq(Items)
           /\ Len(Way) = Len(batch) + Len(queue)
           /\ \A i \in 1..Len(batch) : Way[i] = batch[i]
           /\ \A i \in 1..Len(queue) : Way[Len(batch) + i] = queue[i]
           /\ \A x : x \in About(Way) <=> x \in About(batch) \/ x \in About(queue)
<1>1. queue \in Seq(Items) BY DEF StoreTyped
<1>2. batch \in Seq(Items)
  <2>1. Records \subseteq Items BY DEF Items
  <2> QED BY <2>1 DEF StoreTyped
<1>3. \A x : x \in About(batch \o queue) <=> x \in About(batch) \/ x \in About(queue)
    BY <1>1, <1>2, AboutJoined
<1> QED BY <1>1, <1>2, <1>3 DEF Way

LEMMA WayIsQueue == ASSUME queue \in Seq(Items), batch = <<>> PROVE Way = queue
BY DEF Way

LEMMA WayAppended ==
    ASSUME StoreTyped, NEW item \in Items
    PROVE  batch \o Append(queue, item) = Append(Way, item)
<1>1. queue \in Seq(Items) /\ batch \in Seq(Items) /\ <<item>> \in Seq(Items)
    BY WayTyped
<1> QED BY <1>1 DEF Way

------------------------------------------------------------------------------
(* What the steps leave alone, and the types of what the store does not hold. *)

Hot == [Messages -> {None} \cup Snapshot]

LEMMA HotTyped ==
    ASSUME hot \in Hot
    PROVE  /\ \A m \in Messages, snapshot \in Snapshot :
                 EnqueueMessage(m, snapshot) => hot' \in Hot
           /\ \A m \in Messages : ForgetMessage(m) => hot' \in Hot
           /\ \A statuses, expired : PruneExpired(statuses, expired) => hot' \in Hot
<1>1. ASSUME NEW m \in Messages, NEW snapshot \in Snapshot, EnqueueMessage(m, snapshot)
      PROVE  hot' \in Hot
    BY <1>1 DEF EnqueueMessage, Hot
<1>2. ASSUME NEW m \in Messages, ForgetMessage(m) PROVE hot' \in Hot
    BY <1>2 DEF ForgetMessage, Hot
<1>3. ASSUME NEW statuses, NEW expired, PruneExpired(statuses, expired) PROVE hot' \in Hot
    BY <1>3 DEF PruneExpired, Hot
<1> QED BY <1>1, <1>2, <1>3

LEMMA SnapshotsFit ==
    ASSUME RestTyped
    PROVE  /\ \A m \in Messages : version[m] < MaxVersion =>
                  /\ version[m] + 1 \in 1..MaxVersion
                  /\ [version |-> version[m] + 1, files |-> 0] \in Snapshot
           /\ \A v \in 1..MaxVersion, n \in 1..Attachments :
                  [version |-> v, files |-> n] \in Snapshot
<1>1. ASSUME NEW m \in Messages, version[m] < MaxVersion
      PROVE  version[m] + 1 \in 1..MaxVersion
    BY <1>1, Constants DEF RestTyped
<1>2. 0 \in 0..Attachments /\ \A n \in 1..Attachments : n \in 0..Attachments BY Constants
<1> QED BY <1>1, <1>2 DEF Snapshot

LEMMA SnapshotsTyped ==
    ASSUME RestTyped, Snapshots
    PROVE  RestTyped'
<1>1. ASSUME NEW m \in Messages, Capture(m) PROVE RestTyped'
  <2>1. version' \in [Messages -> 0..MaxVersion]
    <3>1. version[m] + 1 \in 0..MaxVersion BY <1>1, SnapshotsFit, Constants DEF Capture
    <3> QED BY <1>1, <3>1 DEF Capture, RestTyped
  <2>2. hot' \in Hot
    <3>1. hot \in Hot BY DEF RestTyped, Hot
    <3> QED BY <1>1, <3>1, HotTyped, SnapshotsFit DEF Capture
  <2>3. reading' \subseteq Messages \X (1..MaxVersion)
      BY <1>1, SnapshotsFit DEF Capture, RestTyped
  <2> QED BY <1>1, <2>1, <2>2, <2>3 DEF Capture, RestTyped, Hot, settings, bounds
<1>2. ASSUME NEW m \in Messages, Delete(m) \/ RawDelete(m) PROVE RestTyped'
  <2>1. hot' \in Hot
    <3>1. hot \in Hot BY DEF RestTyped, Hot
    <3> QED BY <1>2, <3>1, HotTyped DEF Delete, RawDelete
  <2> QED BY <1>2, <2>1 DEF Delete, RawDelete, RestTyped, Hot, settings, bounds
<1>3. ASSUME NEW m \in Messages, NEW v \in 1..MaxVersion, CaptureFiles(m, v) PROVE RestTyped'
  <2>1. hot' \in Hot
    <3>1. hot \in Hot BY DEF RestTyped, Hot
    <3> QED BY <1>3, <3>1, HotTyped, SnapshotsFit DEF CaptureFiles
  <2> QED BY <1>3, <2>1 DEF CaptureFiles, RestTyped, Hot, settings, discord, bounds
<1>4. ASSUME NEW m \in Messages, NEW v \in 1..MaxVersion, NoFiles(m, v) PROVE RestTyped'
    BY <1>4 DEF NoFiles, RestTyped, archive, settings, discord, bounds
<1> QED BY <1>1, <1>2, <1>3, <1>4 DEF Snapshots

LEMMA RestNext ==
    ASSUME RestTyped, [Next]_vars
    PROVE  RestTyped'
<1> USE DEF archive, settings, discord, bounds
<1>0. /\ NoCommand \in Command
      /\ CommandOver =>
            /\ command' \in Command /\ enabled' \in BOOLEAN
            /\ UNCHANGED <<keepFiles, discord, reading, delivery, bounds>>
  <2>1. NoCommand \in Command BY DEF NoCommand, Command
  <2> QED BY <2>1 DEF CommandOver, RestTyped, Command
<1>1. CASE Snapshots BY <1>1, SnapshotsTyped
<1>2. ASSUME NEW l \in Logs, Worker(l) PROVE RestTyped'
    BY <1>2 DEF Worker, Stage, Drop, Deliver, RestTyped
<1>3. CASE Initialize \/ Prune \/ PruneFails \/ PruneTables
  <2>1. hot' \in Hot
    <3>1. hot \in Hot BY DEF RestTyped, Hot
    <3> QED BY <1>3, <3>1, HotTyped DEF Initialize, Prune, PruneFails, PruneTables
  <2>2. CASE Initialize \/ Prune BY <2>1, <2>2 DEF Initialize, Prune, RestTyped, Hot
  <2>3. CASE PruneTables BY <1>0, <2>1, <2>3 DEF PruneTables, RestTyped, Hot
  <2>4. CASE PruneFails BY <2>1, <2>4 DEF PruneFails, MayHappen, RestTyped, Hot
  <2> QED BY <1>3, <2>2, <2>3, <2>4
<1>4. CASE InitializeFails \/ BatchFails
    BY <1>4 DEF InitializeFails, BatchFails, MayHappen, RestTyped
<1>5. CASE TakeBatch \/ TakeSentinel
    BY <1>5 DEF TakeBatch, TakeSentinel, RestTyped
<1>6. CASE WriteBatch BY <1>6 DEF WriteBatch, RestTyped
<1>7. CASE Close \/ PutSentinel \/ Closed
    BY <1>7 DEF Close, PutSentinel, Closed, RestTyped
<1>8. ASSUME Renewed, restarts' \in 0..1 PROVE RestTyped'
    BY <1>8 DEF Renewed, RestTyped, Command, NoCommand
<1>9. CASE Restart
  <2>1. restarts' \in 0..1 BY <1>9 DEF Restart, MayHappen
  <2> QED BY <1>8, <1>9, <2>1 DEF Restart
<1>10. CASE ReloadCog
  <2>1. CASE Ended
    <3>1. restarts' \in 0..1 BY <1>10 DEF ReloadCog, RestTyped
    <3> QED BY <1>8, <1>10, <2>1, <3>1 DEF ReloadCog
  <2>2. CASE ~Ended BY <1>10, <2>2 DEF ReloadCog, RestTyped
  <2> QED BY <2>1, <2>2
<1>11. CASE ToggleFiles BY <1>11 DEF ToggleFiles, MayHappen, RestTyped
<1>12. ASSUME NEW kind \in {"clear", "prune"}, BeginCommand(kind) PROVE RestTyped'
    BY <1>12 DEF BeginCommand, MayHappen, RestTyped, Command
<1>13. CASE CommandReady \/ CommandFlushed
    BY <1>13 DEF CommandReady, CommandFlushed, Wiping, RestTyped, Command
<1>14. CASE ClearTables \/ CommandInVain
  <2>1. CASE ClearTables BY <1>0, <2>1 DEF ClearTables, RestTyped
  <2>2. CASE CommandInVain /\ CommandOver BY <1>0, <2>2 DEF CommandInVain, RestTyped
  <2>3. CASE CommandInVain /\ ~CommandOver
      BY <1>0, <2>3 DEF CommandInVain, RestTyped
  <2> QED BY <1>14, <2>1, <2>2, <2>3
<1>15. CASE UNCHANGED vars BY <1>15 DEF vars, RestTyped
<1> QED
    BY <1>1, <1>2, <1>3, <1>4, <1>5, <1>6, <1>7, <1>9, <1>10, <1>11, <1>12, <1>13, <1>14, <1>15
    DEF Next, Write, Closing, Commanding

\* The handlers of messages, and of logs, only put records in the queue.
LEMMA SnapshotsOffer ==
    ASSUME Snapshots
    PROVE  /\ UNCHANGED <<writer, batch, closing, tables, enabled, delivery, command, bounds>>
           /\ Ended => queue' = queue
<1>1. ASSUME NEW m \in Messages, Capture(m)
      PROVE  /\ UNCHANGED <<writer, batch, closing, tables, enabled, delivery, command, bounds>>
             /\ Ended => queue' = queue
    BY <1>1 DEF Capture, EnqueueMessage, Enqueue, Accepted, Running, settings
<1>2. ASSUME NEW m \in Messages, Delete(m) \/ RawDelete(m)
      PROVE  /\ UNCHANGED <<writer, batch, closing, tables, enabled, delivery, command, bounds>>
             /\ Ended => queue' = queue
    BY <1>2 DEF Delete, RawDelete, ForgetMessage, Enqueue, Accepted, Running, settings
<1>3. ASSUME NEW m \in Messages, NEW v \in 1..MaxVersion, CaptureFiles(m, v) \/ NoFiles(m, v)
      PROVE  /\ UNCHANGED <<writer, batch, closing, tables, enabled, delivery, command, bounds>>
             /\ Ended => queue' = queue
    BY <1>3 DEF CaptureFiles, NoFiles, EnqueueMessage, Enqueue, Accepted, Running, settings, archive
<1> QED BY <1>1, <1>2, <1>3 DEF Snapshots

LEMMA WorkerOffers ==
    ASSUME NEW l \in Logs, Worker(l)
    PROVE  /\ UNCHANGED <<writer, batch, closing, tables, enabled, command, bounds>>
           /\ Ended => queue' = queue
BY DEF Worker, Stage, Drop, Deliver, StageLog, Enqueue, Accepted, Running, settings

LEMMA CommandNext ==
    ASSUME RestTyped, QueueOK, CommandOK, [Next]_vars
    PROVE  CommandOK'
<1> USE DEF archive, settings, discord, bounds
<1>1. CASE Snapshots BY <1>1, SnapshotsOffer DEF CommandOK, Drained, Ended, BrokenOff
<1>2. ASSUME NEW l \in Logs, Worker(l) PROVE CommandOK'
    BY <1>2, WorkerOffers DEF CommandOK, Drained, Ended, BrokenOff
<1>3. CASE Initialize \/ InitializeFails
    BY <1>3 DEF Initialize, InitializeFails, CommandOK
<1>4. CASE TakeBatch \/ TakeSentinel
    BY <1>4 DEF TakeBatch, TakeSentinel, CommandOK
<1>5. CASE WriteBatch \/ BatchFails
    BY <1>5 DEF WriteBatch, BatchFails, BatchOver, CommandOK
<1>6. CASE Prune \/ PruneFails
    BY <1>6 DEF Prune, PruneFails, PruneExpired, CommandOK, Drained
<1>7. CASE Close \/ Closed BY <1>7 DEF Close, Closed, CommandOK, Drained
<1>8. CASE PutSentinel BY <1>8 DEF PutSentinel, CommandOK, Drained, Ended, BrokenOff
<1>9. ASSUME command' = NoCommand PROVE CommandOK'
    BY <1>9 DEF CommandOK, NoCommand
<1>10. CASE Restart BY <1>9, <1>10 DEF Restart, Renewed
<1>11. CASE ReloadCog
  <2>1. CASE Ended BY <1>9, <1>11, <2>1 DEF ReloadCog, Renewed
  <2>2. CASE ~Ended BY <1>11, <2>2 DEF ReloadCog, CommandOK, Drained
  <2> QED BY <2>1, <2>2
<1>12. CASE ToggleFiles BY <1>12 DEF ToggleFiles, CommandOK, Drained
<1>13. ASSUME NEW kind \in {"clear", "prune"}, BeginCommand(kind) PROVE CommandOK'
    BY <1>13 DEF BeginCommand, CommandOK
<1>14. CASE CommandReady
    BY <1>14 DEF CommandReady, CommandOK, Ready, RestTyped, Command
<1>15. CASE CommandFlushed
    BY <1>15 DEF CommandFlushed, Wiping, CommandOK, Drained, RestTyped, Command
<1>16. CASE ClearTables \/ PruneTables \/ CommandInVain
    BY <1>9, <1>16 DEF ClearTables, PruneTables, CommandInVain, CommandOver
<1>17. CASE UNCHANGED vars BY <1>17 DEF vars, CommandOK, Drained
<1> QED
    BY <1>1, <1>2, <1>3, <1>4, <1>5, <1>6, <1>7, <1>8, <1>10, <1>11, <1>12, <1>13, <1>14,
       <1>15, <1>16, <1>17
    DEF Next, Write, Closing, Commanding

------------------------------------------------------------------------------
(* The store: the queue, what it weighs, and where it leads. *)

Sound == StoreTyped /\ QueueOK /\ FilesAreCounted /\ OwedOK

LEMMA KeptSound ==
    ASSUME Sound, Clearing' <=> Clearing,
           UNCHANGED <<writer, batch, queue, fileBytes, closing, tables, history>>
    PROVE  Sound' /\ About(Way)' = About(Way)
<1> USE DEF tables, history
<1>1. StoreTyped' BY DEF Sound, StoreTyped
<1>2. QueueOK' BY DEF Sound, QueueOK, Ended, BrokenOff
<1>3. FilesAreCounted' BY DEF Sound, FilesAreCounted
<1>4. Way' = Way /\ Table' = Table BY DEF Way, Table
<1>5. OwedOK' BY <1>4 DEF Sound, OwedOK, Current
<1> QED BY <1>1, <1>2, <1>3, <1>4, <1>5 DEF Sound, About

\* A record put in the queue, with the row that is owed from then on.
Offer(item, row) == Enqueue(item) /\ Owed(item.about, Accepted(item), row)

LEMMA OfferTyped ==
    ASSUME Sound, NEW item \in Records, NEW row, IsRow(item.about, row), Offer(item, row),
           UNCHANGED <<writer, batch, closing, tables>>
    PROVE  StoreTyped' /\ QueueOK' /\ FilesAreCounted'
<1>1. item \in Items /\ item # None /\ item.about \in Things /\ Bytes(item) = Files(item)
    BY RecordsFit DEF Items, Bytes
<1>2. row \in Rows BY <1>1, Constants DEF IsRow, Rows
<1>3. queue \in Seq(Items) /\ Len(queue) <= QueueSize /\ fileBytes \in 0..FileLimit
    BY DEF Sound, StoreTyped
<1>4. Files(item) \in Nat BY <1>1, BytesTyped
<1>5. CASE Accepted(item)
  <2>1. /\ queue' = Append(queue, item) /\ fileBytes' = fileBytes + Files(item)
        /\ latest' = [latest EXCEPT ![item.about] = row]
      BY <1>5 DEF Offer, Enqueue, Owed
  <2>2. queue' \in Seq(Items) /\ Len(queue') = Len(queue) + 1
      BY <1>1, <1>3, <2>1
  <2>3. Len(queue') <= QueueSize BY <1>3, <1>5, <2>2, Constants DEF Accepted
  <2>4. fileBytes' \in 0..FileLimit BY <1>3, <1>4, <1>5, <2>1, Constants DEF Accepted
  <2>5. latest' \in Tables /\ \A x \in Things : IsRow(x, latest'[x])
    <3>1. latest \in Tables /\ \A x \in Things : IsRow(x, latest[x])
        BY DEF Sound, StoreTyped
    <3> QED BY <1>1, <1>2, <2>1, <3>1 DEF Tables
  <2>6. excused' \subseteq Things
      BY <1>1 DEF Offer, Owed, Sound, StoreTyped
  <2>7. StoreTyped'
      BY <2>2, <2>3, <2>4, <2>5, <2>6 DEF Sound, StoreTyped, tables
  <2>8. \A i \in 1..Len(queue') : queue'[i] = None => FALSE
    <3>1. closing = "no" BY <1>5 DEF Accepted, Running
    <3>2. \A i \in 1..Len(queue) : queue[i] # None
        BY <3>1 DEF Sound, QueueOK
    <3> QED BY <1>1, <1>3, <2>1, <2>2, <3>2
  <2>9. QueueOK'
    <3>1. closing' = "no" /\ ~Ended BY <1>5 DEF Accepted, Running
    <3> QED BY <2>8, <3>1 DEF Sound, QueueOK, Ended, BrokenOff
  <2>10. FilesAreCounted'
    <3>1. FilesIn(queue') = FilesIn(queue) + Files(item)
        BY <1>1, <1>3, <2>1, FilesOfAppend
    <3>2. FilesIn(queue) \in Nat BY <1>3, FilesAreNat
    <3>3. FilesIn(batch) \in Nat
      <4>1. batch \in Seq(Items) BY WayTyped DEF Sound
      <4> QED BY <4>1, FilesAreNat
    <3>4. fileBytes = FilesIn(queue) + FilesIn(batch) BY DEF Sound, FilesAreCounted
    <3>5. fileBytes' = FilesIn(queue') + FilesIn(batch)
        BY <1>4, <2>1, <3>1, <3>2, <3>3, <3>4
    <3> QED BY <3>5 DEF FilesAreCounted
  <2> QED BY <2>7, <2>9, <2>10
<1>6. CASE ~Accepted(item)
  <2>1. UNCHANGED <<queue, fileBytes, latest>> BY <1>6 DEF Offer, Enqueue, Owed
  <2>2. excused' \subseteq Things
      BY <1>1 DEF Offer, Owed, Sound, StoreTyped
  <2>3. StoreTyped' BY <2>1, <2>2 DEF Sound, StoreTyped, tables
  <2>4. QueueOK' BY <2>1 DEF Sound, QueueOK, Ended, BrokenOff
  <2>5. FilesAreCounted' BY <2>1 DEF Sound, FilesAreCounted
  <2> QED BY <2>3, <2>4, <2>5
<1> QED BY <1>5, <1>6

\* An accepted record about x says what is owed about x, and changes nothing about
\* the others; a refused one excuses a log, which is all that it says.
LEMMA OfferOwed ==
    ASSUME Sound, NEW item \in Records, NEW row, Offer(item, row),
           item.about \in Messages => row = item.row,
           item.about \in Logs =>
              item.about \in excused \/ row = After(item.about, latest[item.about], item),
           item.operation = "log" => ~Clearing,
           UNCHANGED <<writer, batch, closing, tables, command>>
    PROVE  /\ OwedOK'
           /\ \A x : x \in About(Way)' => x \in About(Way) \/ (Accepted(item) /\ x = item.about)
<1>1. item \in Items /\ item # None /\ item.about \in Things
    BY RecordsFit DEF Items
<1>2. Way \in Seq(Items) /\ latest \in Tables BY WayTyped DEF Sound, StoreTyped
<1>3. Table' = Table /\ Clearing' = Clearing BY DEF tables, Table, Clearing
<1>4. CASE Accepted(item)
  <2>1. /\ queue' = Append(queue, item)
        /\ latest' = [latest EXCEPT ![item.about] = row]
      BY <1>4 DEF Offer, Enqueue, Owed
  <2>2. Way' = Append(Way, item)
    <3>1. Way' = batch \o Append(queue, item) BY <2>1 DEF Way
    <3> QED BY <1>1, <3>1, WayAppended DEF Sound
  <2>3. \A x : x \in About(Way)' <=> x \in About(Way) \/ x = item.about
    <3>1. \A x : x \in About(Append(Way, item)) <=> x \in About(Way) \/ item.about = x
        BY <1>1, <1>2, AboutAppended
    <3>2. About(Way)' = About(Append(Way, item)) BY <2>2 DEF About
    <3> QED BY <3>1, <3>2
  <2>4. /\ \A x \in Things : x # item.about => latest'[x] = latest[x]
        /\ latest'[item.about] = row
      BY <1>1, <1>2, <2>1 DEF Tables
  <2>5. /\ item.about \in Logs => excused' = excused
        /\ \A x : x \in excused /\ x # item.about => x \in excused'
    <3>1. excused' = IF item.about \in Messages THEN excused \ {item.about} ELSE excused
        BY <1>4 DEF Offer, Owed
    <3> QED BY <3>1, Constants
  <2>6. ASSUME NEW x \in Things, x # item.about, NEW first, Current(x, first)
        PROVE  Leads(x, first, Way', latest'[x])
      BY <1>2, <2>2, <2>4, <2>6, LeadsBeforeOthers DEF Current
  <2>7. ASSUME item.about \in Messages, NEW first
        PROVE  Leads(item.about, first, Way', latest'[item.about])
      BY <1>2, <2>2, <2>4, <2>7, LeadsToRecord
  <2>8. ASSUME item.about \in Logs, item.about \notin excused, ~Clearing
        PROVE  Leads(item.about, Table[item.about], Way', latest'[item.about])
    <3>1. Leads(item.about, Table[item.about], Way, latest[item.about])
        BY <1>1, <2>8 DEF Sound, OwedOK, Current
    <3>2. row = After(item.about, latest[item.about], item) BY <2>8
    <3> QED BY <1>1, <1>2, <2>2, <2>4, <3>1, <3>2, LeadsOn
  <2>9. ASSUME ~Clearing, NEW x \in Things, x \notin excused'
        PROVE  Leads(x, Table[x], Way', latest'[x])
    <3>1. CASE x # item.about
      <4>1. Current(x, Table[x]) BY <2>5, <2>9, <3>1 DEF Sound, OwedOK
      <4> QED BY <2>6, <3>1, <4>1
    <3>2. CASE x = item.about BY <2>5, <2>7, <2>8, <2>9, <3>2 DEF Things
    <3> QED BY <3>1, <3>2
  <2>10. ASSUME Clearing, NEW m \in Messages, m \notin excused', m \in About(Way)'
         PROVE  Leads(m, None, Way', latest'[m])
    <3>1. CASE m # item.about
      <4>1. Current(m, None) BY <2>3, <2>5, <2>10, <3>1 DEF Sound, OwedOK
      <4> QED BY <2>6, <3>1, <4>1 DEF Things
    <3>2. CASE m = item.about BY <2>7, <3>2
    <3> QED BY <3>1, <3>2
  <2>11. ASSUME Clearing, NEW i \in 1..Len(Way'), Way'[i] # None
         PROVE  Way'[i].operation # "log"
    <3>1. \A j \in 1..Len(Way) : Way[j] # None => Way[j].operation # "log"
        BY <2>11 DEF Sound, OwedOK
    <3>2. (i \in 1..Len(Way) /\ Way'[i] = Way[i]) \/ Way'[i] = item BY <1>1, <1>2, <2>2
    <3> QED BY <2>11, <3>1, <3>2
  <2>12. OwedOK' BY <1>3, <2>9, <2>10, <2>11 DEF OwedOK, Current
  <2> QED BY <1>4, <2>3, <2>12
<1>5. CASE ~Accepted(item)
  <2>1. UNCHANGED <<queue, latest>> /\ excused \subseteq excused'
      BY <1>5 DEF Offer, Enqueue, Owed
  <2>2. Way' = Way BY <2>1 DEF Way
  <2>3. OwedOK' BY <1>3, <2>1, <2>2 DEF Sound, OwedOK, Current
  <2> QED BY <2>2, <2>3 DEF About
<1> QED BY <1>4, <1>5

LEMMA LogsKept ==
    ASSUME LogsOK, UNCHANGED <<writer, logs, delivery>>,
           \A l \in Logs : l \in About(Way)' => l \in About(Way)
    PROVE  LogsOK'
BY DEF LogsOK

LEMMA MessagesSound ==
    ASSUME Sound, LogsOK, NEW item \in Records, item.about \in Messages,
           Offer(item, item.row),
           UNCHANGED <<writer, batch, closing, tables, command, delivery>>
    PROVE  Sound' /\ LogsOK'
<1>1. /\ IsRow(item.about, item.row) /\ item.operation # "log" /\ item.about \notin Logs
    BY RecordsFit, Constants DEF IsRecord
<1>2. StoreTyped' /\ QueueOK' /\ FilesAreCounted' BY <1>1, OfferTyped
<1>3. /\ OwedOK'
      /\ \A x : x \in About(Way)' => x \in About(Way) \/ x = item.about
    BY <1>1, OfferOwed
<1>4. LogsOK' BY <1>1, <1>3, LogsKept DEF tables
<1> QED BY <1>2, <1>3, <1>4 DEF Sound

LEMMA SnapshotsSound ==
    ASSUME IInv, Snapshots
    PROVE  Sound' /\ LogsOK'
<1> USE DEF settings, bounds, discord
<1>0. Sound /\ LogsOK /\ RestTyped BY DEF IInv, Sound
<1>1. UNCHANGED <<writer, batch, closing, tables, delivery, command>> BY SnapshotsOffer
<1>2. ASSUME UNCHANGED <<queue, fileBytes, history>> PROVE Sound' /\ LogsOK'
  <2>1. Sound' /\ About(Way)' = About(Way) BY <1>0, <1>1, <1>2, KeptSound DEF Clearing
  <2> QED BY <1>0, <1>1, <2>1, LogsKept DEF tables
<1>3. ASSUME NEW m \in Messages, NEW snapshot \in Snapshot, EnqueueMessage(m, snapshot)
      PROVE  Sound' /\ LogsOK'
  <2> DEFINE item == Item("message", m, snapshot)
  <2>1. item \in Records /\ item.about = m /\ item.row = snapshot BY DEF Item, Records
  <2>2. CASE Running
    <3>1. Offer(item, snapshot) BY <1>3, <2>1, <2>2 DEF EnqueueMessage, Offer
    <3> HIDE DEF item
    <3> QED BY <1>0, <1>1, <2>1, <3>1, MessagesSound
  <2>3. CASE ~Running BY <1>2, <1>3, <2>3 DEF EnqueueMessage
  <2> QED BY <2>2, <2>3
<1>4. ASSUME NEW m \in Messages, ForgetMessage(m) PROVE Sound' /\ LogsOK'
  <2> DEFINE item == Item("delete_messages", m, None)
  <2>1. item \in Records /\ item.about = m /\ item.row = None BY DEF Item, Records
  <2>2. Offer(item, None) BY <1>4, <2>1 DEF ForgetMessage, Offer
  <2> HIDE DEF item
  <2> QED BY <1>0, <1>1, <2>1, <2>2, MessagesSound
<1>5. ASSUME NEW m \in Messages, Capture(m) PROVE Sound' /\ LogsOK'
  <2>1. [version |-> version[m] + 1, files |-> 0] \in Snapshot
      BY <1>0, <1>5, SnapshotsFit DEF Capture
  <2> QED BY <1>2, <1>3, <1>5, <2>1 DEF Capture
<1>6. ASSUME NEW m \in Messages, Delete(m) \/ RawDelete(m) PROVE Sound' /\ LogsOK'
    BY <1>2, <1>4, <1>6 DEF Delete, RawDelete
<1>7. ASSUME NEW m \in Messages, NEW v \in 1..MaxVersion, CaptureFiles(m, v)
      PROVE  Sound' /\ LogsOK'
    BY <1>0, <1>3, <1>7, SnapshotsFit DEF CaptureFiles
<1>8. ASSUME NEW m \in Messages, NEW v \in 1..MaxVersion, NoFiles(m, v)
      PROVE  Sound' /\ LogsOK'
    BY <1>2, <1>8 DEF NoFiles, archive
<1> QED BY <1>5, <1>6, <1>7, <1>8 DEF Snapshots

\* Nothing is known of a log before it is staged or dropped.
LEMMA NewLogsAreUnknown ==
    ASSUME IInv, NEW l \in Logs, delivery[l] = "new", enabled
    PROVE  /\ ~Clearing /\ logs[l] = None
           /\ l \in excused \/ latest[l] = None
<1>1. ~Clearing BY DEF IInv, CommandOK, Clearing
<1>2. logs[l] = None /\ l \notin About(Way) BY DEF IInv, LogsOK
<1>3. ASSUME l \notin excused PROVE latest[l] = None
  <2>1. Leads(l, None, Way, latest[l])
      BY <1>1, <1>2, <1>3, TableIs DEF IInv, OwedOK, Current
  <2>2. Way \in Seq(Items) BY WayTyped DEF IInv
  <2> QED BY <1>2, <2>1, <2>2, LeadsPastOthers
<1> QED BY <1>1, <1>2, <1>3

LEMMA StageLogSound ==
    ASSUME IInv, NEW l \in Logs, NEW status \in {"pending", "dropped"}, delivery[l] = "new",
           enabled, StageLog(l, status),
           delivery' = [delivery EXCEPT ![l] = delivery'[l]],
           delivery'[l] \in {"staged", "unstaged", "over"},
           Accepted(Item("log", l, status)) => delivery'[l] # "unstaged",
           UNCHANGED <<writer, batch, closing, tables, command>>
    PROVE  Sound' /\ LogsOK'
<1> DEFINE item == Item("log", l, status)
<1>1. /\ item \in Records /\ item.about = l /\ item.row = status /\ item.operation = "log"
      /\ l \notin Messages /\ item # None
  <2>1. item \in Records /\ item.about = l /\ item.row = status /\ item.operation = "log"
      BY DEF Item, Records, Status
  <2> QED BY <2>1, Constants
<1>2. IsRow(l, status) BY <1>1 DEF IsRow, Status
<1>3. Offer(item, status) BY <1>1 DEF StageLog, Offer
<1>4. ~Clearing /\ logs[l] = None /\ (l \in excused \/ status = After(l, latest[l], item))
  <2> HIDE DEF item
  <2> QED BY <1>1, NewLogsAreUnknown DEF After
<1>5. Sound BY DEF IInv, Sound
<1>6. Accepted(item) => delivery'[l] # "unstaged" OBVIOUS
<1> HIDE DEF item
<1>7. StoreTyped' /\ QueueOK' /\ FilesAreCounted'
    BY <1>1, <1>2, <1>3, <1>5, OfferTyped
<1>8. /\ OwedOK'
      /\ \A x : x \in About(Way)' => x \in About(Way) \/ (Accepted(item) /\ x = l)
    BY <1>1, <1>3, <1>4, <1>5, OfferOwed
<1>9. delivery \in [Logs -> {"new", "staged", "unstaged", "over", "lost"}]
    BY DEF IInv, RestTyped
<1>10. \A k \in Logs : k # l => delivery'[k] = delivery[k] BY <1>9
<1>11. l \notin About(Way) BY DEF IInv, LogsOK
<1>12. LogsOK' BY <1>4, <1>6, <1>8, <1>10, <1>11 DEF IInv, LogsOK, tables
<1> QED BY <1>7, <1>8, <1>12 DEF Sound

LEMMA WorkerSound ==
    ASSUME IInv, NEW l \in Logs, Worker(l)
    PROVE  Sound' /\ LogsOK'
<1>0. /\ Sound /\ LogsOK
      /\ delivery \in [Logs -> {"new", "staged", "unstaged", "over", "lost"}]
    BY DEF IInv, Sound, RestTyped
<1>1. UNCHANGED <<writer, batch, closing, tables, command>> BY WorkerOffers
<1>2. CASE Stage(l)
  <2>1. /\ delivery' = [delivery EXCEPT ![l] = delivery'[l]]
        /\ delivery'[l] = IF Accepted(Item("log", l, "pending")) THEN "staged" ELSE "unstaged"
      BY <1>0, <1>2 DEF Stage
  <2>2. delivery[l] = "new" /\ enabled /\ StageLog(l, "pending") BY <1>2 DEF Stage
  <2>3. /\ delivery'[l] \in {"staged", "unstaged", "over"}
        /\ Accepted(Item("log", l, "pending")) => delivery'[l] # "unstaged"
      BY <2>1
  <2> QED BY <1>1, <2>1, <2>2, <2>3, StageLogSound
<1>3. CASE Drop(l)
  <2>1. delivery' = [delivery EXCEPT ![l] = delivery'[l]] /\ delivery'[l] = "over"
      BY <1>0, <1>3 DEF Drop
  <2> QED BY <1>1, <1>3, <2>1, StageLogSound DEF Drop
<1>4. CASE Deliver(l, "delivered")
  <2> DEFINE item == Item("delivery", l, "delivered")
             row == IF latest[l] = None THEN None ELSE "delivered"
  <2>1. /\ item \in Records /\ item.about = l /\ item.row = "delivered"
        /\ item.operation = "delivery" /\ l \notin Messages
      BY Constants DEF Item, Records, Status
  <2>2. IsRow(l, row) BY <2>1 DEF IsRow, Status
  <2>3. row = After(l, latest[l], item)
    <3>1. item # None BY <2>1, Constants
    <3> QED BY <2>1, <3>1 DEF After
  <2>4. delivery[l] \in {"staged", "unstaged"} /\ delivery'[l] = "over"
        /\ \A k \in Logs : k # l => delivery'[k] = delivery[k]
      BY <1>0, <1>4 DEF Deliver
  <2>5. /\ Sound'
        /\ \A x : x \in About(Way)' => x \in About(Way) \/ (delivery[l] = "staged" /\ x = l)
    <3>1. CASE delivery[l] = "staged"
      <4>1. Offer(item, row) BY <1>4, <2>1, <3>1 DEF Deliver, Offer
      <4> HIDE DEF item, row
      <4>2. StoreTyped' /\ QueueOK' /\ FilesAreCounted'
          BY <1>0, <1>1, <2>1, <2>2, <4>1, OfferTyped
      <4>3. OwedOK' /\ \A x : x \in About(Way)' => x \in About(Way) \/ x = l
          BY <1>0, <1>1, <2>1, <2>3, <4>1, OfferOwed
      <4> QED BY <3>1, <4>2, <4>3 DEF Sound
    <3>2. CASE delivery[l] # "staged"
      <4>1. UNCHANGED <<queue, fileBytes, history>> BY <1>4, <3>2 DEF Deliver
      <4>2. Clearing' = Clearing BY <1>1 DEF Clearing
      <4> QED BY <1>0, <1>1, <4>1, <4>2, KeptSound
    <3> QED BY <3>1, <3>2
  <2>6. LogsOK'
    <3> SUFFICES ASSUME NEW k \in Logs
                 PROVE  /\ logs[k] # None => delivery'[k] # "new"
                        /\ writer = "starting" /\ logs[k] # None => delivery'[k] = "lost"
                        /\ k \in About(Way)' => delivery'[k] \in {"staged", "over"}
                        /\ writer \notin {"starting", "failed"} /\ logs[k] = "pending" =>
                              delivery'[k] # "lost"
        BY <1>1 DEF LogsOK, tables
    <3>1. CASE k = l
      <4>1. writer = "starting" => logs[l] = None BY <1>0, <2>4 DEF LogsOK
      <4> QED BY <2>4, <3>1, <4>1
    <3>2. CASE k # l BY <1>0, <2>4, <2>5, <3>2 DEF LogsOK
    <3> QED BY <3>1, <3>2
  <2> QED BY <2>5, <2>6
<1> QED BY <1>2, <1>3, <1>4 DEF Worker

------------------------------------------------------------------------------
(* The writer. *)

\* What is removed from the tables is excused, unless a record of the queue says
\* what becomes of it.
LEMMA RemovalOwed ==
    ASSUME NEW base, NEW gone, Way' \in Seq(Items),
           \A x : x \in About(queue') => x \in About(Way'),
           \A x \in Things : Table'[x] = IF x \in gone THEN None ELSE base[x],
           Removed(gone),
           \A x \in Things \ excused : Leads(x, base[x], Way', latest'[x])
    PROVE  \A x \in Things \ excused' : Leads(x, Table'[x], Way', latest'[x])
<1> SUFFICES ASSUME NEW x \in Things \ excused'
             PROVE  Leads(x, Table'[x], Way', latest'[x])
    OBVIOUS
<1>1. x \notin excused /\ (x \notin gone \/ x \in About(queue') \ Logs) BY DEF Removed
<1>2. Leads(x, base[x], Way', latest'[x]) BY <1>1
<1>3. CASE x \notin gone BY <1>2, <1>3
<1>4. CASE x \in About(queue') \ Logs
  <2>1. x \in Messages /\ x \in About(Way') BY <1>4 DEF Things
  <2> QED BY <1>2, <2>1, LeadsFromAnywhere
<1> QED BY <1>1, <1>3, <1>4

\* The end of a batch: its bytes are given back, and a sentinel that was read with
\* it ends the writer.
LEMMA BatchOverKeeps ==
    ASSUME Sound, writer = "writing", BatchOver, UNCHANGED <<queue, closing>>
    PROVE  /\ writer' \in {"waiting", "ended"} /\ batch' = <<>>
           /\ fileBytes' \in 0..FileLimit
           /\ QueueOK' /\ FilesAreCounted' /\ Way' = queue
<1>1. queue \in Seq(Items) /\ batch \in Seq(Items) BY WayTyped DEF Sound
<1>2. writer' \in {"waiting", "ended"} /\ batch' = <<>> BY DEF BatchOver
<1>3. FilesIn(queue) \in Nat /\ FilesIn(batch) \in Nat BY <1>1, FilesAreNat
<1>4. fileBytes = FilesIn(queue) + FilesIn(batch) BY DEF Sound, FilesAreCounted
<1>5. fileBytes' = fileBytes - FilesIn(batch) BY DEF BatchOver
<1>6. fileBytes' = FilesIn(queue) BY <1>3, <1>4, <1>5
<1>7. fileBytes' \in 0..FileLimit
    BY <1>3, <1>4, <1>6, Constants DEF Sound, StoreTyped
<1>8. FilesAreCounted'
  <2>1. fileBytes' = FilesIn(queue) + 0 BY <1>3, <1>6
  <2> QED BY <1>2, <2>1, FilesOfNothing DEF FilesAreCounted
<1>9. QueueOK'
  <2>1. /\ \A i \in 1..Len(queue) :
              queue[i] = None => i = Len(queue) /\ closing \in {"waiting", "closed"}
        /\ closing = "waiting" /\ queue # <<>> => queue[Len(queue)] = None
        /\ closing # "closed"
      BY DEF Sound, QueueOK, Ended, BrokenOff
  <2>2. queue # <<>> => Len(queue) \in 1..Len(queue) BY <1>1
  <2>3. Stopping => queue = <<>> BY <1>1, <2>1, <2>2 DEF Stopping
  <2>4. CASE Stopping
    <3>1. writer' = "ended" /\ queue' = <<>> /\ closing' = "waiting"
        BY <2>3, <2>4 DEF BatchOver, Stopping
    <3>2. Len(<<>>) = 0 /\ 1..0 = {} OBVIOUS
    <3> QED BY <1>2, <3>1, <3>2 DEF QueueOK, Ended, BrokenOff
  <2>5. CASE ~Stopping
    <3>1. writer' = "waiting" BY <2>5 DEF BatchOver
    <3>2. closing = "waiting" => queue # <<>>
      <4>1. closing = "waiting" => \E i \in DOMAIN queue : queue[i] = None
          BY <2>5 DEF Stopping
      <4> QED BY <4>1
    <3> QED BY <1>2, <2>1, <3>1, <3>2 DEF QueueOK, Ended, BrokenOff
  <2> QED BY <2>4, <2>5
<1>10. Way' = queue BY <1>1, <1>2 DEF Way
<1> QED BY <1>2, <1>7, <1>8, <1>9, <1>10

LEMMA WrittenIsRow ==
    ASSUME StoreTyped
    PROVE  /\ \A x \in Things : IsRow(x, Written[x])
           /\ \A m \in Messages : Written[m] \in {None} \cup Snapshot
           /\ \A l \in Logs : Written[l] \in {None} \cup Status
<1>1. \A x \in Things : IsRow(x, Written[x])
  <2> SUFFICES ASSUME NEW x \in Things PROVE IsRow(x, Written[x])
      OBVIOUS
  <2>1. Leads(x, Table[x], batch, Written[x]) BY WrittenLeads, TableTyped DEF StoreTyped
  <2> QED BY <2>1, LeadsTyped, TableTyped, WayTyped
<1> QED BY <1>1, Constants DEF IsRow, Things

\* Once a batch is written, what is left of the queue leads the tables on.
LEMMA WrittenLeadsOn ==
    ASSUME StoreTyped, NEW x \in Things, Current(x, Table[x])
    PROVE  Leads(x, Written[x], queue, latest[x])
<1>1. queue \in Seq(Items) /\ batch \in Seq(Items) BY WayTyped
<1>2. PICK mid : Leads(x, Table[x], batch, mid) /\ Leads(x, mid, queue, latest[x])
    BY <1>1, LeadsThrough DEF Current, Way
<1>3. Leads(x, Table[x], batch, Written[x]) BY WrittenLeads, TableTyped DEF StoreTyped
<1> QED BY <1>1, <1>2, <1>3, LeadsOnce

\* While the tables are being cleared, the end of a batch changes nothing.
LEMMA ClearingGoesOn ==
    ASSUME Sound, Clearing, Way' = queue, latest' = latest, excused \subseteq excused',
           command' = command
    PROVE  OwedOK'
<1>1. queue \in Seq(Items) /\ batch \in Seq(Items) BY WayTyped DEF Sound
<1>2. Clearing' BY DEF Clearing
<1>3. \A x : x \in About(queue) => x \in About(Way) BY WayTyped DEF Sound
<1>4. ASSUME NEW m \in Messages \ excused', m \in About(queue)
      PROVE  Leads(m, None, queue, latest[m])
  <2>1. Leads(m, None, Way, latest[m]) BY <1>3, <1>4 DEF Sound, OwedOK, Current
  <2>2. PICK mid : Leads(m, mid, queue, latest[m]) BY <1>1, <2>1, LeadsThrough DEF Way
  <2> QED BY <1>1, <1>4, <2>2, LeadsFromAnywhere
<1>5. ASSUME NEW i \in 1..Len(queue), queue[i] # None PROVE queue[i].operation # "log"
  <2>1. /\ Len(batch) + i \in 1..Len(Way) /\ Way[Len(batch) + i] = queue[i]
    <3>1. Len(Way) = Len(batch) + Len(queue) /\ Way[Len(batch) + i] = queue[i]
        BY WayTyped DEF Sound
    <3> QED BY <1>1, <3>1
  <2> QED BY <1>5, <2>1 DEF Sound, OwedOK
<1>6. About(Way)' = About(queue) BY DEF About
<1> QED BY <1>2, <1>4, <1>5, <1>6 DEF OwedOK, Current

LEMMA WriteBatchSound ==
    ASSUME Sound, LogsOK, WriteBatch
    PROVE  Sound' /\ LogsOK'
<1>0. StoreTyped /\ LogsOK BY DEF Sound
<1>1. /\ writer = "writing" /\ UNCHANGED <<closing, queue, latest, delivery, command>>
      /\ BatchOver
    BY DEF WriteBatch
<1>2. PICK over \in SUBSET Old(Written) :
         /\ messages' = [m \in Messages |-> IF m \in over THEN None ELSE Written[m]]
         /\ logs' = [l \in Logs |-> IF l \in over THEN None ELSE Written[l]]
         /\ Removed(over)
    BY DEF WriteBatch
<1>3. over \subseteq Things BY Constants DEF Old
<1>4. /\ writer' \in {"waiting", "ended"} /\ batch' = <<>> /\ fileBytes' \in 0..FileLimit
      /\ QueueOK' /\ FilesAreCounted' /\ Way' = queue
    BY <1>1, BatchOverKeeps
<1>5. queue \in Seq(Items) /\ Way \in Seq(Items) BY <1>0, WayTyped
<1>6. StoreTyped'
  <2>1. messages' \in [Messages -> {None} \cup Snapshot]
      BY <1>0, <1>2, WrittenIsRow
  <2>2. logs' \in [Logs -> {None} \cup Status]
      BY <1>0, <1>2, WrittenIsRow
  <2>3. excused' \subseteq Things BY <1>0, <1>2, <1>3 DEF Removed, StoreTyped
  <2>4. batch' \in Seq(Records) /\ Len(batch') <= BatchSize
    <3>1. <<>> \in Seq(Records) /\ Len(<<>>) = 0 OBVIOUS
    <3> QED BY <1>4, <3>1, Constants
  <2> QED BY <1>0, <1>1, <1>4, <2>1, <2>2, <2>3, <2>4 DEF StoreTyped
<1>7. OwedOK'
  <2>1. CASE Clearing
    <3>1. excused \subseteq excused' BY <1>2 DEF Removed
    <3> QED BY <1>1, <1>4, <2>1, <3>1, ClearingGoesOn
  <2>2. CASE ~Clearing
    <3>1. \A x \in Things : Table'[x] = IF x \in over THEN None ELSE Written[x]
        BY <1>2 DEF Table, Things
    <3>2. \A x \in Things \ excused : Leads(x, Written[x], queue, latest[x])
        BY <1>0, <2>2, WrittenLeadsOn DEF Sound, OwedOK
    <3>3. \A x \in Things \ excused' : Leads(x, Table'[x], Way', latest'[x])
      <4>1. \A x : x \in About(queue') => x \in About(Way') BY <1>1, <1>4
      <4>2. \A x \in Things \ excused : Leads(x, Written[x], Way', latest'[x])
          BY <1>1, <1>4, <3>2
      <4>3. Way' \in Seq(Items) BY <1>4, <1>5
      <4> QED BY <1>2, <3>1, <4>1, <4>2, <4>3, RemovalOwed
    <3>4. ~Clearing' BY <1>1, <2>2 DEF Clearing
    <3> QED BY <3>3, <3>4 DEF OwedOK, Current
  <2> QED BY <2>1, <2>2
<1>8. LogsOK'
  <2> SUFFICES ASSUME NEW l \in Logs
               PROVE  /\ logs'[l] # None => delivery[l] # "new"
                      /\ l \in About(Way)' => delivery[l] \in {"staged", "over"}
                      /\ logs'[l] = "pending" => delivery[l] # "lost"
      BY <1>1, <1>4 DEF LogsOK
  <2>1. About(Way)' = About(queue) BY <1>4 DEF About
  <2>2. l \in About(Way) => delivery[l] \in {"staged", "over"} BY <1>0 DEF LogsOK
  <2>3. l \in About(queue) \/ l \in About(batch) => l \in About(Way) BY <1>0, WayTyped
  <2>4. logs'[l] = None \/ logs'[l] = Written[l] BY <1>2
  <2>5. l \notin About(batch) => Written[l] = logs[l]
    <3>1. Leads(l, logs[l], batch, Written[l])
        BY <1>0, WrittenLeads, TableTyped, TableIs DEF StoreTyped
    <3> QED BY <1>0, <3>1, WayTyped, LeadsPastOthers
  <2>6. None # "pending" BY Constants DEF Status
  <2> QED BY <1>0, <1>1, <2>1, <2>2, <2>3, <2>4, <2>5, <2>6 DEF LogsOK
<1> QED BY <1>4, <1>6, <1>7, <1>8 DEF Sound

LEMMA BatchFailsSound ==
    ASSUME Sound, LogsOK, BatchFails
    PROVE  Sound' /\ LogsOK'
<1>0. StoreTyped /\ LogsOK BY DEF Sound
<1>1. /\ writer = "writing" /\ UNCHANGED <<closing, queue, latest, delivery, command, tables>>
      /\ BatchOver /\ Removed(About(batch))
    BY DEF BatchFails
<1>2. /\ writer' \in {"waiting", "ended"} /\ batch' = <<>> /\ fileBytes' \in 0..FileLimit
      /\ QueueOK' /\ FilesAreCounted' /\ Way' = queue
    BY <1>1, BatchOverKeeps
<1>3. queue \in Seq(Items) /\ batch \in Seq(Items) BY <1>0, WayTyped
<1>4. StoreTyped'
  <2>1. About(batch) \subseteq Things
    <3>1. \A i \in DOMAIN batch : batch[i].about \in Things
        BY <1>0, RecordsFit DEF StoreTyped
    <3> QED BY <3>1 DEF About
  <2>2. excused' \subseteq Things BY <1>0, <1>1, <2>1 DEF Removed, StoreTyped
  <2>3. batch' \in Seq(Records) /\ Len(batch') <= BatchSize
    <3>1. <<>> \in Seq(Records) /\ Len(<<>>) = 0 OBVIOUS
    <3> QED BY <1>2, <3>1, Constants
  <2> QED BY <1>0, <1>1, <1>2, <2>2, <2>3 DEF StoreTyped, tables
<1>5. excused \subseteq excused' /\ Table' = Table BY <1>1 DEF Removed, tables, Table
<1>6. OwedOK'
  <2>1. CASE Clearing BY <1>1, <1>2, <1>5, <2>1, ClearingGoesOn
  <2>2. CASE ~Clearing
    <3>1. ASSUME NEW x \in Things \ excused' PROVE Leads(x, Table[x], queue, latest[x])
      <4>1. x \notin excused /\ (x \notin About(batch) \/ x \in About(queue) \ Logs)
          BY <1>1, <3>1 DEF Removed
      <4>2. PICK mid : Leads(x, Table[x], batch, mid) /\ Leads(x, mid, queue, latest[x])
        <5>1. Leads(x, Table[x], batch \o queue, latest[x])
            BY <2>2, <4>1 DEF Sound, OwedOK, Current, Way
        <5> QED BY <1>3, <5>1, LeadsThrough
      <4>3. CASE x \notin About(batch)
        <5>1. mid = Table[x] BY <1>3, <4>2, <4>3, LeadsPastOthers
        <5> QED BY <4>2, <5>1
      <4>4. CASE x \in About(queue) \ Logs
        <5>1. x \in Messages BY <4>4 DEF Things
        <5> QED BY <1>3, <4>2, <4>4, <5>1, LeadsFromAnywhere
      <4> QED BY <4>1, <4>3, <4>4
    <3>2. ~Clearing' BY <1>1, <2>2 DEF Clearing
    <3> QED BY <1>1, <1>2, <1>5, <3>1, <3>2 DEF OwedOK, Current
  <2> QED BY <2>1, <2>2
<1>7. LogsOK'
  <2>1. About(Way)' = About(queue) BY <1>2 DEF About
  <2>2. \A l \in Logs : l \in About(queue) => l \in About(Way) BY <1>0, WayTyped
  <2> QED BY <1>0, <1>1, <1>2, <2>1, <2>2 DEF LogsOK, tables
<1> QED BY <1>2, <1>4, <1>6, <1>7 DEF Sound

LEMMA InitializeSound ==
    ASSUME IInv, Initialize
    PROVE  Sound' /\ LogsOK'
<1> USE DEF settings, discord, bounds
<1>0. StoreTyped /\ QueueOK /\ LogsOK /\ ~Clearing /\ Way \in Seq(Items)
    BY WayTyped DEF IInv, CommandOK, Clearing, Initialize
<1> DEFINE base == [x \in Things |-> IF x \in Messages THEN messages[x]
                                     ELSE Uncertain(logs[x])]
<1>1. PICK expired \in SUBSET Present :
         /\ messages' = [m \in Messages |-> IF m \in expired THEN None ELSE messages[m]]
         /\ logs' = [l \in Logs |-> IF l \in expired THEN None ELSE Uncertain(logs[l])]
         /\ Removed(expired)
    BY DEF Initialize, PruneExpired
<1>2. /\ writer = "starting" /\ writer' = "waiting"
      /\ UNCHANGED <<queue, batch, fileBytes, closing, delivery, command>>
      /\ \A x \in Things : latest'[x] = IF x \in Logs /\ logs[x] # None
                                        THEN Uncertain(logs[x]) ELSE latest[x]
      /\ DOMAIN latest' = Things
    BY DEF Initialize, PruneExpired
<1>3. expired \subseteq Things BY Constants DEF Present, Old
<1>4. /\ None # "pending"
      /\ \A l \in Logs : Uncertain(logs[l]) \in {None} \cup Status /\ Uncertain(logs[l]) # "pending"
      /\ \A l \in Logs : logs[l] # None => Uncertain(logs[l]) \in Status
    BY <1>0, Constants DEF Uncertain, Status, StoreTyped
<1>5. latest' \in Tables /\ \A x \in Things : IsRow(x, latest'[x])
  <2>1. \A x \in Things : IsRow(x, latest[x]) BY <1>0 DEF StoreTyped
  <2>2. \A x \in Things : IsRow(x, latest'[x]) BY <1>2, <1>4, <2>1, Constants DEF IsRow
  <2>3. \A x \in Things : latest'[x] \in Rows BY <2>2 DEF IsRow, Rows
  <2>4. latest' = [x \in Things |-> latest'[x]] BY DEF Initialize
  <2> QED BY <2>2, <2>3, <2>4 DEF Tables
<1>6. StoreTyped'
  <2>1. messages' \in [Messages -> {None} \cup Snapshot] BY <1>0, <1>1 DEF StoreTyped
  <2>2. logs' \in [Logs -> {None} \cup Status] BY <1>1, <1>4
  <2>3. excused' \subseteq Things BY <1>0, <1>1, <1>3 DEF Removed, StoreTyped
  <2> QED BY <1>0, <1>2, <1>5, <2>1, <2>2, <2>3 DEF StoreTyped
<1>7. QueueOK' BY <1>0, <1>2 DEF QueueOK, Ended, BrokenOff
<1>8. FilesAreCounted' BY <1>2 DEF IInv, FilesAreCounted
<1>9. Way' = Way /\ About(Way)' = About(Way) BY <1>2 DEF Way, About
<1>10. OwedOK'
  <2>1. \A x \in Things : Table'[x] = IF x \in expired THEN None ELSE base[x]
      BY <1>1 DEF Table, Things
  <2>2. ASSUME NEW x \in Things \ excused PROVE Leads(x, base[x], Way, latest'[x])
    <3>1. Leads(x, Table[x], Way, latest[x]) BY <1>0, <2>2 DEF IInv, OwedOK, Current
    <3>2. CASE x \in Logs /\ logs[x] # None
      <4>1. x \notin About(Way) BY <1>2, <3>2 DEF IInv, LogsOK
      <4>2. base[x] = Uncertain(logs[x]) /\ latest'[x] = Uncertain(logs[x])
          BY <1>2, <3>2, Constants
      <4> QED BY <1>0, <4>1, <4>2, LeadsPastOthers
    <3>3. CASE ~(x \in Logs /\ logs[x] # None)
      <4>1. base[x] = Table[x] /\ latest'[x] = latest[x]
          BY <1>2, <1>4, <3>3 DEF Table, Uncertain, Things
      <4> QED BY <3>1, <4>1
    <3> QED BY <3>2, <3>3
  <2>3. \A x : x \in About(queue') => x \in About(Way') BY <1>0, <1>2, <1>9, WayTyped
  <2> HIDE DEF base
  <2>4. \A x \in Things \ excused' : Leads(x, Table'[x], Way', latest'[x])
      BY <1>0, <1>1, <1>9, <2>1, <2>2, <2>3, RemovalOwed
  <2>5. ~Clearing' BY <1>0, <1>2 DEF Clearing
  <2> QED BY <2>4, <2>5 DEF OwedOK, Current
<1>11. LogsOK'
  <2>1. \A l \in Logs : /\ logs'[l] # None => logs[l] # None
                        /\ logs'[l] # "pending"
      BY <1>1, <1>4 DEF Uncertain
  <2> QED BY <1>0, <1>2, <1>9, <2>1 DEF LogsOK
<1> QED BY <1>6, <1>7, <1>8, <1>10, <1>11 DEF Sound

LEMMA PruneSound ==
    ASSUME Sound, LogsOK, NEW expired \in SUBSET Present, PruneExpired(logs, expired),
           writer' = writer \/ (writer = "waiting" /\ writer' = "stopped"),
           UNCHANGED <<latest, closing, delivery>>, Clearing' <=> Clearing
    PROVE  Sound' /\ LogsOK'
<1>0. StoreTyped /\ QueueOK /\ Way \in Seq(Items) BY WayTyped DEF Sound
<1>1. /\ messages' = [m \in Messages |-> IF m \in expired THEN None ELSE messages[m]]
      /\ logs' = [l \in Logs |-> IF l \in expired THEN None ELSE logs[l]]
      /\ UNCHANGED <<queue, batch, fileBytes>> /\ Removed(expired)
    BY DEF PruneExpired
<1>2. expired \subseteq Things BY Constants DEF Present, Old
<1>3. StoreTyped'
  <2>1. messages' \in [Messages -> {None} \cup Snapshot] BY <1>0, <1>1 DEF StoreTyped
  <2>2. logs' \in [Logs -> {None} \cup Status] BY <1>0, <1>1 DEF StoreTyped
  <2>3. excused' \subseteq Things BY <1>0, <1>1, <1>2 DEF Removed, StoreTyped
  <2> QED BY <1>0, <1>1, <2>1, <2>2, <2>3 DEF StoreTyped
<1>4. QueueOK' BY <1>0, <1>1 DEF QueueOK, Ended, BrokenOff
<1>5. FilesAreCounted' BY <1>1 DEF Sound, FilesAreCounted
<1>6. Way' = Way /\ About(Way)' = About(Way) BY <1>1 DEF Way, About
<1>7. OwedOK'
  <2>1. \A x \in Things : Table'[x] = IF x \in expired THEN None ELSE Table[x]
      BY <1>1 DEF Table, Things
  <2>2. \A x : x \in About(queue') => x \in About(Way') BY <1>0, <1>1, <1>6, WayTyped
  <2>3. CASE ~Clearing
    <3>1. \A x \in Things \ excused : Leads(x, Table[x], Way', latest'[x])
        BY <1>6, <2>3 DEF Sound, OwedOK, Current
    <3>2. \A x \in Things \ excused' : Leads(x, Table'[x], Way', latest'[x])
        BY <1>0, <1>1, <1>6, <2>1, <2>2, <3>1, RemovalOwed
    <3> QED BY <2>3, <3>2 DEF OwedOK, Current
  <2>4. CASE Clearing
    <3>1. excused \subseteq excused' BY <1>1 DEF Removed
    <3> QED BY <1>6, <2>4, <3>1 DEF Sound, OwedOK, Current
  <2> QED BY <2>3, <2>4
<1>8. LogsOK'
  <2>1. \A l \in Logs : /\ logs'[l] # None => logs[l] # None
                        /\ logs'[l] = "pending" => logs[l] = "pending"
      BY <1>1, Constants DEF Status
  <2> QED BY <1>6, <2>1 DEF LogsOK
<1> QED BY <1>3, <1>4, <1>5, <1>7, <1>8 DEF Sound

\* The writer can always take what it asks for: the batch ends where it is full, at
\* the end of the queue, or in front of the sentinel.
LEMMA TakenExists ==
    ASSUME queue \in Seq(Items), queue # <<>>, Head(queue) # None
    PROVE  \E k \in 1..Len(queue) :
              /\ k = BatchSize \/ k = Len(queue) \/ queue[k + 1] = None
              /\ k <= BatchSize
              /\ \A i \in 1..k : queue[i] # None
<1> DEFINE N == Len(queue)
           T == {k \in 0..N : k > 0 /\ (k = BatchSize \/ k = N \/ queue[k + 1] = None)}
<1>1. N \in Nat /\ N > 0 /\ queue[1] # None OBVIOUS
<1> HIDE DEF N
<1>2. N \in T BY <1>1
<1>3. PICK m \in T : \A k \in T : m <= k
  <2>1. T \in SUBSET (0..N) OBVIOUS
  <2> HIDE DEF T
  <2> QED BY <1>1, <1>2, <2>1, Smallest
<1>4. m \in 1..N /\ (m = BatchSize \/ m = N \/ queue[m + 1] = None) BY <1>1, <1>3
<1>5. m <= BatchSize
  <2> SUFFICES ASSUME BatchSize < m PROVE FALSE BY <1>1, <1>4, Constants
  <2>1. BatchSize \in T BY <1>1, <1>4, Constants
  <2> QED BY <1>3, <1>4, <2>1, Constants
<1>6. ASSUME NEW i \in 1..m, queue[i] = None PROVE FALSE
  <2>1. i # 1 BY <1>1, <1>6
  <2>2. i - 1 \in 0..N /\ i - 1 > 0 /\ (i - 1) + 1 = i /\ i - 1 < m BY <1>1, <1>4, <2>1
  <2>3. i - 1 \in T BY <1>6, <2>2
  <2> QED BY <1>3, <1>4, <2>2, <2>3
<1> QED BY <1>4, <1>5, <1>6 DEF N

LEMMA TakeIs ==
    ASSUME Sound, queue # <<>>, Head(queue) # None, Take
    PROVE  /\ batch' \in Seq(Records) /\ Len(batch') <= BatchSize
           /\ queue' \in Seq(Items) /\ Len(queue') <= QueueSize
           /\ \/ queue = batch' \o queue'
              \/ queue = Append(batch', None) /\ queue' = <<>>
           /\ \A i \in 1..Len(queue') : queue'[i] = None =>
                 i = Len(queue') /\ closing \in {"waiting", "closed"}
           /\ queue' # <<>> => queue'[Len(queue')] = queue[Len(queue)]
<1>1. queue \in Seq(Items) /\ Len(queue) <= QueueSize
      /\ \A i \in 1..Len(queue) :
            queue[i] = None => i = Len(queue) /\ closing \in {"waiting", "closed"}
    BY DEF Sound, StoreTyped, QueueOK
<1> DEFINE n == CHOOSE k \in 1..Len(queue) :
                    /\ k = BatchSize \/ k = Len(queue) \/ queue[k + 1] = None
                    /\ k <= BatchSize
                    /\ \A i \in 1..k : queue[i] # None
           N == Len(queue)
           rest == SubSeq(queue, n + 1, N)
<1>2. /\ n \in 1..N /\ n <= BatchSize
      /\ \A i \in 1..n : queue[i] # None
    BY <1>1, TakenExists
<1>3. /\ batch' = SubSeq(queue, 1, n)
      /\ queue' = IF rest # <<>> /\ Head(rest) = None /\ n < BatchSize THEN <<>> ELSE rest
    BY DEF Take
<1>4. N \in Nat /\ N <= QueueSize /\ n \in Nat BY <1>1, <1>2
<1> HIDE DEF n
<1>5. /\ batch' \in Seq(Items) /\ Len(batch') = n
      /\ \A i \in 1..n : batch'[i] = queue[i]
    BY <1>1, <1>2, <1>3, <1>4
<1>6. /\ rest \in Seq(Items) /\ Len(rest) = N - n
      /\ \A i \in 1..(N - n) : rest[i] = queue[n + i]
    BY <1>1, <1>2, <1>4
<1>7. batch' \in Seq(Records)
  <2>1. \A i \in 1..n : batch'[i] \in Records
    <3> SUFFICES ASSUME NEW i \in 1..n PROVE batch'[i] \in Records
        OBVIOUS
    <3>1. batch'[i] \in Items /\ batch'[i] # None BY <1>2, <1>5
    <3> QED BY <3>1 DEF Items
  <2>2. batch' = [i \in 1..n |-> batch'[i]] BY <1>5
  <2> QED BY <1>4, <2>1, <2>2
<1> HIDE DEF rest
<1>8. queue = batch' \o rest
  <2> DEFINE j == batch' \o rest
  <2>1. /\ j \in Seq(Items) /\ Len(j) = Len(batch') + Len(rest)
        /\ \A i \in 1..Len(batch') : j[i] = batch'[i]
        /\ \A i \in 1..Len(rest) : j[Len(batch') + i] = rest[i]
      BY <1>5, <1>6
  <2> HIDE DEF j
  <2>2. Len(j) = N BY <1>2, <1>4, <1>5, <1>6, <2>1
  <2>3. \A i \in 1..n : j[i] = queue[i] BY <1>5, <2>1
  <2>4. \A i \in 1..(N - n) : j[n + i] = queue[n + i] BY <1>5, <1>6, <2>1
  <2>5. \A i \in 1..N : i \in 1..n \/ (i - n \in 1..(N - n) /\ n + (i - n) = i)
      BY <1>2, <1>4
  <2>6. \A i \in 1..N : j[i] = queue[i]
    <3> SUFFICES ASSUME NEW i \in 1..N PROVE j[i] = queue[i]
        OBVIOUS
    <3>1. CASE i \in 1..n BY <2>3, <3>1
    <3>2. CASE i - n \in 1..(N - n) /\ n + (i - n) = i
      <4>1. j[n + (i - n)] = queue[n + (i - n)] BY <2>4, <3>2
      <4> QED BY <3>2, <4>1
    <3> QED BY <2>5, <3>1, <3>2
  <2>7. queue = j BY <1>1, <2>1, <2>2, <2>6
  <2> QED BY <2>7 DEF j
<1>9. CASE rest # <<>> /\ Head(rest) = None /\ n < BatchSize
  <2>1. queue' = <<>> BY <1>3, <1>9
  <2>2. N - n > 0 /\ rest[1] = None BY <1>4, <1>6, <1>9
  <2>3. n + 1 \in 1..N /\ queue[n + 1] = None BY <1>2, <1>4, <1>6, <2>2
  <2>4. n + 1 = N BY <1>1, <2>3
  <2>5. Len(rest) = 1 BY <1>4, <1>6, <2>4
  <2>6. rest = <<None>>
    <3>1. <<None>> \in Seq(Items) /\ Len(<<None>>) = 1 /\ <<None>>[1] = None BY DEF Items
    <3>2. \A i \in 1..1 : i = 1 OBVIOUS
    <3>3. \A i \in 1..1 : rest[i] = <<None>>[i] BY <2>2, <3>1, <3>2
    <3> HIDE DEF Items
    <3> QED BY <1>6, <2>5, <3>1, <3>3, SeqEqual
  <2>7. queue = Append(batch', None) BY <1>5, <1>8, <2>6
  <2> QED BY <1>2, <1>4, <1>5, <1>7, <2>1, <2>7, Constants
<1>10. CASE ~(rest # <<>> /\ Head(rest) = None /\ n < BatchSize)
  <2>1. queue' = rest BY <1>3, <1>10
  <2>2. \A i \in 1..(N - n) : n + i \in 1..N BY <1>2, <1>4
  <2>3. Len(queue') <= QueueSize BY <1>2, <1>4, <1>6, <2>1, Constants
  <2>4. \A i \in 1..Len(queue') : queue'[i] = None =>
            i = Len(queue') /\ closing \in {"waiting", "closed"}
    <3> SUFFICES ASSUME NEW i \in 1..(N - n), rest[i] = None
                 PROVE  i = N - n /\ closing \in {"waiting", "closed"}
        BY <1>6, <2>1
    <3>1. queue[n + i] = None /\ n + i \in 1..N BY <1>6, <2>2
    <3>2. n + i = N /\ closing \in {"waiting", "closed"} BY <1>1, <3>1
    <3> QED BY <1>4, <3>2
  <2>5. queue' # <<>> => queue'[Len(queue')] = queue[N]
    <3> SUFFICES ASSUME rest # <<>> PROVE rest[N - n] = queue[N]
        BY <1>6, <2>1
    <3>1. N - n \in 1..(N - n) /\ n + (N - n) = N BY <1>4, <1>6
    <3> QED BY <1>6, <3>1
  <2> QED BY <1>2, <1>5, <1>6, <1>7, <1>8, <2>1, <2>3, <2>4, <2>5
<1> QED BY <1>9, <1>10

\* What is owed stays so when the way loses its sentinel.
LEMMA WayKept ==
    ASSUME OwedOK, Way' \in Seq(Items), Way = Way' \/ Way = Append(Way', None),
           Clearing' <=> Clearing, UNCHANGED <<tables, history>>
    PROVE  OwedOK' /\ About(Way)' = About(Way)
<1> DEFINE way == Way'
<1>1. way \in Seq(Items) /\ None \in Items BY DEF Items
<1>2. Table' = Table /\ latest' = latest /\ excused' = excused BY DEF tables, history, Table
<1>3. /\ \A x, first, last : Leads(x, first, Way, last) <=> Leads(x, first, way, last)
      /\ \A x : x \in About(Way) <=> x \in About(way)
      /\ \A i \in 1..Len(way) : i \in 1..Len(Way) /\ Way[i] = way[i]
  <2>1. CASE Way = way BY <2>1
  <2>2. CASE Way = Append(way, None)
    <3> HIDE DEF way
    <3>1. \A x, first, last : Leads(x, first, Way, last) <=> Leads(x, first, way, last)
        BY <1>1, <2>2, LeadsToSentinel
    <3>2. \A x : x \in About(Way) <=> x \in About(way) BY <1>1, <2>2, AboutAppended
    <3>3. \A i \in 1..Len(way) : i \in 1..Len(Way) /\ Way[i] = way[i] BY <1>1, <2>2
    <3> QED BY <3>1, <3>2, <3>3
  <2> QED BY <2>1, <2>2
<1>4. ASSUME ~Clearing, NEW x \in Things \ excused PROVE Leads(x, Table[x], way, latest[x])
    BY <1>3, <1>4 DEF OwedOK, Current
<1>5. ASSUME Clearing, NEW m \in Messages \ excused, m \in About(way)
      PROVE  Leads(m, None, way, latest[m])
    BY <1>3, <1>5 DEF OwedOK, Current
<1>6. ASSUME Clearing, NEW i \in 1..Len(way), way[i] # None PROVE way[i].operation # "log"
  <2>1. i \in 1..Len(Way) /\ Way[i] = way[i] BY <1>3
  <2> QED BY <1>6, <2>1 DEF OwedOK
<1>7. OwedOK' BY <1>2, <1>4, <1>5, <1>6 DEF OwedOK, Current
<1>8. About(Way)' = About(way) BY DEF About
<1>9. About(way) = About(Way) BY <1>3
<1> QED BY <1>7, <1>8, <1>9

LEMMA TakeBatchSound ==
    ASSUME Sound, LogsOK, TakeBatch
    PROVE  Sound' /\ LogsOK'
<1>0. StoreTyped /\ QueueOK /\ queue \in Seq(Items) BY DEF Sound, StoreTyped
<1>1. /\ writer = "waiting" /\ queue # <<>> /\ Head(queue) # None /\ Take
      /\ writer' = "writing"
      /\ UNCHANGED <<fileBytes, closing, tables, delivery, command, history>>
    BY DEF TakeBatch
<1>2. /\ batch' \in Seq(Records) /\ Len(batch') <= BatchSize
      /\ queue' \in Seq(Items) /\ Len(queue') <= QueueSize
      /\ \/ queue = batch' \o queue'
         \/ queue = Append(batch', None) /\ queue' = <<>>
      /\ \A i \in 1..Len(queue') : queue'[i] = None =>
            i = Len(queue') /\ closing \in {"waiting", "closed"}
      /\ queue' # <<>> => queue'[Len(queue')] = queue[Len(queue)]
    BY <1>1, TakeIs
<1>3. batch' \in Seq(Items)
  <2>1. Records \subseteq Items BY DEF Items
  <2> QED BY <1>2, <2>1
<1>4. StoreTyped' BY <1>0, <1>1, <1>2 DEF StoreTyped, tables, history
<1>5. QueueOK' BY <1>0, <1>1, <1>2 DEF QueueOK, Ended, BrokenOff
<1>6. batch = <<>> /\ Way = queue BY <1>0, <1>1, WayIsQueue DEF QueueOK
<1>7. FilesAreCounted'
  <2>1. fileBytes' = FilesIn(queue) + 0
      BY <1>1, <1>6, FilesOfNothing DEF Sound, FilesAreCounted
  <2>2. FilesIn(queue) = FilesIn(queue') + FilesIn(batch')
    <3>1. FilesIn(batch') \in Nat /\ FilesIn(queue') \in Nat BY <1>2, <1>3, FilesAreNat
    <3>2. CASE queue = batch' \o queue'
      <4>1. FilesIn(queue) = FilesIn(batch') + FilesIn(queue')
          BY <1>2, <1>3, <3>2, FilesOfConcat
      <4> QED BY <3>1, <4>1
    <3>3. CASE queue = Append(batch', None) /\ queue' = <<>>
      <4>1. None \in Items /\ Bytes(None) = 0 BY DEF Items, Bytes
      <4>2. FilesIn(queue) = FilesIn(batch') + 0 BY <1>3, <3>3, <4>1, FilesOfAppend
      <4>3. FilesIn(queue') = 0 BY <3>3, FilesOfNothing
      <4> QED BY <3>1, <4>2, <4>3
    <3> QED BY <1>2, <3>2, <3>3
  <2>3. FilesIn(queue) \in Nat BY <1>0, FilesAreNat
  <2>4. fileBytes' = FilesIn(queue') + FilesIn(batch') BY <2>1, <2>2, <2>3
  <2> QED BY <2>4 DEF FilesAreCounted
<1>8. Way' \in Seq(Items) /\ (Way = Way' \/ Way = Append(Way', None))
  <2>1. Way' = batch' \o queue' BY DEF Way
  <2>2. Way' \in Seq(Items) BY <1>2, <1>3, <2>1
  <2>3. queue' = <<>> => Way' = batch' BY <1>3, <2>1
  <2> QED BY <1>2, <1>6, <2>1, <2>2, <2>3
<1>9. OwedOK' /\ About(Way)' = About(Way)
    BY <1>1, <1>8, WayKept DEF Sound, Clearing
<1>10. LogsOK' BY <1>1, <1>9 DEF LogsOK, tables
<1> QED BY <1>4, <1>5, <1>7, <1>9, <1>10 DEF Sound

LEMMA TakeSentinelSound ==
    ASSUME Sound, LogsOK, TakeSentinel
    PROVE  Sound' /\ LogsOK'
<1>0. StoreTyped /\ QueueOK /\ queue \in Seq(Items) BY DEF Sound, StoreTyped
<1>1. /\ writer = "waiting" /\ queue # <<>> /\ Head(queue) = None
      /\ queue' = Tail(queue) /\ writer' = "ended"
      /\ UNCHANGED <<batch, fileBytes, closing, tables, delivery, command, history>>
    BY DEF TakeSentinel
<1>2. queue = <<None>> /\ closing \in {"waiting", "closed"}
  <2>1. 1 \in 1..Len(queue) /\ queue[1] = None BY <1>0, <1>1
  <2>2. 1 = Len(queue) /\ closing \in {"waiting", "closed"} BY <1>0, <2>1 DEF QueueOK
  <2>3. <<None>> \in Seq(Items) /\ Len(<<None>>) = 1 /\ <<None>>[1] = None BY DEF Items
  <2>4. \A i \in 1..1 : i = 1 OBVIOUS
  <2>5. \A i \in 1..1 : queue[i] = <<None>>[i] BY <2>1, <2>3, <2>4
  <2>6. queue = <<None>>
    <3> HIDE DEF Items
    <3> QED BY <1>0, <2>2, <2>3, <2>5, SeqEqual
  <2> QED BY <2>2, <2>6
<1>3. queue' = <<>> /\ batch = <<>> /\ batch' = <<>> BY <1>0, <1>1, <1>2 DEF QueueOK
<1>4. <<>> \in Seq(Items) /\ Len(<<>>) = 0 /\ 1..0 = {} OBVIOUS
<1>5. StoreTyped' BY <1>0, <1>1, <1>3, <1>4, Constants DEF StoreTyped, tables, history
<1>6. QueueOK' BY <1>0, <1>1, <1>3, <1>4 DEF QueueOK, Ended, BrokenOff
<1>7. Way = Append(<<>>, None) /\ Way' = <<>> BY <1>2, <1>3 DEF Way
<1>8. FilesAreCounted'
  <2>1. None \in Items /\ Bytes(None) = 0 BY DEF Items, Bytes
  <2>2. FilesIn(Append(<<>>, None)) = 0 + 0 BY <1>4, <2>1, FilesOfAppend, FilesOfNothing
  <2>3. queue = Append(<<>>, None) BY <1>2
  <2>4. fileBytes = 0 BY <1>3, <2>2, <2>3, FilesOfNothing DEF Sound, FilesAreCounted
  <2>5. fileBytes' = FilesIn(<<>>) + FilesIn(<<>>) BY <1>1, <2>4, FilesOfNothing
  <2> QED BY <1>3, <2>5 DEF FilesAreCounted
<1>9. OwedOK' /\ About(Way)' = About(Way)
    BY <1>1, <1>4, <1>7, WayKept DEF Sound, Clearing
<1>10. LogsOK' BY <1>1, <1>9 DEF LogsOK, tables
<1> QED BY <1>5, <1>6, <1>8, <1>9, <1>10 DEF Sound

LEMMA InitializeFailsSound ==
    ASSUME Sound, LogsOK, InitializeFails
    PROVE  Sound' /\ LogsOK'
<1>0. StoreTyped /\ QueueOK /\ queue \in Seq(Items) BY DEF Sound, StoreTyped
<1>1. /\ writer = "starting" /\ writer' = "failed"
      /\ UNCHANGED <<queue, batch, fileBytes, closing, tables, delivery, command, history>>
    BY DEF InitializeFails
<1>2. StoreTyped' BY <1>0, <1>1 DEF StoreTyped, tables, history
<1>3. QueueOK' BY <1>0, <1>1 DEF QueueOK, Ended, BrokenOff
<1>4. FilesAreCounted' BY <1>1 DEF Sound, FilesAreCounted
<1>5. Way' = Way /\ Way \in Seq(Items) BY <1>0, <1>1, WayTyped DEF Way
<1>6. OwedOK' /\ About(Way)' = About(Way) BY <1>1, <1>5, WayKept DEF Sound, Clearing
<1>7. LogsOK' BY <1>1, <1>6 DEF LogsOK, tables
<1> QED BY <1>2, <1>3, <1>4, <1>6, <1>7 DEF Sound

------------------------------------------------------------------------------
(* close(), restarts and commands. *)

LEMMA ClosingSound ==
    ASSUME Sound, LogsOK, Close \/ PutSentinel \/ Closed
    PROVE  Sound' /\ LogsOK'
<1>0. StoreTyped /\ QueueOK /\ queue \in Seq(Items) BY DEF Sound, StoreTyped
<1>1. UNCHANGED <<writer, batch, fileBytes, tables, delivery, command, history>>
    BY DEF Close, PutSentinel, Closed, archive
<1>2. ASSUME queue' = queue, closing' \in {"putting", "waiting", "closed"}, QueueOK'
      PROVE  Sound' /\ LogsOK'
  <2>1. StoreTyped' BY <1>0, <1>1, <1>2 DEF StoreTyped, tables, history
  <2>2. FilesAreCounted' BY <1>1, <1>2 DEF Sound, FilesAreCounted
  <2>3. Way' = Way /\ Way \in Seq(Items) BY <1>0, <1>1, <1>2, WayTyped DEF Way
  <2>4. OwedOK' /\ About(Way)' = About(Way) BY <1>1, <2>3, WayKept DEF Sound, Clearing
  <2>5. LogsOK' BY <1>1, <2>4 DEF LogsOK, tables
  <2> QED BY <1>2, <2>1, <2>2, <2>4, <2>5 DEF Sound
<1>3. CASE Close \/ Closed
  <2>1. queue' = queue /\ closing' \in {"putting", "waiting", "closed"}
      BY <1>3 DEF Close, Closed, archive
  <2>2. QueueOK'
    <3>1. \/ closing = "no" /\ closing' = IF Ended THEN "waiting" ELSE "putting"
          \/ closing = "waiting" /\ closing' = "closed" /\ Ended
        BY <1>3 DEF Close, Closed
    <3> QED BY <1>0, <1>1, <2>1, <3>1 DEF QueueOK, Ended, BrokenOff
  <2> QED BY <1>2, <2>1, <2>2
<1>4. CASE PutSentinel
  <2>1. closing = "putting" /\ closing' = "waiting" BY <1>4 DEF PutSentinel
  <2>2. CASE Ended
    <3>1. queue' = queue BY <1>4, <2>2 DEF PutSentinel
    <3>2. QueueOK' BY <1>0, <1>1, <2>1, <2>2, <3>1 DEF QueueOK, Ended, BrokenOff
    <3> QED BY <1>2, <2>1, <3>1, <3>2
  <2>3. CASE ~Ended
    <3>1. Len(queue) < QueueSize /\ queue' = Append(queue, None)
        BY <1>4, <2>3 DEF PutSentinel
    <3>2. None \in Items /\ Bytes(None) = 0 BY DEF Items, Bytes
    <3>3. /\ queue' \in Seq(Items) /\ Len(queue') = Len(queue) + 1
          /\ queue'[Len(queue')] = None /\ queue' # <<>>
          /\ \A i \in 1..Len(queue) : queue'[i] = queue[i]
        BY <1>0, <3>1, <3>2
    <3>4. StoreTyped'
        BY <1>0, <1>1, <2>1, <3>1, <3>3, Constants DEF StoreTyped, tables, history
    <3>5. QueueOK'
      <4>1. \A i \in 1..Len(queue) : queue[i] # None BY <1>0, <2>1 DEF QueueOK
      <4>2. \A i \in 1..Len(queue') : queue'[i] = None => i = Len(queue')
          BY <1>0, <3>3, <4>1
      <4> QED BY <1>0, <1>1, <2>1, <2>3, <3>3, <4>2 DEF QueueOK, Ended, BrokenOff
    <3>6. FilesAreCounted'
      <4>1. FilesIn(queue') = FilesIn(queue) + 0 BY <1>0, <3>1, <3>2, FilesOfAppend
      <4>2. FilesIn(queue) \in Nat BY <1>0, FilesAreNat
      <4> QED BY <1>1, <4>1, <4>2 DEF Sound, FilesAreCounted
    <3>7. Way' = Append(Way, None)
      <4>1. Way' = batch \o Append(queue, None) BY <1>1, <3>1 DEF Way
      <4> QED BY <1>0, <3>2, <4>1, WayAppended
    <3>8. \A x, first, last : Leads(x, first, Way', last) <=> Leads(x, first, Way, last)
      <4>1. Way \in Seq(Items) BY <1>0, WayTyped
      <4> QED BY <3>7, <4>1, LeadsToSentinel
    <3>9. \A x : x \in About(Way)' <=> x \in About(Way)
      <4>1. Way \in Seq(Items) BY <1>0, WayTyped
      <4>2. \A x : x \in About(Append(Way, None)) <=> x \in About(Way)
          BY <3>2, <4>1, AboutAppended
      <4>3. About(Way)' = About(Append(Way, None)) BY <3>7 DEF About
      <4> QED BY <4>2, <4>3
    <3>10. OwedOK'
      <4>1. Table' = Table /\ latest' = latest /\ excused' = excused /\ Clearing' = Clearing
          BY <1>1 DEF tables, history, Table, Clearing
      <4>2. ASSUME ~Clearing, NEW x \in Things \ excused
            PROVE  Leads(x, Table[x], Way', latest[x])
          BY <3>8, <4>2 DEF Sound, OwedOK, Current
      <4>3. ASSUME Clearing, NEW m \in Messages \ excused, m \in About(Way)'
            PROVE  Leads(m, None, Way', latest[m])
          BY <3>8, <3>9, <4>3 DEF Sound, OwedOK, Current
      <4>4. ASSUME Clearing, NEW i \in 1..Len(Way'), Way'[i] # None
            PROVE  Way'[i].operation # "log"
        <5>1. Way \in Seq(Items) BY <1>0, WayTyped
        <5>2. i \in 1..Len(Way) /\ Way'[i] = Way[i] BY <3>7, <4>4, <5>1
        <5> QED BY <4>4, <5>2 DEF Sound, OwedOK
      <4> QED BY <4>1, <4>2, <4>3, <4>4 DEF OwedOK, Current
    <3>11. LogsOK' BY <1>1, <3>9 DEF LogsOK, tables
    <3> QED BY <3>4, <3>5, <3>6, <3>10, <3>11 DEF Sound
  <2> QED BY <2>2, <2>3
<1> QED BY <1>3, <1>4

\* A new archive owes what the tables hold.
LEMMA RenewedSound ==
    ASSUME Sound, LogsOK, RestTyped, Renewed, closing' = "no"
    PROVE  Sound' /\ LogsOK'
<1>0. StoreTyped BY DEF Sound
<1>1. /\ writer' = "starting" /\ queue' = <<>> /\ batch' = <<>> /\ fileBytes' = 0
      /\ delivery' = [l \in Logs |-> IF delivery[l] = "new" THEN "new" ELSE "lost"]
      /\ command' = NoCommand /\ latest' = Table /\ excused' = {} /\ UNCHANGED tables
    BY DEF Renewed
<1>2. /\ <<>> \in Seq(Items) /\ <<>> \in Seq(Records) /\ Len(<<>>) = 0 /\ 1..0 = {}
      /\ <<>> \o <<>> = <<>>
    OBVIOUS
<1>3. Table \in Tables /\ \A x \in Things : IsRow(x, Table[x]) BY <1>0, TableTyped
<1>4. StoreTyped' BY <1>0, <1>1, <1>2, <1>3, Constants DEF StoreTyped, tables
<1>5. QueueOK' BY <1>1, <1>2 DEF QueueOK
<1>6. FilesAreCounted'
  <2>1. fileBytes' = FilesIn(<<>>) + FilesIn(<<>>) BY <1>1, FilesOfNothing
  <2> QED BY <1>1, <2>1 DEF FilesAreCounted
<1>7. Way' = <<>> /\ Table' = Table BY <1>1, <1>2 DEF Way, Table, tables
<1>8. OwedOK'
  <2>1. ~Clearing' BY <1>1 DEF Clearing, NoCommand
  <2>2. \A x : Leads(x, Table[x], <<>>, Table[x]) BY LeadsNowhere
  <2>3. \A x \in Things : Leads(x, Table'[x], Way', latest'[x]) BY <1>1, <1>7, <2>2
  <2> QED BY <2>1, <2>3 DEF OwedOK, Current
<1>9. LogsOK'
  <2>1. About(Way)' = {} BY <1>7, NothingAbout DEF About
  <2>2. \A l \in Logs : logs[l] # None => delivery'[l] = "lost" BY <1>1 DEF LogsOK
  <2> QED BY <1>1, <2>1, <2>2 DEF LogsOK, tables
<1> QED BY <1>4, <1>5, <1>6, <1>8, <1>9 DEF Sound

LEMMA ReloadSound ==
    ASSUME Sound, LogsOK, RestTyped, Restart \/ ReloadCog
    PROVE  Sound' /\ LogsOK'
<1>1. CASE Restart BY <1>1, RenewedSound DEF Restart
<1>2. CASE ReloadCog /\ Ended BY <1>2, RenewedSound DEF ReloadCog
<1>3. CASE ReloadCog /\ ~Ended
  <2>1. /\ delivery' = [l \in Logs |-> IF delivery[l] \in {"staged", "unstaged"}
                                       THEN "over" ELSE delivery[l]]
        /\ UNCHANGED <<writer, queue, batch, fileBytes, closing, tables, command, history>>
      BY <1>3 DEF ReloadCog, archive
  <2>2. Sound' /\ About(Way)' = About(Way) BY <2>1, KeptSound DEF Clearing
  <2>3. \A l \in Logs : /\ delivery'[l] # "new" <=> delivery[l] # "new"
                        /\ delivery'[l] = "lost" <=> delivery[l] = "lost"
                        /\ delivery[l] \in {"staged", "over"} => delivery'[l] = "over"
      BY <2>1
  <2>4. LogsOK' BY <2>1, <2>2, <2>3 DEF LogsOK, tables
  <2> QED BY <2>2, <2>4
<1> QED BY <1>1, <1>2, <1>3

\* What flush() waits for is an empty queue: nothing leads anywhere.
LEMMA FlushedSound ==
    ASSUME Sound, LogsOK, RestTyped, CommandFlushed
    PROVE  Sound' /\ LogsOK'
<1>0. StoreTyped /\ command \in Command BY DEF Sound, RestTyped
<1>1. /\ command.at = "joining" /\ queue = <<>> /\ batch = <<>>
      /\ command' = [command EXCEPT !.at = "wiping"]
      /\ UNCHANGED <<writer, queue, batch, fileBytes, closing, tables, delivery, excused>>
    BY DEF CommandFlushed, Wiping, Drained
<1>2. command'.at = "wiping" /\ command'.kind = command.kind BY <1>0, <1>1 DEF Command
<1>3. CASE command.kind # "clear"
  <2>1. latest' = latest BY <1>3 DEF CommandFlushed, Wiping
  <2>2. Sound' /\ About(Way)' = About(Way)
      BY <1>1, <1>2, <1>3, <2>1, KeptSound DEF Clearing, history
  <2> QED BY <1>1, <2>2, LogsKept DEF tables
<1>4. CASE command.kind = "clear"
  <2>1. latest' = [x \in Things |-> None] BY <1>4 DEF CommandFlushed, Wiping
  <2>2. latest' \in Tables /\ \A x \in Things : IsRow(x, latest'[x])
      BY <2>1 DEF Tables, Rows, IsRow
  <2>3. StoreTyped' BY <1>0, <1>1, <2>2 DEF StoreTyped, tables
  <2>4. QueueOK' BY <1>1 DEF Sound, QueueOK, Ended, BrokenOff
  <2>5. FilesAreCounted' BY <1>1 DEF Sound, FilesAreCounted
  <2>6. Way' = <<>> /\ Way = <<>> BY <1>1 DEF Way
  <2>7. About(Way)' = {} /\ About(Way) = {} BY <2>6, NothingAbout DEF About
  <2>8. OwedOK'
    <3>1. Clearing' BY <1>2, <1>4 DEF Clearing
    <3>2. Len(<<>>) = 0 /\ 1..0 = {} OBVIOUS
    <3> QED BY <2>6, <2>7, <3>1, <3>2 DEF OwedOK
  <2>9. LogsOK' BY <1>1, <2>7, LogsKept DEF tables
  <2> QED BY <2>3, <2>4, <2>5, <2>8, <2>9 DEF Sound
<1> QED BY <1>3, <1>4

\* The tables are empty: the snapshots that have arrived since are still on their way.
LEMMA ClearTablesSound ==
    ASSUME Sound, LogsOK, RestTyped, ClearTables
    PROVE  Sound' /\ LogsOK'
<1>0. StoreTyped /\ Way \in Seq(Items) BY WayTyped DEF Sound
<1>1. /\ Clearing /\ command' = NoCommand
      /\ messages' = [m \in Messages |-> None] /\ logs' = [l \in Logs |-> None]
      /\ latest' = [x \in Things |-> IF x \in Messages \cap (About(queue) \cup About(batch))
                                     THEN latest[x] ELSE None]
      /\ UNCHANGED <<writer, queue, batch, fileBytes, closing, delivery, excused>>
    BY DEF ClearTables, CommandOver, Clearing, archive
<1>2. latest' \in Tables /\ \A x \in Things : IsRow(x, latest'[x])
  <2>1. latest \in Tables /\ \A x \in Things : IsRow(x, latest[x]) BY <1>0 DEF StoreTyped
  <2> QED BY <1>1, <2>1 DEF Tables, Rows, IsRow
<1>3. StoreTyped' BY <1>0, <1>1, <1>2 DEF StoreTyped
<1>4. QueueOK' BY <1>1 DEF Sound, QueueOK, Ended, BrokenOff
<1>5. FilesAreCounted' BY <1>1 DEF Sound, FilesAreCounted
<1>6. Way' = Way /\ About(Way)' = About(Way) BY <1>1 DEF Way, About
<1>7. OwedOK'
  <2>1. ~Clearing' BY <1>1 DEF Clearing, NoCommand
  <2>2. \A x \in Things : Table'[x] = None BY <1>1 DEF Table, Things
  <2>3. \A x : x \in About(Way) <=> x \in About(queue) \cup About(batch) BY <1>0, WayTyped
  <2> SUFFICES ASSUME NEW x \in Things \ excused PROVE Leads(x, None, Way, latest'[x])
      BY <1>1, <1>6, <2>1, <2>2 DEF OwedOK, Current
  <2>4. CASE x \in Messages /\ x \in About(Way)
    <3>1. latest'[x] = latest[x] BY <1>1, <2>3, <2>4
    <3> QED BY <1>1, <2>4, <3>1 DEF Sound, OwedOK, Current
  <2>5. CASE x \in Messages /\ x \notin About(Way)
    <3>1. latest'[x] = None BY <1>1, <2>3, <2>5
    <3> QED BY <1>0, <2>5, <3>1, LeadsPastOthers
  <2>6. CASE x \in Logs
    <3>1. latest'[x] = None BY <1>1, <2>6, Constants
    <3>2. ASSUME NEW n \in 1..Len(Way) PROVE After(x, None, Way[n]) = None
      <4>1. CASE Way[n] = None \/ Way[n].about # x BY <4>1 DEF After
      <4>2. CASE Way[n] # None /\ Way[n].about = x
        <5>1. Way[n] \in Records BY <1>0, <4>2 DEF Items
        <5>2. Way[n].operation \in {"log", "delivery"} BY <2>6, <4>2, <5>1, RecordsFit
        <5>3. Way[n].operation # "log" BY <1>1, <4>2 DEF Sound, OwedOK
        <5> QED BY <5>2, <5>3 DEF After
      <4> QED BY <4>1, <4>2
    <3> QED BY <1>0, <3>1, <3>2, LeadsToItself
  <2> QED BY <2>4, <2>5, <2>6 DEF Things
<1>8. LogsOK'
  <2>1. \A l \in Logs : logs'[l] = None /\ None # "pending" BY <1>1, Constants DEF Status
  <2> QED BY <1>1, <1>6, <2>1 DEF LogsOK
<1> QED BY <1>3, <1>4, <1>5, <1>7, <1>8 DEF Sound

\* Without a connection, the writer has emptied the queue, or what it has left there
\* is excused from now on.
LEMMA InVainSound ==
    ASSUME Sound, LogsOK, CommandOK, CommandInVain
    PROVE  Sound' /\ LogsOK'
<1>0. StoreTyped BY DEF Sound
<1>1. /\ command.at = "wiping" /\ ~Connected /\ command' = NoCommand /\ latest' = Table
      /\ excused' = excused \cup About(queue)
      /\ UNCHANGED <<writer, queue, batch, fileBytes, closing, tables, delivery>>
    BY DEF CommandInVain, CommandOver, archive
<1>2. Way \in Seq(Items) /\ \A x : x \in About(Way) <=> x \in About(queue)
  <2>1. writer # "writing" BY <1>1 DEF Sound, QueueOK, Connected, Ended, BrokenOff
  <2>2. batch = <<>> BY <2>1 DEF Sound, QueueOK
  <2>3. queue \in Seq(Items) BY <1>0 DEF StoreTyped
  <2>4. Way = queue BY <2>2, <2>3, WayIsQueue
  <2> QED BY <2>3, <2>4
<1>3. Table \in Tables /\ \A x \in Things : IsRow(x, Table[x]) BY <1>0, TableTyped
<1>4. StoreTyped'
  <2>1. About(queue) \subseteq Things
    <3>1. queue \in Seq(Items) BY <1>0 DEF StoreTyped
    <3>2. \A i \in DOMAIN queue : queue[i] # None => queue[i] \in Records BY <3>1 DEF Items
    <3> QED BY <3>2, RecordsFit DEF About
  <2> QED BY <1>0, <1>1, <1>3, <2>1 DEF StoreTyped, tables
<1>5. QueueOK' BY <1>1 DEF Sound, QueueOK, Ended, BrokenOff
<1>6. FilesAreCounted' BY <1>1 DEF Sound, FilesAreCounted
<1>7. Way' = Way /\ Table' = Table /\ About(Way)' = About(Way)
    BY <1>1 DEF Way, Table, tables, About
<1>8. OwedOK'
  <2>1. ~Clearing' BY <1>1 DEF Clearing, NoCommand
  <2>2. \A x \in Things \ excused' : x \notin About(Way) BY <1>1, <1>2
  <2>3. \A x \in Things \ excused' : Leads(x, Table[x], Way, Table[x])
      BY <1>2, <2>2, LeadsPastOthers
  <2>4. \A x \in Things \ excused' : Leads(x, Table'[x], Way', latest'[x])
      BY <1>1, <1>7, <2>3
  <2> QED BY <2>1, <2>4 DEF OwedOK, Current
<1>9. LogsOK' BY <1>1, <1>7, LogsKept DEF tables
<1> QED BY <1>4, <1>5, <1>6, <1>8, <1>9 DEF Sound

------------------------------------------------------------------------------
(* The theorems. *)

LEMMA StoreNext ==
    ASSUME IInv, [Next]_vars
    PROVE  Sound' /\ LogsOK'
<1> USE DEF archive, settings, discord, bounds
<1>0. Sound /\ LogsOK /\ RestTyped /\ CommandOK /\ QueueOK BY DEF IInv, Sound
<1>1. CASE Snapshots BY <1>1, SnapshotsSound
<1>2. ASSUME NEW l \in Logs, Worker(l) PROVE Sound' /\ LogsOK'
    BY <1>2, WorkerSound
<1>3. CASE Write
    BY <1>0, <1>3, InitializeSound, InitializeFailsSound, TakeBatchSound, TakeSentinelSound,
       WriteBatchSound, BatchFailsSound
    DEF Write
<1>4. CASE Prune \/ PruneFails
  <2>1. PICK expired \in SUBSET Present : PruneExpired(logs, expired)
      BY <1>4 DEF Prune, PruneFails
  <2> QED BY <1>0, <1>4, <2>1, PruneSound DEF Prune, PruneFails, Clearing
<1>5. CASE Close \/ Closing BY <1>0, <1>5, ClosingSound DEF Closing
<1>6. CASE Restart \/ ReloadCog BY <1>0, <1>6, ReloadSound
<1>7. ASSUME Clearing' <=> Clearing,
             UNCHANGED <<writer, batch, queue, fileBytes, closing, tables, history, delivery>>
      PROVE  Sound' /\ LogsOK'
  <2>1. Sound' /\ About(Way)' = About(Way) BY <1>0, <1>7, KeptSound
  <2> QED BY <1>0, <1>7, <2>1, LogsKept DEF tables
<1>8. CASE ToggleFiles BY <1>7, <1>8 DEF ToggleFiles, Clearing
<1>9. ASSUME NEW kind \in {"clear", "prune"}, BeginCommand(kind) PROVE Sound' /\ LogsOK'
  <2>1. Clearing' <=> Clearing BY <1>9 DEF BeginCommand, Clearing, NoCommand
  <2> QED BY <1>7, <1>9, <2>1 DEF BeginCommand
<1>10. CASE CommandReady
  <2>1. Clearing' <=> Clearing
      BY <1>0, <1>10 DEF CommandReady, Clearing, RestTyped, Command
  <2> QED BY <1>7, <1>10, <2>1 DEF CommandReady
<1>11. CASE PruneTables
  <2>1. PICK expired \in SUBSET Present : PruneExpired(logs, expired)
      BY <1>11 DEF PruneTables
  <2>2. Clearing' <=> Clearing
      BY <1>11 DEF PruneTables, CommandOver, Clearing, NoCommand
  <2> QED BY <1>0, <1>11, <2>1, <2>2, PruneSound DEF PruneTables, CommandOver
<1>12. CASE CommandFlushed \/ ClearTables \/ CommandInVain
    BY <1>0, <1>12, FlushedSound, ClearTablesSound, InVainSound
<1>13. CASE UNCHANGED vars BY <1>7, <1>13 DEF vars, Clearing
<1> QED
    BY <1>1, <1>2, <1>3, <1>4, <1>5, <1>6, <1>8, <1>9, <1>10, <1>11, <1>12, <1>13
    DEF Next, Commanding

LEMMA Inductive == IInv /\ [Next]_vars => IInv'
<1> SUFFICES ASSUME IInv, [Next]_vars PROVE IInv'
    OBVIOUS
<1>1. Sound' /\ LogsOK' BY StoreNext
<1>2. RestTyped' BY RestNext DEF IInv
<1>3. CommandOK' BY CommandNext DEF IInv
<1> QED BY <1>1, <1>2, <1>3 DEF IInv, Sound

LEMMA InitSound == Init => IInv
<1> SUFFICES ASSUME Init PROVE IInv
    OBVIOUS
<1>1. /\ <<>> \in Seq(Items) /\ <<>> \in Seq(Records) /\ Len(<<>>) = 0 /\ 1..0 = {}
      /\ <<>> \o <<>> = <<>>
    OBVIOUS
<1>2. latest \in Tables /\ \A x \in Things : IsRow(x, latest[x])
    BY DEF Init, Tables, Rows, IsRow
<1>3. StoreTyped BY <1>1, <1>2, Constants DEF Init, StoreTyped
<1>4. RestTyped BY Constants DEF Init, RestTyped, Command, NoCommand
<1>5. QueueOK BY <1>1 DEF Init, QueueOK
<1>6. FilesAreCounted
  <2>1. fileBytes = FilesIn(<<>>) + FilesIn(<<>>) BY FilesOfNothing DEF Init
  <2> QED BY <2>1 DEF Init, FilesAreCounted
<1>7. CommandOK BY DEF Init, CommandOK, NoCommand
<1>8. Way = <<>> BY <1>1 DEF Init, Way
<1>9. LogsOK
  <2>1. \A l \in Logs : logs[l] = None /\ delivery[l] = "new" BY DEF Init
  <2>2. None # "pending" /\ About(Way) = {} BY <1>8, NothingAbout, Constants DEF Status
  <2> QED BY <2>1, <2>2 DEF LogsOK
<1>10. OwedOK
  <2>1. ~Clearing BY DEF Init, Clearing, NoCommand
  <2>2. \A x \in Things : Table[x] = None /\ latest[x] = None BY DEF Init, Table, Things
  <2>3. \A x : Leads(x, None, <<>>, None) BY LeadsNowhere
  <2> QED BY <1>8, <2>1, <2>2, <2>3 DEF OwedOK, Current
<1> QED BY <1>3, <1>4, <1>5, <1>6, <1>7, <1>9, <1>10 DEF IInv

LEMMA Invariance == Spec => []IInv
BY InitSound, Inductive, PTL DEF Spec

\* The variables have their types: a queue of at most QueueSize records, never more
\* than FileLimit bytes of attachments, one fault, restart and command at most.
THEOREM TypeCorrect == Spec => []TypeOK
<1>1. IInv => TypeOK BY TypeFollows DEF IInv
<1> QED BY <1>1, Invariance, PTL

\* The bytes charged for attachments are those of the records that wait or are being
\* written, whatever _enqueue() refuses and whichever batch _write_batch() fails.
THEOREM BytesAreCounted == Spec => []FilesAreCounted
<1>1. IInv => FilesAreCounted BY DEF IInv
<1> QED BY <1>1, Invariance, PTL

\* When the queue is empty, the tables hold the last accepted record about every
\* message and log that nothing excuses, and no log of an earlier process is pending.
THEOREM HistoryIsCurrent == Spec => []DrainedIsCurrent
<1>1. ASSUME IInv PROVE DrainedIsCurrent
  <2> SUFFICES ASSUME Drained, writer \notin {"starting", "failed"}, command.at # "wiping"
               PROVE  /\ \A x \in Things \ excused : latest[x] = Table[x]
                      /\ \A l \in Logs : logs[l] = "pending" => delivery[l] # "lost"
      BY DEF DrainedIsCurrent
  <2>1. Way = <<>> /\ ~Clearing BY DEF Drained, Way, Clearing
  <2>2. \A x \in Things \ excused : Leads(x, Table[x], <<>>, latest[x])
      BY <1>1, <2>1 DEF IInv, OwedOK, Current
  <2>3. \A x \in Things \ excused : latest[x] = Table[x] BY <2>2, LeadsNowhere
  <2> QED BY <1>1, <2>3 DEF IInv, LogsOK
<1> QED BY <1>1, Invariance, PTL
=============================================================================
