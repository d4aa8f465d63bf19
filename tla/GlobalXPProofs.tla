--------------------------- MODULE GlobalXPProofs ---------------------------
(***************************************************************************)
(* What the XP guard promises holds for any number of users, minutes and   *)
(* batches, and any lengths of the periods in the order the code has.      *)
(*                                                                         *)
(* The argument: a user has up to four checkpoints at a time, in memory,   *)
(* in the pending batch, in the table, or read and not yet kept. Each one  *)
(* knows all that has reached the tables when it was made, and what has    *)
(* come since came with a later one: so each has seen every credited       *)
(* message (CreditOK) and covers every pause (PauseOK) that may still      *)
(* matter; the minute of a flag holds what came before it too (OwnOK).     *)
(* Receipts tell whether the pending batch is already part of that         *)
(* (Committed). The sums are those of the first part.                      *)
(***************************************************************************)
EXTENDS GlobalXP, FiniteSetTheorems, SequenceTheorems, TLAPS

\* The pending batch has reached the tables, and its response was lost.
Committed == batch # None /\ \E r \in receipts : r.id = batch.id

\* Who has something pending is in memory, and is read only when not.
ShapeOK ==
    /\ \A u \in dirty : states[u] # None
    /\ \A u \in Users : states[u] # None => loading[u] = None
    /\ \A a \in awards : a.user \in dirty
    /\ \A f \in flags : f.user \in dirty
    /\ flushing > 0 => batch # None
    /\ batch # None =>
          /\ batch.id < nextId
          /\ \A u \in Users : batch.states[u] # None => states[u] # None
          /\ \A a \in batch.awards : batch.states[a.user] # None
          /\ \A f \in batch.flags : batch.states[f.user] # None
    /\ \A r \in receipts : r.id < nextId

\* What the pending batch holds.
Sent == IF batch = None THEN {} ELSE batch.flags
SentAwards == IF batch = None THEN {} ELSE batch.awards

\* A checkpoint made until t.
MadeBy(a, t) == a.last <= t /\ a.award <= t /\ a.blocked <= t + Expire
Behind(a, b) == a.last <= b.last /\ a.award <= b.award

TimesOK ==
    /\ \A u \in Users :
          /\ states[u] # None => MadeBy(states[u], now)
          /\ loading[u] # None => MadeBy(loading[u], now)
          /\ activity[u] # None => /\ activity[u].at <= now
                                   /\ MadeBy(activity[u].state, activity[u].at)
    /\ batch # None =>
          /\ batch.time <= now
          /\ \A u \in Users : batch.states[u] # None =>
                MadeBy(batch.states[u], batch.time) /\ Behind(batch.states[u], states[u])

\* What a is made from credits no message twice: the credited ones are known or stale.
Seen(u, a) == \A m \in Ticks : credited[u][m] > 0 => m <= a.last \/ now - m > Fresh

Distinct(as) == \A a, b \in as : a.user = b.user /\ a.message = b.message => a = b
Uncredited(as) == \A a \in as : credited[a.user][a.message] = 0

CreditOK ==
    /\ \A u \in Users :
          /\ states[u] # None => Seen(u, states[u])
          /\ loading[u] # None => Seen(u, loading[u])
          /\ activity[u] # None => Seen(u, activity[u].state)
          /\ activity[u] = None => Seen(u, NewActivity)
    /\ Distinct(awards) /\ Uncredited(awards)
    /\ \A a \in awards : a.message <= states[a.user].last
    /\ batch # None =>
          /\ \A u \in Users : batch.states[u] # None => Seen(u, batch.states[u])
          /\ Distinct(batch.awards)
          /\ \A a \in batch.awards : a.message <= batch.states[a.user].last
          /\ ~Committed => Uncredited(batch.awards)
          /\ \A a \in awards : batch.states[a.user] # None => a.message > batch.states[a.user].last

\* Nothing is booked for later.
PayOK ==
    /\ \A u \in Users, m \in Minutes : monthly[u][m] > 0 => m <= now
    /\ \A a \in awards \cup SentAwards : a.slot <= now

\* The flags of fs that nobody lifted end by the time a is blocked until, or are over.
Covered(u, a, fs) ==
    \A f \in fs \ lifted : f.user = u => f.until <= a.blocked \/ f.until <= now

\* The minutes that begin after a flag and end before its pause.
Later(f, m) == f.at < m /\ m + PerMinute <= f.until

PauseOK ==
    /\ \A u \in Users :
          /\ states[u] # None => Covered(u, states[u], audit \cup Sent \cup flags)
          /\ loading[u] # None => Covered(u, loading[u], audit)
          /\ activity[u] # None => Covered(u, activity[u].state, audit)
          /\ activity[u] = None => Covered(u, NewActivity, audit)
          /\ batch # None /\ batch.states[u] # None => Covered(u, batch.states[u], audit \cup Sent)
    /\ \A f \in (audit \cup Sent \cup flags) \ lifted :
          /\ \A m \in Minutes : Later(f, m) => monthly[f.user][m] = 0
          /\ \A a \in awards \cup SentAwards : a.user = f.user => ~Later(f, a.slot)

\* The minute of a flag, if its pause outlasts it: once the flag has been sent nothing is
\* earned in that minute, and once it is on record nothing is booked in it.
Own(f) == Slot(f.at) + PerMinute <= f.until
InOwn(as, f) == \E a \in as : a.user = f.user /\ a.slot = Slot(f.at)

OwnOK ==
    \A f \in (audit \cup Sent) \ lifted : Own(f) =>
        /\ ~InOwn(awards, f)
        /\ f \in audit => /\ monthly[f.user][Slot(f.at)] = 0
                          /\ Committed \/ ~InOwn(SentAwards, f)

StoredAs(u, a) == activity[u] = None \/ activity[u].state = a

CleanOK ==
    /\ CleanIsStored
    /\ \A u \in Users :
          /\ loading[u] # None => StoredAs(u, loading[u])
          /\ batch # None /\ batch.states[u] # None =>
                /\ u \notin dirty => states[u] = batch.states[u]
                /\ Committed => StoredAs(u, batch.states[u])

IInv == /\ TypeOK /\ ShapeOK /\ TimesOK /\ CreditOK /\ PayOK /\ PauseOK /\ OwnOK /\ CleanOK
        /\ TotalsAgree

------------------------------------------------------------------------------
(* Sums. The library's induction theorems are about operators; a smallest      *)
(* counterexample is a set, and does as well.                                  *)

\* A family of subsets of a finite set that is not empty has a smallest member, in
\* the sense that no other member is inside it: induction over finite sets.
LEMMA SmallestMember ==
    ASSUME NEW S, IsFiniteSet(S), NEW B \in SUBSET SUBSET S, B # {}
    PROVE  \E M \in B : \A U \in B : U \subseteq M => U = M
<1>1. IsWellFoundedOn(StrictSubsetOrdering(S), SUBSET S)
    BY FS_StrictSubsetOrderingWellFounded, FS_FiniteSubsetsOfFinite
<1>2. PICK M \in B : \A U \in B : ~(<<U, M>> \in StrictSubsetOrdering(S))
    BY <1>1, WFMin
<1> QED BY <1>2 DEF StrictSubsetOrdering

Pick(T) == CHOOSE x \in T : TRUE

\* s adds f up, over every subset of S, in the order in which FoldSet does.
AddsUp(s, f, S) ==
    s = [T \in SUBSET S |-> IF T = {} THEN 0 ELSE f[Pick(T)] + s[T \ {Pick(T)}]]

SumOver(f) == CHOOSE s : AddsUp(s, f, DOMAIN f)

LEMMA SumIsFold == ASSUME NEW f PROVE SumOf(f) = SumOver(f)[DOMAIN f]
BY DEF SumOf, FoldSet, MapThenFoldSet, SumOver, AddsUp, Pick

LEMMA PickIn == ASSUME NEW T, T # {} PROVE Pick(T) \in T
BY DEF Pick

\* Two ways of adding up agree.
LEMMA AddsUpOnce ==
    ASSUME NEW f, NEW S, IsFiniteSet(S), NEW S1, NEW S2, S \subseteq S1, S \subseteq S2,
           NEW s, NEW t, AddsUp(s, f, S1), AddsUp(t, f, S2)
    PROVE  s[S] = t[S]
<1> DEFINE B == {T \in SUBSET S : s[T] # t[T]}
<1> SUFFICES ASSUME B # {} PROVE FALSE
    OBVIOUS
<1>1. PICK M \in B : \A U \in B : U \subseteq M => U = M
    <2>1. B \in SUBSET SUBSET S
        OBVIOUS
    <2> HIDE DEF B
    <2> QED BY <2>1, SmallestMember
<1>2. \A T \in SUBSET S :
          /\ s[T] = IF T = {} THEN 0 ELSE f[Pick(T)] + s[T \ {Pick(T)}]
          /\ t[T] = IF T = {} THEN 0 ELSE f[Pick(T)] + t[T \ {Pick(T)}]
    BY DEF AddsUp
<1>3. M # {}
    BY <1>2
<1>4. M \ {Pick(M)} \notin B
    BY <1>1, <1>3, PickIn
<1> QED BY <1>2, <1>3, <1>4

LEMMA SumsExist ==
    ASSUME NEW f, NEW S, IsFiniteSet(S)
    PROVE  \E s : AddsUp(s, f, S)
<1> DEFINE B == {T \in SUBSET S : ~ \E s : AddsUp(s, f, T)}
<1> SUFFICES ASSUME B # {} PROVE FALSE
    OBVIOUS
<1>1. PICK M \in B : \A U \in B : U \subseteq M => U = M
    <2>1. B \in SUBSET SUBSET S
        OBVIOUS
    <2> HIDE DEF B
    <2> QED BY <2>1, SmallestMember
<1> DEFINE r(T) == CHOOSE s : AddsUp(s, f, T)
           v(T) == IF T = {} THEN 0 ELSE f[Pick(T)] + r(T \ {Pick(T)})[T \ {Pick(T)}]
           s == [T \in SUBSET M |-> v(T)]
<1>2. \A T \in SUBSET M : T # M => AddsUp(r(T), f, T)
    <2> SUFFICES ASSUME NEW T \in SUBSET M, T # M PROVE \E x : AddsUp(x, f, T)
        OBVIOUS
    <2> QED BY <1>1
<1>3. \A T \in SUBSET M : T # M => r(T)[T] = v(T)
    <2> SUFFICES ASSUME NEW T \in SUBSET M, T # M PROVE r(T)[T] = v(T)
        OBVIOUS
    <2>1. AddsUp(r(T), f, T)
        BY <1>2
    <2>2. r(T)[T] = IF T = {} THEN 0 ELSE f[Pick(T)] + r(T)[T \ {Pick(T)}]
        BY <2>1 DEF AddsUp
    <2>3. CASE T = {}
        BY <2>2, <2>3
    <2>4. CASE T # {}
        <3> DEFINE U == T \ {Pick(T)}
        <3>1. U \in SUBSET M /\ U # M /\ U \subseteq T
            BY <2>4, PickIn
        <3>2. AddsUp(r(U), f, U)
            BY <1>2, <3>1
        <3>3. IsFiniteSet(U)
            BY <3>1, FS_Subset
        <3>4. r(T)[U] = r(U)[U]
            <4> HIDE DEF U, r
            <4> QED BY <2>1, <3>1, <3>2, <3>3, AddsUpOnce
        <3> QED BY <2>2, <2>4, <3>4
    <2> QED BY <2>3, <2>4
<1>4. \A T \in SUBSET M : v(T) = IF T = {} THEN 0 ELSE f[Pick(T)] + s[T \ {Pick(T)}]
    <2> SUFFICES ASSUME NEW T \in SUBSET M
                 PROVE  v(T) = IF T = {} THEN 0 ELSE f[Pick(T)] + s[T \ {Pick(T)}]
        OBVIOUS
    <2>1. CASE T = {}
        BY <2>1
    <2>2. CASE T # {}
        <3> DEFINE U == T \ {Pick(T)}
        <3>1. U \in SUBSET M /\ U # M
            BY <2>2, PickIn
        <3>2. s[U] = v(U)
            <4> HIDE DEF v
            <4> QED BY <3>1
        <3>3. r(U)[U] = v(U)
            <4> HIDE DEF r, v
            <4> QED BY <1>3, <3>1
        <3>4. v(T) = f[Pick(T)] + r(U)[U]
            BY <2>2
        <3> HIDE DEF v, r, s
        <3> QED BY <2>2, <3>2, <3>3, <3>4
    <2> QED BY <2>1, <2>2
<1>5. AddsUp(s, f, M)
    <2> HIDE DEF v
    <2> QED BY <1>4 DEF AddsUp
<1> QED BY <1>1, <1>5

LEMMA SumUnfolds ==
    ASSUME NEW f, IsFiniteSet(DOMAIN f), NEW T \in SUBSET DOMAIN f
    PROVE  SumOver(f)[T] = IF T = {} THEN 0 ELSE f[Pick(T)] + SumOver(f)[T \ {Pick(T)}]
<1>1. AddsUp(SumOver(f), f, DOMAIN f)
    BY SumsExist DEF SumOver
<1> QED BY <1>1 DEF AddsUp

\* A sum of naturals is one.
LEMMA SumIsNat ==
    ASSUME NEW S, IsFiniteSet(S), NEW f \in [S -> Nat], NEW T \in SUBSET S
    PROVE  SumOver(f)[T] \in Nat
<1> DEFINE B == {U \in SUBSET S : SumOver(f)[U] \notin Nat}
<1> SUFFICES ASSUME B # {} PROVE FALSE
    OBVIOUS
<1>1. PICK M \in B : \A U \in B : U \subseteq M => U = M
    <2>1. B \in SUBSET SUBSET S
        OBVIOUS
    <2> HIDE DEF B
    <2> QED BY <2>1, SmallestMember
<1>2. SumOver(f)[M] = IF M = {} THEN 0 ELSE f[Pick(M)] + SumOver(f)[M \ {Pick(M)}]
    BY SumUnfolds
<1>3. M # {}
    BY <1>2
<1>4. Pick(M) \in M /\ M \ {Pick(M)} \notin B
    BY <1>1, <1>3, PickIn
<1>5. f[Pick(M)] \in Nat /\ SumOver(f)[M \ {Pick(M)}] \in Nat
    BY <1>4
<1> QED BY <1>2, <1>3, <1>5

\* Nothing adds up to nothing.
LEMMA SumOfZeros ==
    ASSUME NEW S, IsFiniteSet(S), NEW f, DOMAIN f = S, \A x \in S : f[x] = 0, NEW T \in SUBSET S
    PROVE  SumOver(f)[T] = 0
<1> DEFINE B == {U \in SUBSET S : SumOver(f)[U] # 0}
<1> SUFFICES ASSUME B # {} PROVE FALSE
    OBVIOUS
<1>1. PICK M \in B : \A U \in B : U \subseteq M => U = M
    <2>1. B \in SUBSET SUBSET S
        OBVIOUS
    <2> HIDE DEF B
    <2> QED BY <2>1, SmallestMember
<1>2. SumOver(f)[M] = IF M = {} THEN 0 ELSE f[Pick(M)] + SumOver(f)[M \ {Pick(M)}]
    BY SumUnfolds
<1>3. M # {}
    BY <1>2
<1>4. Pick(M) \in M /\ M \ {Pick(M)} \notin B
    BY <1>1, <1>3, PickIn
<1> QED BY <1>2, <1>3, <1>4

\* Larger numbers add up to more.
LEMMA SumIsMonotone ==
    ASSUME NEW S, IsFiniteSet(S), NEW f \in [S -> Nat], NEW g \in [S -> Nat],
           \A x \in S : f[x] <= g[x], NEW T \in SUBSET S
    PROVE  SumOver(f)[T] <= SumOver(g)[T]
<1> DEFINE B == {U \in SUBSET S : ~(SumOver(f)[U] <= SumOver(g)[U])}
<1> SUFFICES ASSUME B # {} PROVE FALSE
    OBVIOUS
<1>1. PICK M \in B : \A U \in B : U \subseteq M => U = M
    <2>1. B \in SUBSET SUBSET S
        OBVIOUS
    <2> HIDE DEF B
    <2> QED BY <2>1, SmallestMember
<1>2. /\ SumOver(f)[M] = IF M = {} THEN 0 ELSE f[Pick(M)] + SumOver(f)[M \ {Pick(M)}]
      /\ SumOver(g)[M] = IF M = {} THEN 0 ELSE g[Pick(M)] + SumOver(g)[M \ {Pick(M)}]
    BY SumUnfolds
<1>3. M # {}
    BY <1>2
<1>4. Pick(M) \in M /\ M \ {Pick(M)} \notin B
    BY <1>1, <1>3, PickIn
<1>5. SumOver(f)[M \ {Pick(M)}] \in Nat /\ SumOver(g)[M \ {Pick(M)}] \in Nat
    BY SumIsNat
<1> QED BY <1>2, <1>3, <1>4, <1>5

\* Two functions add up to the sum of their sums.
LEMMA SumIsAdditive ==
    ASSUME NEW S, IsFiniteSet(S), NEW f \in [S -> Nat], NEW g \in [S -> Nat], NEW h \in [S -> Nat],
           \A x \in S : h[x] = f[x] + g[x], NEW T \in SUBSET S
    PROVE  SumOver(h)[T] = SumOver(f)[T] + SumOver(g)[T]
<1> DEFINE B == {U \in SUBSET S : SumOver(h)[U] # SumOver(f)[U] + SumOver(g)[U]}
<1> SUFFICES ASSUME B # {} PROVE FALSE
    OBVIOUS
<1>1. PICK M \in B : \A U \in B : U \subseteq M => U = M
    <2>1. B \in SUBSET SUBSET S
        OBVIOUS
    <2> HIDE DEF B
    <2> QED BY <2>1, SmallestMember
<1>2. /\ SumOver(f)[M] = IF M = {} THEN 0 ELSE f[Pick(M)] + SumOver(f)[M \ {Pick(M)}]
      /\ SumOver(g)[M] = IF M = {} THEN 0 ELSE g[Pick(M)] + SumOver(g)[M \ {Pick(M)}]
      /\ SumOver(h)[M] = IF M = {} THEN 0 ELSE h[Pick(M)] + SumOver(h)[M \ {Pick(M)}]
    BY SumUnfolds
<1>3. M # {}
    BY <1>2
<1>4. Pick(M) \in M /\ M \ {Pick(M)} \notin B
    BY <1>1, <1>3, PickIn
<1>5. /\ SumOver(f)[M \ {Pick(M)}] \in Nat /\ SumOver(g)[M \ {Pick(M)}] \in Nat
      /\ SumOver(h)[M \ {Pick(M)}] \in Nat
    BY SumIsNat
<1> QED BY <1>2, <1>3, <1>4, <1>5

\* Numbers that are grouped by minute add up to their number.
LEMMA CountsAddUp ==
    ASSUME NEW S, IsFiniteSet(S), NEW E, IsFiniteSet(E), NEW f \in [S -> Nat], NEW g \in [S -> Nat],
           \A x \in S : g[x] = f[x] + Cardinality({a \in E : a.slot = x}), NEW T \in SUBSET S
    PROVE  SumOver(g)[T] = SumOver(f)[T] + Cardinality({a \in E : a.slot \in T})
<1> DEFINE In(U) == {a \in E : a.slot \in U}
           B == {U \in SUBSET S : SumOver(g)[U] # SumOver(f)[U] + Cardinality(In(U))}
<1> SUFFICES ASSUME B # {} PROVE FALSE
    OBVIOUS
<1>1. PICK M \in B : \A U \in B : U \subseteq M => U = M
    <2>1. B \in SUBSET SUBSET S
        OBVIOUS
    <2> HIDE DEF B
    <2> QED BY <2>1, SmallestMember
<1>2. /\ SumOver(f)[M] = IF M = {} THEN 0 ELSE f[Pick(M)] + SumOver(f)[M \ {Pick(M)}]
      /\ SumOver(g)[M] = IF M = {} THEN 0 ELSE g[Pick(M)] + SumOver(g)[M \ {Pick(M)}]
    BY SumUnfolds
<1>3. M # {}
    <2> SUFFICES ASSUME M = {} PROVE FALSE
        OBVIOUS
    <2>1. In(M) = {}
        OBVIOUS
    <2>2. Cardinality(In(M)) = 0
        BY <2>1, FS_EmptySet
    <2> QED BY <1>2, <2>2
<1> DEFINE p == Pick(M)
<1>4. p \in M /\ M \ {p} \notin B
    BY <1>1, <1>3, PickIn
<1>5. SumOver(f)[M \ {p}] \in Nat /\ SumOver(g)[M \ {p}] \in Nat
    BY SumIsNat
<1>6. Cardinality(In(M)) = Cardinality({a \in E : a.slot = p}) + Cardinality(In(M \ {p}))
    <2> DEFINE P == {a \in E : a.slot = p}
    <2>1. IsFiniteSet(P) /\ IsFiniteSet(In(M \ {p}))
        BY FS_Subset
    <2>2. In(M) = P \cup In(M \ {p}) /\ P \cap In(M \ {p}) = {}
        BY <1>4
    <2>3. Cardinality(P \cap In(M \ {p})) = 0
        BY <2>2, FS_EmptySet
    <2>4. Cardinality(P) \in Nat /\ Cardinality(In(M \ {p})) \in Nat
        BY <2>1, FS_CardinalityType
    <2> HIDE DEF P, In
    <2>5. Cardinality(P \cup In(M \ {p})) = Cardinality(P) + Cardinality(In(M \ {p})) - 0
        BY <2>1, <2>3, FS_Union
    <2> QED BY <2>2, <2>4, <2>5 DEF P
<1>7. Cardinality({a \in E : a.slot = p}) \in Nat /\ Cardinality(In(M \ {p})) \in Nat
    <2>1. IsFiniteSet({a \in E : a.slot = p}) /\ IsFiniteSet(In(M \ {p}))
        BY FS_Subset
    <2> QED BY <2>1, FS_CardinalityType
<1>8. SumOver(g)[M \ {p}] = SumOver(f)[M \ {p}] + Cardinality(In(M \ {p}))
    BY <1>4
<1>9. g[p] = f[p] + Cardinality({a \in E : a.slot = p}) /\ f[p] \in Nat
    BY <1>4
<1>10. SumOver(g)[M] # SumOver(f)[M] + Cardinality(In(M))
    OBVIOUS
<1> HIDE DEF In
<1> QED BY <1>2, <1>3, <1>5, <1>6, <1>7, <1>8, <1>9, <1>10
------------------------------------------------------------------------------
(* What one transaction books. *)

\* The assumptions, one by one.
LEMMA Constants ==
    /\ {MaxTime, PerMinute, MaxBatches, Window, Month, Decay, Expire, Retention}
          \subseteq Nat \ {0}
    /\ PerMinute <= Window
    /\ Fresh \in Nat /\ Fresh <= Expire
    /\ Len(Pauses) \in Nat \ {0}
    /\ \A i \in 1..Len(Pauses) : Pauses[i] \in 1..Expire
    /\ None \notin Activity /\ None \notin Checkpoint /\ None \notin Batch
<1>1. Pauses \in Seq(1..Expire) /\ Pauses # <<>>
    BY XPAssumption
<1>2. Len(Pauses) \in Nat \ {0} /\ \A i \in 1..Len(Pauses) : Pauses[i] \in 1..Expire
    BY <1>1, EmptySeq, ElementOfSeq
<1> QED BY <1>2, XPAssumption, NoneAssumption

LEMMA TicksAreFinite == IsFiniteSet(Ticks)
BY Constants, FS_Interval DEF Ticks

LEMMA MinutesAreFinite == IsFiniteSet(Minutes)
<1> DEFINE f == [t \in Ticks |-> Slot(t)]
<1>1. f \in Surjection(Ticks, Minutes)
    BY DEF Surjection, Minutes
<1> QED BY <1>1, TicksAreFinite, FS_Surjection

\* The minute of a time has begun by then, and is not over.
LEMMA Slots ==
    ASSUME NEW t \in Ticks
    PROVE  /\ Slot(t) \in Minutes /\ Slot(t) \in Nat
           /\ Slot(t) <= t /\ t < Slot(t) + PerMinute
<1>1. t \in Nat /\ PerMinute \in Nat /\ PerMinute > 0
    BY Constants DEF Ticks
<1> DEFINE q == t \div PerMinute
<1>2. q \in Nat /\ PerMinute * q <= t /\ t < PerMinute * q + PerMinute
    BY <1>1
<1>3. Slot(t) = PerMinute * q
    BY <1>1, <1>2 DEF Slot
<1>4. Slot(t) \in Nat
    BY <1>1, <1>2, <1>3
<1> HIDE DEF q
<1> QED BY <1>1, <1>2, <1>3, <1>4 DEF Minutes

LEMMA MinutesAreNat == Minutes \subseteq Nat
BY Slots DEF Minutes

\* Two minutes do not overlap.
LEMMA SlotsApart ==
    ASSUME NEW s \in Ticks, NEW m \in Minutes, Slot(s) <= m, m <= s
    PROVE  m = Slot(s)
<1>1. PICK t \in Ticks : m = Slot(t)
    BY DEF Minutes
<1>2. s \in Nat /\ t \in Nat /\ PerMinute \in Nat /\ PerMinute > 0
    BY Constants DEF Ticks
<1> DEFINE a == s \div PerMinute
           b == t \div PerMinute
<1>3. a \in Nat /\ b \in Nat
    BY <1>2
<1>4. Slot(s) = a * PerMinute /\ m = b * PerMinute /\ s < a * PerMinute + PerMinute
    BY <1>1, Slots DEF Slot
<1> HIDE DEF a, b
<1>5. a * PerMinute <= b * PerMinute /\ b * PerMinute < (a + 1) * PerMinute
    BY <1>2, <1>3, <1>4
<1>6. a <= b
    <2> SUFFICES ASSUME b + 1 <= a PROVE FALSE
        BY <1>3
    <2>1. (b + 1) * PerMinute <= a * PerMinute
        BY <1>2, <1>3
    <2> QED BY <1>2, <1>3, <1>5, <2>1
<1>7. b <= a
    <2> SUFFICES ASSUME a + 1 <= b PROVE FALSE
        BY <1>3
    <2>1. (a + 1) * PerMinute <= b * PerMinute
        BY <1>2, <1>3
    <2> QED BY <1>2, <1>3, <1>5, <2>1
<1> QED BY <1>3, <1>4, <1>6, <1>7

\* An award of a batch is known by its message.
LEMMA EarnedIsFinite ==
    ASSUME TypeOK, CreditOK, batch # None, NEW u \in Users
    PROVE  /\ IsFiniteSet(Earned(batch, u))
           /\ Cardinality(Earned(batch, u)) \in Nat
<1> DEFINE f == [a \in Earned(batch, u) |-> a.message]
<1>1. f \in Injection(Earned(batch, u), Ticks)
    BY DEF Injection, IsInjective, Earned, TypeOK, Batch, Award, CreditOK, Distinct
<1>2. IsFiniteSet(Earned(batch, u))
    BY <1>1, TicksAreFinite, FS_Injection
<1> QED BY <1>2, FS_CardinalityType

\* What a transaction adds to the minutes, what it takes away and what it leaves.
LEMMA Settlement ==
    ASSUME TypeOK, CreditOK, TotalsAgree, batch # None, NEW u \in Users
    PROVE  /\ Added(batch, u) \in [Minutes -> Nat]
           /\ Kept(batch, u) \in [Minutes -> Nat]
           /\ NewTotal(batch, u) = SumOf(Kept(batch, u)) + SumOf(expired[u])
           /\ NewTotal(batch, u) \in 0..(total[u] + Cardinality(Earned(batch, u)))
<1> DEFINE E == Earned(batch, u)
           before == monthly[u]
           gone == expired[u]
           added == Added(batch, u)
           kept == Kept(batch, u)
<1>1. /\ before \in [Minutes -> Nat] /\ gone \in [Minutes -> Nat]
      /\ total[u] = SumOf(before) + SumOf(gone)
    BY DEF TypeOK, TotalsAgree
<1>2. IsFiniteSet(E) /\ Cardinality(E) \in Nat
    BY EarnedIsFinite
<1>3. \A m \in Minutes : Cardinality({a \in E : a.slot = m}) \in Nat
    BY <1>2, FS_Subset, FS_CardinalityType
<1>4. added \in [Minutes -> Nat]
    BY <1>1, <1>3 DEF Added
<1>5. kept \in [Minutes -> Nat] /\ \A m \in Minutes : kept[m] <= added[m]
    BY <1>4 DEF Kept
<1>6. SumOver(added)[Minutes] = SumOver(before)[Minutes] + Cardinality(E)
    <2>1. \A m \in Minutes : added[m] = before[m] + Cardinality({a \in E : a.slot = m})
        BY DEF Added
    <2>2. {a \in E : a.slot \in Minutes} = E
        BY DEF Earned, TypeOK, Batch, Award
    <2>3. Minutes \in SUBSET Minutes
        OBVIOUS
    <2> HIDE DEF E, before, added
    <2>4. SumOver(added)[Minutes]
              = SumOver(before)[Minutes] + Cardinality({a \in E : a.slot \in Minutes})
        BY <1>1, <1>2, <1>4, <2>1, <2>3, MinutesAreFinite, CountsAddUp
    <2> QED BY <2>2, <2>4
<1>7. SumOver(kept)[Minutes] <= SumOver(added)[Minutes]
    <2> HIDE DEF added, kept
    <2> QED BY <1>4, <1>5, MinutesAreFinite, SumIsMonotone
<1>8. /\ SumOver(kept)[Minutes] \in Nat /\ SumOver(added)[Minutes] \in Nat
      /\ SumOver(before)[Minutes] \in Nat /\ SumOver(gone)[Minutes] \in Nat
    <2> HIDE DEF before, gone, added, kept
    <2> QED BY <1>1, <1>4, <1>5, MinutesAreFinite, SumIsNat
<1>9. /\ SumOf(kept) = SumOver(kept)[Minutes] /\ SumOf(added) = SumOver(added)[Minutes]
      /\ SumOf(before) = SumOver(before)[Minutes] /\ SumOf(gone) = SumOver(gone)[Minutes]
    <2> HIDE DEF before, gone, added, kept
    <2> QED BY <1>1, <1>4, <1>5, SumIsFold
<1>10. NewTotal(batch, u) =
           MaxOf(0, total[u] + Cardinality(E) - (SumOf(added) - SumOf(kept)))
    BY DEF NewTotal
<1> HIDE DEF E, before, gone, added, kept
<1>11. NewTotal(batch, u) = SumOf(kept) + SumOf(gone)
    BY <1>1, <1>2, <1>6, <1>8, <1>9, <1>10 DEF MaxOf
<1> QED BY <1>1, <1>2, <1>4, <1>5, <1>6, <1>7, <1>8, <1>9, <1>11 DEF E, gone, added, kept

\* No award is credited twice, so that each one is a message more.
LEMMA CreditsAreNew ==
    ASSUME TypeOK, CreditOK, batch # None, ~Committed, NEW u \in Users
    PROVE  \A m \in Ticks :
              LET n == Cardinality({a \in Earned(batch, u) : a.message = m}) IN
              /\ n \in Nat
              /\ n > 0 <=> \E a \in Earned(batch, u) : a.message = m
<1> TAKE m \in Ticks
<1> DEFINE E == {a \in Earned(batch, u) : a.message = m}
<1>1. IsFiniteSet(E)
    BY EarnedIsFinite, FS_Subset
<1>2. Cardinality(E) \in Nat /\ (Cardinality(E) = 0 <=> E = {})
    <2> HIDE DEF E
    <2> QED BY <1>1, FS_CardinalityType, FS_EmptySet
<1> QED BY <1>2

------------------------------------------------------------------------------
(* Types *)

LEMMA NewIsActivity == NewActivity \in Activity
BY Constants DEF NewActivity, Activity

\* A message that counts comes from somebody in memory.
LEMMA CountsFacts ==
    ASSUME TypeOK, NEW u \in Users, NEW m \in Ticks, Counts(u, m)
    PROVE  /\ states[u] \in Activity
           /\ now - m <= Fresh /\ m <= now /\ states[u].blocked <= now
           /\ states[u].last < m /\ states[u].award < now
BY Constants DEF Counts, TypeOK, Activity, Ticks

LEMMA RaisedFlag ==
    ASSUME TypeOK, NEW u \in Users, NEW m \in Ticks, RaiseFlag(u, m)
    PROVE  \E until \in Nat, strikes \in 1..Len(Pauses) :
              /\ now < until /\ until <= now + Expire
              /\ states' = [states EXCEPT ![u] = [last |-> m, award |-> now, blocked |-> until,
                                                 flagged |-> now, strikes |-> strikes]]
              /\ flags' = flags \cup {[user |-> u, at |-> now, until |-> until]}
<1> DEFINE a == states[u]
           strikes == LastPause(IF Repeats(a) THEN a.strikes + 1 ELSE 1)
<1>1. a \in Activity
    BY CountsFacts DEF RaiseFlag
<1>2. strikes \in 1..Len(Pauses)
    <2>1. a.strikes \in 0..Len(Pauses)
        BY <1>1 DEF Activity
    <2>2. \A n \in Nat \ {0} : LastPause(n) \in 1..Len(Pauses)
        <3>1. Len(Pauses) \in Nat \ {0}
            BY Constants
        <3> QED BY <3>1 DEF LastPause
    <2> DEFINE n == IF Repeats(a) THEN a.strikes + 1 ELSE 1
    <2>3. n \in Nat \ {0}
        BY <2>1, Constants
    <2> HIDE DEF n
    <2>4. LastPause(n) \in 1..Len(Pauses)
        BY <2>2, <2>3
    <2> QED BY <2>4 DEF n
<1>3. Pauses[strikes] \in 1..Expire
    BY <1>2, Constants
<1>4. now + Pauses[strikes] \in Nat /\ now < now + Pauses[strikes]
          /\ now + Pauses[strikes] <= now + Expire
    <2> DEFINE p == Pauses[strikes]
    <2>1. p \in 1..Expire
        BY <1>3
    <2>2. Expire \in Nat /\ now \in Nat
        BY Constants DEF TypeOK, Ticks
    <2> HIDE DEF p
    <2>3. now + p \in Nat /\ now < now + p /\ now + p <= now + Expire
        BY <2>1, <2>2
    <2> QED BY <2>3 DEF p
<1>5. /\ states' = [states EXCEPT ![u] =
                        [last |-> m, award |-> now, blocked |-> now + Pauses[strikes],
                         flagged |-> now, strikes |-> strikes]]
      /\ flags' = flags \cup {[user |-> u, at |-> now, until |-> now + Pauses[strikes]]}
    BY DEF RaiseFlag
<1> HIDE DEF strikes
<1> QED BY <1>2, <1>4, <1>5

LEMMA SnapshotType ==
    ASSUME TypeOK, CanSnapshot, Snapshot
    PROVE  /\ batch' \in Batch /\ batch' # None
           /\ batch'.id = nextId /\ batch'.time = now /\ batch'.states = DirtyStates
           /\ batch'.awards = awards /\ batch'.flags = flags
           /\ dirty' = {} /\ awards' = {} /\ flags' = {}
           /\ nextId' = nextId + 1 /\ nextId' \in 1..(MaxBatches + 1)
<1>1. nextId \in 1..MaxBatches
    BY Constants DEF TypeOK, CanSnapshot
<1>2. DirtyStates \in [Users -> Activity \cup {None}]
    BY DEF DirtyStates, TypeOK
<1>3. batch' \in Batch
    BY <1>1, <1>2 DEF TypeOK, Snapshot, Batch
<1> QED BY <1>1, <1>3, Constants DEF Snapshot

LEMMA TransactionType ==
    ASSUME TypeOK, CreditOK, TotalsAgree, batch # None, Transaction(batch)
    PROVE  /\ total' \in [Users -> Nat] /\ monthly' \in [Users -> [Minutes -> Nat]]
           /\ activity' \in [Users -> Checkpoint \cup {None}]
           /\ receipts' \subseteq [id : 1..MaxBatches, at : Ticks]
           /\ audit' \subseteq Flag /\ credited' \in [Users -> [Ticks -> Nat]]
<1>1. CASE UNCHANGED <<tables, credited>>
    BY <1>1 DEF TypeOK, tables
<1>2. CASE ~Committed
    <2>0. batch \in Batch
        BY DEF TypeOK
    <2>1. \A u \in Users : NewTotal(batch, u) \in Nat /\ Kept(batch, u) \in [Minutes -> Nat]
        <3> TAKE u \in Users
        <3> QED BY Settlement, EarnedIsFinite DEF TypeOK
    <2>2. \A u \in Users, m \in Ticks :
              Cardinality({a \in Earned(batch, u) : a.message = m}) \in Nat
        BY <1>2, CreditsAreNew
    <2>3. /\ receipts' = receipts \cup {[id |-> batch.id, at |-> batch.time]}
          /\ monthly' = [u \in Users |-> Kept(batch, u)]
          /\ total' = [u \in Users |-> NewTotal(batch, u)]
          /\ audit' = audit \cup batch.flags
          /\ activity' = [u \in Users |->
                IF batch.states[u] = None THEN activity[u]
                                          ELSE [state |-> batch.states[u], at |-> batch.time]]
          /\ credited' = [u \in Users |-> [m \in Ticks |->
                credited[u][m] + Cardinality({a \in Earned(batch, u) : a.message = m})]]
        BY <1>2 DEF Transaction, Committed
    <2>4. total' \in [Users -> Nat] /\ monthly' \in [Users -> [Minutes -> Nat]]
        BY <2>1, <2>3
    <2>5. receipts' \subseteq [id : 1..MaxBatches, at : Ticks] /\ audit' \subseteq Flag
        BY <2>0, <2>3 DEF TypeOK, Batch
    <2>6. activity' \in [Users -> Checkpoint \cup {None}]
        BY <2>0, <2>3 DEF TypeOK, Batch, Checkpoint
    <2>7. credited' \in [Users -> [Ticks -> Nat]]
        <3>1. \A u \in Users, m \in Ticks : credited[u][m] \in Nat
            BY DEF TypeOK
        <3>2. \A u \in Users, m \in Ticks :
                  credited[u][m] + Cardinality({a \in Earned(batch, u) : a.message = m}) \in Nat
            BY <2>2, <3>1
        <3> QED BY <2>3, <3>2
    <2> QED BY <2>4, <2>5, <2>6, <2>7
<1> QED BY <1>1, <1>2 DEF Transaction, Committed

\* What is deleted from a minute is counted as expired.
LEMMA Deleted ==
    ASSUME TypeOK, DeleteOldMinutes
    PROVE  /\ monthly' \in [Users -> [Minutes -> Nat]] /\ expired' \in [Users -> [Minutes -> Nat]]
           /\ \A u \in Users, m \in Minutes :
                 /\ monthly'[u][m] <= monthly[u][m]
                 /\ monthly'[u][m] + expired'[u][m] = monthly[u][m] + expired[u][m]
<1>1. \A u \in Users, m \in Minutes : monthly[u][m] \in Nat /\ expired[u][m] \in Nat
    BY DEF TypeOK
<1>2. \A u \in Users, m \in Minutes :
          /\ monthly'[u][m] = 0 \/ monthly'[u][m] = monthly[u][m]
          /\ expired'[u][m] = expired[u][m] + monthly[u][m] - monthly'[u][m]
    BY DEF DeleteOldMinutes, Recent
<1>3. \A u \in Users, m \in Minutes : monthly'[u][m] \in Nat /\ expired'[u][m] \in Nat
    BY <1>1, <1>2
<1>4. /\ DOMAIN monthly' = Users /\ \A u \in Users : DOMAIN monthly'[u] = Minutes
      /\ DOMAIN expired' = Users /\ \A u \in Users : DOMAIN expired'[u] = Minutes
    BY DEF DeleteOldMinutes, Recent
<1>5. /\ monthly' = [u \in Users |-> [m \in Minutes |-> monthly'[u][m]]]
      /\ expired' = [u \in Users |-> [m \in Minutes |-> expired'[u][m]]]
    BY DEF DeleteOldMinutes, Recent
<1>6. monthly' \in [Users -> [Minutes -> Nat]] /\ expired' \in [Users -> [Minutes -> Nat]]
    BY <1>3, <1>5
<1> QED BY <1>1, <1>2, <1>6

LEMMA TypeNext == ASSUME IInv, Next PROVE TypeOK'
<1> USE DEF IInv
<1>1. ASSUME NEW u \in Users, BeginLoad(u) PROVE TypeOK'
    <2>1. activity[u] = None \/ activity[u].state \in Activity
        BY DEF TypeOK, Checkpoint
    <2> QED BY <1>1, <2>1, NewIsActivity DEF BeginLoad, TypeOK, tables, history
<1>2. ASSUME NEW u \in Users, EndLoad(u) PROVE TypeOK'
    BY <1>2 DEF EndLoad, TypeOK, tables, history
<1>3. ASSUME NEW u \in Users, Release(u) PROVE TypeOK'
    <2>1. [states[u] EXCEPT !.blocked = 0, !.strikes = 0] \in Activity
        <3>1. states[u] \in Activity /\ 0 \in Nat /\ 0 \in 0..Len(Pauses)
            BY <1>3, Constants DEF Release, TypeOK
        <3> QED BY <3>1 DEF Activity
    <2>2. states' = [states EXCEPT ![u] = [states[u] EXCEPT !.blocked = 0, !.strikes = 0]]
        BY <1>3 DEF Release
    <2>3. lifted' \subseteq Flag
        BY <1>3 DEF Release, TypeOK, Batch
    <2> QED BY <1>3, <2>1, <2>2, <2>3 DEF Release, TypeOK, tables
<1>4. ASSUME NEW u \in Users, NEW m \in Ticks, Earn(u, m) PROVE TypeOK'
    <2>1. [states[u] EXCEPT !.last = m, !.award = now] \in Activity
        <3>1. states[u] \in Activity
            BY <1>4, CountsFacts DEF Earn
        <3>2. m \in 0..MaxTime /\ now \in 0..MaxTime
            BY Constants DEF TypeOK, Ticks
        <3> QED BY <3>1, <3>2 DEF Activity
    <2>2. states' = [states EXCEPT ![u] = [states[u] EXCEPT !.last = m, !.award = now]]
        BY <1>4 DEF Earn
    <2>3. [user |-> u, message |-> m, slot |-> Slot(now)] \in Award
        BY Slots DEF TypeOK, Award
    <2> QED BY <1>4, <2>1, <2>2, <2>3 DEF Earn, TypeOK, tables, history
<1>5. ASSUME NEW u \in Users, NEW m \in Ticks, RaiseFlag(u, m) PROVE TypeOK'
    <2>1. PICK until \in Nat, strikes \in 1..Len(Pauses) :
              /\ states' = [states EXCEPT ![u] = [last |-> m, award |-> now, blocked |-> until,
                                                 flagged |-> now, strikes |-> strikes]]
              /\ flags' = flags \cup {[user |-> u, at |-> now, until |-> until]}
        BY <1>5, RaisedFlag
    <2>2. [last |-> m, award |-> now, blocked |-> until, flagged |-> now, strikes |-> strikes]
              \in Activity
        BY Constants DEF TypeOK, Activity, Ticks
    <2>3. [user |-> u, at |-> now, until |-> until] \in Flag
        BY DEF TypeOK, Flag
    <2> QED BY <1>5, <2>1, <2>2, <2>3 DEF RaiseFlag, TypeOK, tables, history
<1>6. CASE BeginFlush
    BY <1>6, SnapshotType DEF BeginFlush, TypeOK, tables, history
<1>7. CASE FlushNothing
    BY <1>7 DEF FlushNothing, Evict, TypeOK, tables, history
<1>8. CASE Acknowledged
    <2>1. batch # None
        BY <1>8 DEF Acknowledged, ShapeOK
    <2>3. CASE CanSnapshot /\ Snapshot /\ flushing' = 2 /\ UNCHANGED states
        BY <1>8, <2>1, <2>3, TransactionType, SnapshotType DEF Acknowledged, TypeOK
    <2>4. CASE batch' = None /\ flushing' = 0 /\ Evict /\ UNCHANGED <<dirty, awards, flags, nextId>>
        BY <1>8, <2>1, <2>4, TransactionType DEF Acknowledged, Evict, TypeOK
    <2> QED BY <1>8, <2>3, <2>4 DEF Acknowledged
<1>9. CASE ResponseLost
    BY <1>9, TransactionType DEF ResponseLost, ShapeOK, TypeOK
<1>10. CASE WriteFails
    BY <1>10 DEF WriteFails, TypeOK, tables, history
<1>11. CASE Cleanup
    BY <1>11 DEF Cleanup, LastingReceipts, TypeOK, memory, history
<1>12. CASE Crash
    BY <1>12 DEF Crash, TypeOK, tables, history
<1>13. CASE Tick
    <2>1. now' \in Ticks
        BY <1>13, Constants DEF Tick, TypeOK, Ticks
    <2> QED BY <1>13, <2>1 DEF Tick, TypeOK, memory, tables, history
<1>14. CASE DeleteOldMinutes
    <2>1. monthly' \in [Users -> [Minutes -> Nat]] /\ expired' \in [Users -> [Minutes -> Nat]]
        BY <1>14, Deleted
    <2> QED BY <1>14, <2>1 DEF DeleteOldMinutes, TypeOK, memory
<1> QED BY <1>1, <1>2, <1>3, <1>4, <1>5, <1>6, <1>7, <1>8, <1>9, <1>10, <1>11, <1>12, <1>13, <1>14
        DEF Next
------------------------------------------------------------------------------
(* What a transaction leaves as it was: whoever is not in the batch, and what  *)
(* the others' checkpoints know.                                               *)

LEMMA Booked ==
    ASSUME IInv, flushing > 0, Transaction(batch)
    PROVE  /\ batch \in Batch /\ batch # None
           /\ credited' \in [Users -> [Ticks -> Nat]]
           /\ \/ Committed /\ UNCHANGED <<tables, credited>>
              \/ /\ ~Committed
                 /\ audit' = audit \cup batch.flags
                 /\ \A u \in Users :
                       activity'[u] = IF batch.states[u] = None THEN activity[u]
                                      ELSE [state |-> batch.states[u], at |-> batch.time]
           /\ \A u \in Users, m \in Ticks : credited'[u][m] > 0 =>
                 \/ credited[u][m] > 0
                 \/ \E a \in batch.awards : a.user = u /\ a.message = m
           /\ \A u \in Users, m \in Minutes :
                 /\ monthly'[u][m] > 0 =>
                       \/ monthly[u][m] > 0
                       \/ \E a \in batch.awards : a.user = u /\ a.slot = m
                 /\ (\E f \in batch.flags : f.user = u /\ m \in Cleared(f)) =>
                       Committed \/ monthly'[u][m] = 0
           /\ \E r \in receipts' : r.id = batch.id
           /\ \A r \in receipts' : r \in receipts \/ r.id = batch.id
<1>1. batch \in Batch /\ batch # None
    BY DEF IInv, TypeOK, ShapeOK
<1>2. credited' \in [Users -> [Ticks -> Nat]]
    BY <1>1, TransactionType DEF IInv
<1>3. CASE Committed /\ UNCHANGED <<tables, credited>>
    BY <1>1, <1>2, <1>3 DEF Committed, tables
<1>4. CASE ~Committed
    <2>1. /\ receipts' = receipts \cup {[id |-> batch.id, at |-> batch.time]}
          /\ monthly' = [u \in Users |-> Kept(batch, u)]
          /\ audit' = audit \cup batch.flags
          /\ activity' = [u \in Users |->
                IF batch.states[u] = None THEN activity[u]
                                          ELSE [state |-> batch.states[u], at |-> batch.time]]
          /\ credited' = [u \in Users |-> [m \in Ticks |->
                credited[u][m] + Cardinality({a \in Earned(batch, u) : a.message = m})]]
        BY <1>1, <1>4 DEF Transaction, Committed
    <2>2. ASSUME NEW u \in Users, NEW m \in Ticks, credited'[u][m] > 0
          PROVE  credited[u][m] > 0 \/ \E a \in batch.awards : a.user = u /\ a.message = m
        <3> DEFINE n == Cardinality({a \in Earned(batch, u) : a.message = m})
        <3>1. n \in Nat /\ (n > 0 => \E a \in Earned(batch, u) : a.message = m)
            BY <1>1, <1>4, CreditsAreNew DEF IInv
        <3>2. credited'[u][m] = credited[u][m] + n /\ credited[u][m] \in Nat
            BY <2>1 DEF IInv, TypeOK
        <3> HIDE DEF n
        <3>3. credited[u][m] > 0 \/ n > 0
            BY <2>2, <3>1, <3>2
        <3> QED BY <3>1, <3>3 DEF Earned
    <2>3. ASSUME NEW u \in Users, NEW m \in Minutes, monthly'[u][m] > 0
          PROVE  monthly[u][m] > 0 \/ \E a \in batch.awards : a.user = u /\ a.slot = m
        <3> DEFINE E == {a \in Earned(batch, u) : a.slot = m}
        <3>1. monthly'[u][m] = 0 \/ monthly'[u][m] = monthly[u][m] + Cardinality(E)
            BY <2>1 DEF Kept, Added
        <3>2. IsFiniteSet(E)
            BY <1>1, EarnedIsFinite, FS_Subset DEF IInv
        <3>3. monthly[u][m] \in Nat
            BY DEF IInv, TypeOK
        <3>4. E # {} => \E a \in batch.awards : a.user = u /\ a.slot = m
            BY DEF Earned
        <3> HIDE DEF E
        <3>5. Cardinality(E) \in Nat /\ (E = {} => Cardinality(E) = 0)
            BY <3>2, FS_CardinalityType, FS_EmptySet
        <3> QED BY <2>3, <3>1, <3>3, <3>4, <3>5
    <2>4. \A u \in Users :
              activity'[u] = IF batch.states[u] = None THEN activity[u]
                             ELSE [state |-> batch.states[u], at |-> batch.time]
        BY <2>1
    <2>5. /\ \E r \in receipts' : r.id = batch.id
          /\ \A r \in receipts' : r \in receipts \/ r.id = batch.id
        <3> DEFINE r == [id |-> batch.id, at |-> batch.time]
        <3>1. receipts' = receipts \cup {r} /\ r.id = batch.id
            BY <2>1
        <3> HIDE DEF r
        <3> QED BY <3>1
    <2>6. audit' = audit \cup batch.flags
        BY <2>1
    <2>7. \A u \in Users, m \in Minutes :
              (\E f \in batch.flags : f.user = u /\ m \in Cleared(f)) => monthly'[u][m] = 0
        BY <2>1 DEF Kept
    <2> QED BY <1>1, <1>2, <1>4, <2>2, <2>3, <2>4, <2>5, <2>6, <2>7
<1> QED BY <1>1, <1>3, <1>4 DEF Transaction, Committed

\* A checkpoint that knows the batch's awards still knows all that was credited.
LEMMA SeenAfter ==
    ASSUME IInv, flushing > 0, Transaction(batch), UNCHANGED now,
           NEW u \in Users, NEW a \in Activity, Seen(u, a),
           batch.states[u] # None => batch.states[u].last <= a.last
    PROVE  Seen(u, a)'
<1> SUFFICES ASSUME NEW m \in Ticks, credited'[u][m] > 0
             PROVE  m <= a.last \/ now - m > Fresh
    BY DEF Seen
<1>1. CASE credited[u][m] > 0
    BY <1>1 DEF Seen
<1>2. CASE \E b \in batch.awards : b.user = u /\ b.message = m
    <2>1. batch.states[u] # None /\ m <= batch.states[u].last
        BY <1>2, Booked DEF IInv, CreditOK, ShapeOK
    <2>2. batch.states[u].last \in Int /\ a.last \in Int /\ m \in Int
        BY <2>1, Booked DEF Batch, Activity, Ticks
    <2> QED BY <2>1, <2>2
<1> QED BY <1>1, <1>2, Booked

\* Without a state in the batch a user has nothing in it.
LEMMA OthersUntouched ==
    ASSUME IInv, flushing > 0, Transaction(batch), NEW u \in Users, batch.states[u] = None
    PROVE  /\ activity'[u] = activity[u]
           /\ \A f \in audit' : f.user = u => f \in audit
BY Booked DEF IInv, ShapeOK, tables
------------------------------------------------------------------------------
(* One lemma for each part of the invariant. *)

\* What the three handlers that change a checkpoint do to it.
LEMMA Released ==
    ASSUME TypeOK, NEW u \in Users, Release(u)
    PROVE  /\ states[u] \in Activity /\ states'[u] \in Activity
           /\ states[u] # None /\ states'[u] # None
           /\ states'[u].last = states[u].last /\ states'[u].award = states[u].award
           /\ states'[u].blocked = 0
           /\ \A v \in Users : v # u => states'[v] = states[v]
<1> DEFINE a == [states[u] EXCEPT !.blocked = 0, !.strikes = 0]
<1>1. states[u] \in Activity /\ states[u] # None
    BY DEF Release, TypeOK
<1>2. /\ a \in Activity /\ a.last = states[u].last /\ a.award = states[u].award
      /\ a.blocked = 0
    <2>1. 0 \in Nat /\ 0 \in 0..Len(Pauses)
        BY Constants
    <2> QED BY <1>1, <2>1 DEF Activity
<1>3. states' = [states EXCEPT ![u] = a]
    BY DEF Release
<1> HIDE DEF a
<1>4. states'[u] = a /\ \A v \in Users : v # u => states'[v] = states[v]
    BY <1>3 DEF TypeOK
<1> QED BY <1>1, <1>2, <1>4, Constants

LEMMA Earns ==
    ASSUME TypeOK, NEW u \in Users, NEW m \in Ticks, Earn(u, m)
    PROVE  /\ states[u] \in Activity /\ states'[u] \in Activity
           /\ states[u] # None /\ states'[u] # None
           /\ states'[u].last = m /\ states'[u].award = now
           /\ states'[u].blocked = states[u].blocked
           /\ \A v \in Users : v # u => states'[v] = states[v]
<1> DEFINE a == [states[u] EXCEPT !.last = m, !.award = now]
<1>1. states[u] \in Activity
    BY CountsFacts DEF Earn
<1>2. m \in 0..MaxTime /\ now \in 0..MaxTime
    BY Constants DEF TypeOK, Ticks
<1>3. /\ a \in Activity /\ a.last = m /\ a.award = now /\ a.blocked = states[u].blocked
    BY <1>1, <1>2 DEF Activity
<1>4. states' = [states EXCEPT ![u] = a]
    BY DEF Earn
<1> HIDE DEF a
<1>5. states'[u] = a /\ \A v \in Users : v # u => states'[v] = states[v]
    BY <1>4 DEF TypeOK
<1> QED BY <1>1, <1>3, <1>5, Constants

LEMMA Raises ==
    ASSUME TypeOK, NEW u \in Users, NEW m \in Ticks, RaiseFlag(u, m)
    PROVE  \E until \in Nat :
           /\ now < until /\ until <= now + Expire
           /\ states[u] \in Activity /\ states'[u] \in Activity
           /\ states[u] # None /\ states'[u] # None
           /\ states'[u].last = m /\ states'[u].award = now /\ states'[u].blocked = until
           /\ \A v \in Users : v # u => states'[v] = states[v]
           /\ flags' = flags \cup {[user |-> u, at |-> now, until |-> until]}
<1>1. PICK until \in Nat, strikes \in 1..Len(Pauses) :
          /\ now < until /\ until <= now + Expire
          /\ states' = [states EXCEPT ![u] = [last |-> m, award |-> now, blocked |-> until,
                                             flagged |-> now, strikes |-> strikes]]
          /\ flags' = flags \cup {[user |-> u, at |-> now, until |-> until]}
    BY RaisedFlag
<1> DEFINE a == [last |-> m, award |-> now, blocked |-> until, flagged |-> now,
                 strikes |-> strikes]
<1>2. a \in Activity /\ a.last = m /\ a.award = now /\ a.blocked = until
    BY Constants DEF TypeOK, Activity, Ticks
<1>3. states' = [states EXCEPT ![u] = a]
    BY <1>1
<1> HIDE DEF a
<1>4. states'[u] = a /\ \A v \in Users : v # u => states'[v] = states[v]
    BY <1>3 DEF TypeOK
<1>5. states[u] \in Activity
    BY CountsFacts DEF RaiseFlag
<1> QED BY <1>1, <1>2, <1>4, <1>5, Constants

LEMMA ShapeNext == ASSUME IInv, Next PROVE ShapeOK'
<1>0. ShapeOK /\ TypeOK
    BY DEF IInv
<1>1. ASSUME NEW u \in Users, BeginLoad(u) PROVE ShapeOK'
    BY <1>0, <1>1 DEF BeginLoad, ShapeOK, TypeOK, tables
<1>2. ASSUME NEW u \in Users, EndLoad(u) PROVE ShapeOK'
    BY <1>0, <1>2 DEF EndLoad, ShapeOK, TypeOK, tables
<1>3. ASSUME NEW u \in Users, Release(u) PROVE ShapeOK'
    <2>1. states[u] # None /\ states'[u] # None /\ \A v \in Users : v # u => states'[v] = states[v]
        BY <1>0, <1>3, Released
    <2> QED BY <1>0, <1>3, <2>1 DEF Release, ShapeOK, TypeOK, tables
<1>4. ASSUME NEW u \in Users, NEW m \in Ticks, Earn(u, m) PROVE ShapeOK'
    <2>1. states[u] # None /\ states'[u] # None /\ \A v \in Users : v # u => states'[v] = states[v]
        BY <1>0, <1>4, Earns
    <2>2. dirty' = dirty \cup {u} /\ UNCHANGED <<flags, batch, loading, flushing, receipts, nextId>>
        BY <1>4 DEF Earn, tables
    <2>3. \A a \in awards' : a.user \in dirty'
        BY <1>0, <1>4, <2>2 DEF Earn, ShapeOK
    <2>4. loading'[u] = None
        BY <1>0, <2>1, <2>2 DEF ShapeOK
    <2>5. \A v \in Users : states'[v] # None <=> states[v] # None
        BY <2>1
    <2> QED BY <1>0, <2>1, <2>2, <2>3, <2>5 DEF ShapeOK, TypeOK
<1>5. ASSUME NEW u \in Users, NEW m \in Ticks, RaiseFlag(u, m) PROVE ShapeOK'
    <2>1. PICK until : flags' = flags \cup {[user |-> u, at |-> now, until |-> until]}
        BY <1>0, <1>5, Raises
    <2>2. states[u] # None /\ states'[u] # None /\ \A v \in Users : v # u => states'[v] = states[v]
        BY <1>0, <1>5, Raises
    <2> QED BY <1>0, <1>5, <2>1, <2>2 DEF RaiseFlag, ShapeOK, tables
<1>6. CASE BeginFlush
    BY <1>0, <1>6, SnapshotType DEF BeginFlush, ShapeOK, TypeOK, tables, DirtyStates
<1>7. CASE FlushNothing
    BY <1>0, <1>7 DEF FlushNothing, Evict, Evictable, ShapeOK, TypeOK, tables
<1>8. CASE Acknowledged
    <2>1. CASE CanSnapshot /\ Snapshot /\ flushing' = 2 /\ UNCHANGED states
        <3>1. flushing > 0 /\ Transaction(batch) /\ UNCHANGED loading
            BY <1>8 DEF Acknowledged
        <3>2. \A r \in receipts' : r \in receipts \/ r.id = batch.id
            BY <3>1, Booked
        <3>3. \A r \in receipts' : r.id < nextId /\ r.id \in Nat
            BY <1>0, <3>1, <3>2, Booked DEF ShapeOK, TypeOK, Batch
        <3>4. \A r \in receipts' : r.id < nextId'
            BY <1>0, <2>1, <3>3, SnapshotType DEF TypeOK
        <3>5. batch'.id < nextId'
            BY <1>0, <2>1, SnapshotType DEF TypeOK
        <3>6. /\ batch'.states = DirtyStates /\ batch'.awards = awards /\ batch'.flags = flags
              /\ dirty' = {} /\ awards' = {} /\ flags' = {} /\ batch' # None
            BY <1>0, <2>1, SnapshotType
        <3> QED BY <1>0, <2>1, <3>1, <3>4, <3>5, <3>6 DEF ShapeOK, DirtyStates, TypeOK
    <2>2. CASE batch' = None /\ flushing' = 0 /\ Evict /\ UNCHANGED <<dirty, awards, flags, nextId>>
        BY <1>0, <1>8, <2>2, Booked DEF Acknowledged, Evict, Evictable, ShapeOK, TypeOK
    <2> QED BY <1>8, <2>1, <2>2 DEF Acknowledged
<1>9. CASE ResponseLost
    BY <1>0, <1>9, Booked DEF ResponseLost, ShapeOK, TypeOK
<1>10. CASE WriteFails
    BY <1>0, <1>10 DEF WriteFails, ShapeOK, TypeOK, tables
<1>11. CASE Cleanup
    BY <1>0, <1>11 DEF Cleanup, LastingReceipts, ShapeOK, memory
<1>12. CASE Crash
    BY <1>0, <1>12 DEF Crash, ShapeOK, tables
<1>13. CASE Tick
    BY <1>0, <1>13 DEF Tick, ShapeOK, memory, tables
<1>14. CASE DeleteOldMinutes
    BY <1>0, <1>14 DEF DeleteOldMinutes, ShapeOK, memory
<1> QED BY <1>1, <1>2, <1>3, <1>4, <1>5, <1>6, <1>7, <1>8, <1>9, <1>10, <1>11, <1>12, <1>13, <1>14
        DEF Next

LEMMA NewIsEarly == \A t \in Nat : MadeBy(NewActivity, t)
BY Constants DEF MadeBy, NewActivity

LEMMA TimesNext == ASSUME IInv, Next PROVE TimesOK'
<1>0. TimesOK /\ TypeOK /\ ShapeOK /\ now \in Nat
    BY DEF IInv, TypeOK, Ticks
<1>e. Expire \in Nat
    BY Constants
<1>1. ASSUME NEW u \in Users, BeginLoad(u) PROVE TimesOK'
    <2>1. MadeBy(loading'[u], now) /\ \A v \in Users : v # u => loading'[v] = loading[v]
        <3>1. CASE activity[u] = None
            BY <1>0, <1>1, <3>1, NewIsEarly DEF BeginLoad, TypeOK
        <3>2. CASE activity[u] # None
            <4>1. activity[u] \in Checkpoint
                BY <1>0, <3>2 DEF TypeOK
            <4>2. MadeBy(activity[u].state, now)
                BY <1>0, <1>e, <3>2, <4>1 DEF TimesOK, MadeBy, Checkpoint, Activity, Ticks
            <4> QED BY <1>0, <1>1, <3>2, <4>2 DEF BeginLoad, TypeOK
        <3> QED BY <3>1, <3>2
    <2> QED BY <1>0, <1>1, <2>1 DEF BeginLoad, TimesOK, tables, MadeBy
<1>2. ASSUME NEW u \in Users, EndLoad(u) PROVE TimesOK'
    <2>1. /\ states'[u] = loading[u] /\ loading'[u] = None /\ loading[u] # None
          /\ \A v \in Users : v # u => states'[v] = states[v] /\ loading'[v] = loading[v]
        BY <1>0, <1>2 DEF EndLoad, TypeOK
    <2>2. states[u] = None
        BY <1>0, <2>1 DEF ShapeOK
    <2>3. batch # None => batch.states[u] = None
        BY <1>0, <2>2 DEF ShapeOK
    <2> QED BY <1>0, <1>2, <2>1, <2>3 DEF EndLoad, TimesOK, tables, MadeBy, Behind
<1>3. ASSUME NEW u \in Users, Release(u) PROVE TimesOK'
    <2>1. MadeBy(states'[u], now)
        BY <1>0, <1>e, <1>3, Released DEF TimesOK, MadeBy
    <2>2. batch # None /\ batch.states[u] # None => Behind(batch.states[u], states'[u])
        BY <1>0, <1>3, Released DEF TimesOK, Behind
    <2>3. \A v \in Users : v # u => states'[v] = states[v]
        BY <1>0, <1>3, Released
    <2> QED BY <1>0, <1>3, <2>1, <2>2, <2>3 DEF Release, TimesOK, tables, MadeBy, Behind
<1>4. ASSUME NEW u \in Users, NEW m \in Ticks, Counts(u, m), UNCHANGED <<now, batch, loading, tables>>,
             states'[u].last = m, states'[u].award = now, states'[u].blocked <= now + Expire,
             \A v \in Users : v # u => states'[v] = states[v]
      PROVE  TimesOK'
    <2>1. /\ states[u] \in Activity /\ m \in Nat /\ m <= now
          /\ states[u].last < m /\ states[u].award < now /\ states[u] # None
        BY <1>0, <1>4, CountsFacts, Constants DEF Ticks
    <2>2. MadeBy(states'[u], now)
        BY <1>0, <1>4, <2>1 DEF MadeBy
    <2>3. ASSUME batch # None, batch.states[u] # None PROVE Behind(batch.states[u], states'[u])
        <3>1. batch.states[u] \in Activity
            BY <1>0, <2>3 DEF TypeOK, Batch
        <3>2. batch.states[u].last <= states[u].last /\ batch.states[u].award <= states[u].award
            BY <1>0, <2>3 DEF TimesOK, Behind
        <3>3. /\ batch.states[u].last \in Int /\ batch.states[u].award \in Int
              /\ states[u].last \in Int /\ states[u].award \in Int
            BY <2>1, <3>1 DEF Activity
        <3> QED BY <1>0, <1>4, <2>1, <3>2, <3>3 DEF Behind
    <2> QED BY <1>0, <1>4, <2>2, <2>3 DEF TimesOK, tables, MadeBy, Behind
<1>5. ASSUME NEW u \in Users, NEW m \in Ticks, Earn(u, m) PROVE TimesOK'
    <2>1. states[u].blocked \in Nat /\ states[u].blocked <= now + Expire
        BY <1>0, <1>5, Earns DEF TimesOK, MadeBy, Activity
    <2> QED BY <1>0, <1>4, <1>5, <2>1, Earns DEF Earn
<1>6. ASSUME NEW u \in Users, NEW m \in Ticks, RaiseFlag(u, m) PROVE TimesOK'
    BY <1>0, <1>4, <1>6, Raises DEF RaiseFlag
<1>7. ASSUME CanSnapshot, Snapshot, UNCHANGED <<now, states, loading>>,
             \A u \in Users : activity'[u] # None =>
                 activity'[u].at <= now /\ MadeBy(activity'[u].state, activity'[u].at)
      PROVE  TimesOK'
    <2>1. batch'.time = now /\ batch'.states = DirtyStates
        BY <1>0, <1>7, SnapshotType
    <2>2. \A u \in Users : batch'.states[u] # None => /\ states[u] # None
                                                      /\ batch'.states[u] = states[u]
        BY <2>1 DEF DirtyStates
    <2>3. \A u \in Users : states[u] # None => Behind(states[u], states[u])
        BY <1>0 DEF Behind, TypeOK, Activity
    <2> QED BY <1>0, <1>7, <2>1, <2>2, <2>3 DEF TimesOK, MadeBy, Behind
<1>8. CASE BeginFlush
    <2>1. CASE batch # None /\ UNCHANGED <<dirty, awards, flags, batch, nextId>>
        BY <1>0, <1>8, <2>1 DEF BeginFlush, TimesOK, tables, MadeBy, Behind
    <2>2. CASE CanSnapshot /\ Snapshot
        BY <1>0, <1>7, <1>8, <2>2 DEF BeginFlush, TimesOK, tables
    <2> QED BY <1>8, <2>1, <2>2 DEF BeginFlush
<1>9. CASE FlushNothing
    BY <1>0, <1>9 DEF FlushNothing, Evict, TimesOK, tables, MadeBy
<1>10. ASSUME flushing > 0, Transaction(batch)
       PROVE  \A u \in Users : activity'[u] # None =>
                 activity'[u].at <= now /\ MadeBy(activity'[u].state, activity'[u].at)
    <2>1. CASE Committed /\ UNCHANGED <<tables, credited>>
        BY <1>0, <2>1 DEF TimesOK, tables
    <2>2. CASE \A u \in Users :
                  activity'[u] = IF batch.states[u] = None THEN activity[u]
                                 ELSE [state |-> batch.states[u], at |-> batch.time]
        <3> SUFFICES ASSUME NEW u \in Users, activity'[u] # None
                     PROVE  activity'[u].at <= now /\ MadeBy(activity'[u].state, activity'[u].at)
            OBVIOUS
        <3>1. CASE batch.states[u] = None
            BY <1>0, <2>2, <3>1 DEF TimesOK
        <3>2. CASE batch.states[u] # None
            <4>1. batch.time <= now /\ MadeBy(batch.states[u], batch.time)
                BY <1>0, <1>10, <3>2 DEF TimesOK, ShapeOK
            <4>2. activity'[u] = [state |-> batch.states[u], at |-> batch.time]
                BY <2>2, <3>2
            <4>3. activity'[u].state = batch.states[u] /\ activity'[u].at = batch.time
                BY <4>2
            <4> QED BY <4>1, <4>3
        <3> QED BY <3>1, <3>2
    <2> QED BY <1>10, <2>1, <2>2, Booked
<1>11. CASE Acknowledged
    <2>1. CASE CanSnapshot /\ Snapshot /\ flushing' = 2 /\ UNCHANGED states
        BY <1>7, <1>10, <1>11, <2>1 DEF Acknowledged
    <2>2. CASE batch' = None /\ flushing' = 0 /\ Evict /\ UNCHANGED <<dirty, awards, flags, nextId>>
        BY <1>0, <1>10, <1>11, <2>2 DEF Acknowledged, Evict, TimesOK, MadeBy
    <2> QED BY <1>11, <2>1, <2>2 DEF Acknowledged
<1>12. CASE ResponseLost
    BY <1>0, <1>10, <1>12 DEF ResponseLost, TimesOK, MadeBy, Behind
<1>13. CASE WriteFails
    BY <1>0, <1>13 DEF WriteFails, TimesOK, tables, MadeBy, Behind
<1>14. CASE Cleanup
    BY <1>0, <1>14 DEF Cleanup, TimesOK, memory, MadeBy, Behind
<1>15. CASE Crash
    BY <1>0, <1>15 DEF Crash, TimesOK, tables, MadeBy, Behind
<1>16. CASE Tick
    <2>1. /\ now' = now + 1 /\ UNCHANGED <<states, loading, batch, activity>>
        BY <1>16 DEF Tick, memory, tables
    <2>2. \A a \in Activity : MadeBy(a, now) => MadeBy(a, now + 1)
        BY <1>0, <1>e DEF MadeBy, Activity
    <2>3. \A u \in Users : /\ states[u] # None => MadeBy(states[u], now + 1)
                           /\ loading[u] # None => MadeBy(loading[u], now + 1)
        BY <1>0, <2>2 DEF TimesOK, TypeOK
    <2>4. /\ \A u \in Users : activity[u] # None => activity[u].at <= now + 1
          /\ batch # None => batch.time <= now + 1
        BY <1>0 DEF TimesOK, TypeOK, Checkpoint, Batch, Ticks
    <2> QED BY <1>0, <2>1, <2>3, <2>4 DEF TimesOK, MadeBy, Behind
<1>17. CASE DeleteOldMinutes
    BY <1>0, <1>17 DEF DeleteOldMinutes, TimesOK, memory, MadeBy, Behind
<1> QED BY <1>1, <1>2, <1>3, <1>5, <1>6, <1>8, <1>9, <1>11, <1>12, <1>13, <1>14, <1>15, <1>16, <1>17
        DEF Next

\* Cleanup leaves the receipt of the pending batch alone.
LEMMA StillCommitted == ASSUME Cleanup PROVE Committed' <=> Committed
BY DEF Cleanup, LastingReceipts, Committed, memory

\* An activity of what was booked at most Expire ago survives cleanup; a message
\* that an expired one would have to tell is too old to count again.
LEMMA ExpiredIsNew ==
    ASSUME IInv, NEW u \in Users, activity[u] # None, now - activity[u].at > Expire
    PROVE  Seen(u, NewActivity) /\ activity[u].state.blocked <= now
<1>1. /\ activity[u].at \in Ticks /\ activity[u].state \in Activity
      /\ now \in Ticks /\ Fresh \in Nat /\ Expire \in Nat /\ Fresh <= Expire
    BY Constants DEF IInv, TypeOK, Checkpoint
<1> DEFINE a == activity[u].state
           at == activity[u].at
<1>2. /\ at \in Nat /\ now \in Nat /\ a.last \in Nat /\ a.award \in Nat /\ a.blocked \in Nat
    BY <1>1 DEF Ticks, Activity
<1>3. MadeBy(a, at) /\ Seen(u, a)
    BY DEF IInv, TimesOK, CreditOK
<1> HIDE DEF a, at
<1>4. now - at > Expire
    BY DEF at
<1>5. \A m \in Ticks : credited[u][m] > 0 => m <= 0 \/ now - m > Fresh
    BY <1>1, <1>2, <1>3, <1>4 DEF Seen, MadeBy, Ticks
<1>6. a.blocked <= now
    BY <1>1, <1>2, <1>3, <1>4 DEF MadeBy
<1> QED BY <1>5, <1>6 DEF Seen, NewActivity, a

\* Credits of messages stay known as time passes and checkpoints advance.
LEMMA CreditNext == ASSUME IInv, Next PROVE CreditOK'
<1>0. CreditOK /\ TypeOK /\ ShapeOK /\ TimesOK /\ now \in Nat /\ Fresh \in Nat
    BY Constants DEF IInv, TypeOK, Ticks
<1>1. ASSUME NEW u \in Users, BeginLoad(u) PROVE CreditOK'
    <2>1. Seen(u, loading'[u]) /\ \A v \in Users : v # u => loading'[v] = loading[v]
        BY <1>0, <1>1 DEF BeginLoad, CreditOK, TypeOK
    <2>2. UNCHANGED <<now, credited, states, activity, awards, batch, receipts>>
        BY <1>1 DEF BeginLoad, tables, history
    <2>3. \A v \in Users : loading'[v] # None => Seen(v, loading'[v])
        BY <1>0, <2>1 DEF CreditOK
    <2> QED BY <1>0, <2>2, <2>3 DEF CreditOK, Seen, Uncredited, Committed
<1>2. ASSUME NEW u \in Users, EndLoad(u) PROVE CreditOK'
    <2>1. /\ states'[u] = loading[u] /\ loading'[u] = None /\ loading[u] # None
          /\ \A v \in Users : v # u => states'[v] = states[v] /\ loading'[v] = loading[v]
        BY <1>0, <1>2 DEF EndLoad, TypeOK
    <2>2. UNCHANGED <<now, credited, activity, awards, batch, receipts>>
        BY <1>2 DEF EndLoad, tables, history
    <2>3. \A v \in Users : /\ states'[v] # None => Seen(v, states'[v])
                           /\ loading'[v] # None => Seen(v, loading'[v])
        BY <1>0, <2>1 DEF CreditOK
    <2>4. \A a \in awards : a.user # u
        BY <1>0, <2>1 DEF ShapeOK, TypeOK
    <2>5. \A a \in awards : a.message <= states'[a.user].last
        BY <1>0, <2>1, <2>4 DEF CreditOK, TypeOK, Award
    <2> QED BY <1>0, <2>2, <2>3, <2>5 DEF CreditOK, Seen, Uncredited, Committed
<1>3. ASSUME NEW u \in Users, Release(u) PROVE CreditOK'
    <2>1. UNCHANGED <<now, credited, activity, awards, batch, receipts, loading>>
        BY <1>3 DEF Release, tables, history
    <2>2. \A v \in Users : states'[v] # None => Seen(v, states'[v])
        BY <1>0, <1>3, Released DEF CreditOK, Seen
    <2>3. \A a \in awards : a.message <= states'[a.user].last
        BY <1>0, <1>3, Released DEF CreditOK, TypeOK, Award
    <2> QED BY <1>0, <2>1, <2>2, <2>3 DEF CreditOK, Seen, Uncredited, Committed
\* A checkpoint that advances to a fresh message.
<1>4. ASSUME NEW u \in Users, NEW m \in Ticks, Counts(u, m), UNCHANGED <<now, credited, tables, loading, batch>>,
             states'[u] \in Activity, states'[u].last = m,
             \A v \in Users : v # u => states'[v] = states[v]
      PROVE  /\ \A v \in Users : states'[v] # None => Seen(v, states'[v])
             /\ \A a \in awards : a.message <= states'[a.user].last
             /\ \A a \in awards : a.user = u => a.message < m
             /\ credited[u][m] = 0
             /\ batch # None /\ batch.states[u] # None => batch.states[u].last < m
    <2>0. states[u] \in Activity /\ states[u].last < m /\ now - m <= Fresh
        BY <1>0, <1>4, CountsFacts
    <2>1. /\ states[u] \in Activity /\ states[u] # None /\ states[u].last < m /\ now - m <= Fresh
          /\ states[u].last \in Int /\ m \in Int
        BY <2>0, Constants DEF Activity, Ticks
    <2>2. Seen(u, states'[u])
        <3> SUFFICES ASSUME NEW n \in Ticks, credited[u][n] > 0 PROVE n <= m \/ now - n > Fresh
            BY <1>4 DEF Seen
        <3> QED BY <1>0, <2>1 DEF CreditOK, Seen, Ticks
    <2>3. \A a \in awards : a.user = u => a.message < m
        BY <1>0, <2>1 DEF CreditOK, TypeOK, Award, Ticks
    <2>4. \A a \in awards : a.message <= states'[a.user].last
        <3> SUFFICES ASSUME NEW a \in awards PROVE a.message <= states'[a.user].last
            OBVIOUS
        <3>1. a.user \in Users /\ a.message \in Int /\ a.message <= states[a.user].last
            BY <1>0 DEF CreditOK, TypeOK, Award, Ticks
        <3> QED BY <1>4, <2>1, <2>3, <3>1
    <2>5. credited[u][m] = 0
        <3>1. ~(credited[u][m] > 0)
            BY <1>0, <2>1 DEF CreditOK, Seen, Ticks
        <3>2. credited[u][m] \in Nat
            BY <1>0 DEF TypeOK
        <3> QED BY <3>1, <3>2
    <2>6. ASSUME batch # None, batch.states[u] # None PROVE batch.states[u].last < m
        <3>1. batch.states[u].last <= states[u].last
            BY <1>0, <2>6 DEF TimesOK, Behind
        <3>2. batch.states[u].last \in Int
            BY <1>0, <2>6 DEF TypeOK, Batch, Activity
        <3> QED BY <2>1, <3>1, <3>2
    <2> QED BY <1>0, <1>4, <2>2, <2>3, <2>4, <2>5, <2>6 DEF CreditOK, Seen
<1>5. ASSUME NEW u \in Users, NEW m \in Ticks, Earn(u, m) PROVE CreditOK'
    <2>1. /\ Counts(u, m) /\ UNCHANGED <<now, credited, tables, loading, batch>>
          /\ UNCHANGED <<activity, receipts>>
          /\ awards' = awards \cup {[user |-> u, message |-> m, slot |-> Slot(now)]}
        BY <1>5 DEF Earn, tables, history
    <2>2. /\ states'[u] \in Activity /\ states'[u].last = m
          /\ \A v \in Users : v # u => states'[v] = states[v]
        BY <1>0, <1>5, Earns
    <2>3. /\ \A v \in Users : states'[v] # None => Seen(v, states'[v])
          /\ \A a \in awards : a.message <= states'[a.user].last
          /\ \A a \in awards : a.user = u => a.message < m
          /\ credited[u][m] = 0
          /\ batch # None /\ batch.states[u] # None => batch.states[u].last < m
        BY <1>4, <2>1, <2>2
    <2>4. \A a \in awards' : \/ a \in awards
                             \/ a = [user |-> u, message |-> m, slot |-> Slot(now)]
        BY <2>1
    <2>5. m \in Int /\ \A a \in awards : a.message \in Int
        BY <1>0 DEF TypeOK, Award, Ticks
    <2>6. Distinct(awards')
        <3> SUFFICES ASSUME NEW a \in awards', NEW b \in awards',
                            a.user = b.user, a.message = b.message
                     PROVE  a = b
            BY DEF Distinct
        <3> QED BY <1>0, <2>3, <2>4, <2>5 DEF CreditOK, Distinct
    <2>7. \A a \in awards' : a.message <= states'[a.user].last
        BY <2>2, <2>3, <2>4, <2>5
    <2>8. Uncredited(awards)' /\ UNCHANGED <<activity, loading, now, credited>>
        BY <1>0, <2>1, <2>3, <2>4 DEF CreditOK, Uncredited
    <2>9. batch # None => \A a \in awards' :
              batch.states[a.user] # None => a.message > batch.states[a.user].last
        BY <1>0, <2>3, <2>4 DEF CreditOK
    <2> QED BY <1>0, <2>1, <2>3, <2>6, <2>7, <2>8, <2>9 DEF CreditOK, Seen, Committed, Uncredited
<1>6. ASSUME NEW u \in Users, NEW m \in Ticks, RaiseFlag(u, m) PROVE CreditOK'
    <2>1. /\ Counts(u, m) /\ UNCHANGED <<now, credited, tables, loading, batch>>
          /\ UNCHANGED <<activity, receipts, awards>>
        BY <1>6 DEF RaiseFlag, tables, history
    <2>2. /\ states'[u] \in Activity /\ states'[u].last = m
          /\ \A v \in Users : v # u => states'[v] = states[v]
        BY <1>0, <1>6, Raises
    <2>3. /\ \A v \in Users : states'[v] # None => Seen(v, states'[v])
          /\ \A a \in awards : a.message <= states'[a.user].last
        BY <1>4, <2>1, <2>2
    <2> QED BY <1>0, <2>1, <2>3 DEF CreditOK, Seen, Committed, Uncredited
\* The batch takes over what is in memory, with the tables as they are by then.
<1>7. ASSUME CanSnapshot, Snapshot, UNCHANGED <<now, states, loading>>,
             \A u \in Users : /\ states[u] # None => Seen(u, states[u])'
                              /\ loading[u] # None => Seen(u, loading[u])'
                              /\ activity'[u] # None => Seen(u, activity[u].state)'
                              /\ activity'[u] = None => Seen(u, NewActivity)',
             Uncredited(awards)', Uncredited(batch.awards)'
      PROVE  CreditOK'
    <2>1. batch'.states = DirtyStates /\ batch'.awards = awards /\ awards' = {} /\ batch' # None
        BY <1>0, <1>7, SnapshotType
    <2>2. \A u \in Users : batch'.states[u] # None => batch'.states[u] = states[u]
        BY <2>1 DEF DirtyStates
    <2>3. \A a \in awards : a.message <= batch'.states[a.user].last
        BY <1>0, <2>1 DEF CreditOK, ShapeOK, DirtyStates, TypeOK, Award
    <2>4. \A u \in Users : /\ states'[u] # None => Seen(u, states[u])'
                           /\ loading'[u] # None => Seen(u, loading[u])'
                           /\ activity'[u] # None => Seen(u, activity[u].state)'
                           /\ activity'[u] = None => Seen(u, NewActivity)'
                           /\ batch'.states[u] # None => Seen(u, batch.states[u])'
        BY <1>7, <2>2 DEF Seen
    <2> QED BY <1>0, <1>7, <2>1, <2>3, <2>4 DEF CreditOK, Distinct, Uncredited
<1>8. CASE BeginFlush
    <2>0. UNCHANGED <<now, states, loading, credited, activity, receipts>>
        BY <1>8 DEF BeginFlush, tables, history
    <2>1. CASE batch # None /\ UNCHANGED <<dirty, awards, flags, batch, nextId>>
        BY <1>0, <2>0, <2>1 DEF CreditOK, Seen, Committed, Uncredited
    <2>2. CASE CanSnapshot /\ Snapshot
        <3>1. \A u \in Users : /\ states[u] # None => Seen(u, states[u])'
                               /\ loading[u] # None => Seen(u, loading[u])'
                               /\ activity'[u] # None => Seen(u, activity[u].state)'
                               /\ activity'[u] = None => Seen(u, NewActivity)'
            BY <1>0, <2>0 DEF CreditOK, Seen, NewActivity
        <3>2. awards' = {} /\ batch'.awards = awards
            BY <1>0, <2>2, SnapshotType
        <3>3. Uncredited(awards)' /\ Uncredited(batch.awards)'
            BY <1>0, <2>0, <3>2 DEF CreditOK, Uncredited
        <3> QED BY <1>7, <2>0, <2>2, <3>1, <3>3
    <2> QED BY <1>8, <2>1, <2>2 DEF BeginFlush
<1>9. CASE FlushNothing
    <2>1. UNCHANGED <<now, awards, batch, loading, credited, activity, receipts, dirty>> /\ dirty = {}
        BY <1>9 DEF FlushNothing, tables, history
    <2>2. \A u \in Users : states'[u] # None => states'[u] = states[u]
        BY <1>9 DEF FlushNothing, Evict
    <2>3. awards = {}
        BY <1>0, <2>1 DEF ShapeOK
    <2>4. \A u \in Users : states'[u] # None => Seen(u, states[u])'
        BY <1>0, <2>1, <2>2 DEF CreditOK, Seen
    <2> QED BY <1>0, <2>1, <2>3, <2>4 DEF CreditOK, Seen, Committed, Uncredited
\* The same for what a transaction leaves behind.
<1>10. ASSUME flushing > 0, Transaction(batch), UNCHANGED now
       PROVE  /\ \A u \in Users, m \in Ticks : credited'[u][m] > 0 =>
                    /\ states[u] # None => m <= states[u].last \/ now - m > Fresh
                    /\ loading[u] # None => m <= loading[u].last \/ now - m > Fresh
                    /\ activity'[u] # None => m <= activity'[u].state.last \/ now - m > Fresh
                    /\ activity'[u] = None => m <= 0 \/ now - m > Fresh
                    /\ batch.states[u] # None => m <= batch.states[u].last \/ now - m > Fresh
              /\ \A a \in awards : credited'[a.user][a.message] = 0
    <2>1. /\ batch \in Batch /\ batch # None
          /\ credited' \in [Users -> [Ticks -> Nat]]
        BY <1>10, Booked DEF IInv
    <2>2. ASSUME NEW u \in Users, NEW m \in Ticks, credited'[u][m] > 0
          PROVE  /\ states[u] # None => m <= states[u].last \/ now - m > Fresh
                 /\ loading[u] # None => m <= loading[u].last \/ now - m > Fresh
                 /\ activity'[u] # None => m <= activity'[u].state.last \/ now - m > Fresh
                 /\ activity'[u] = None => m <= 0 \/ now - m > Fresh
                 /\ batch.states[u] # None => m <= batch.states[u].last \/ now - m > Fresh
        <3>1. ASSUME batch.states[u] # None
              PROVE  /\ m <= batch.states[u].last \/ now - m > Fresh
                     /\ m <= states[u].last \/ now - m > Fresh
                     /\ loading[u] = None
            <4>1. batch.states[u] \in Activity /\ states[u] # None /\ states[u] \in Activity
                  /\ loading[u] = None
                BY <1>0, <2>1, <3>1 DEF ShapeOK, TypeOK, Batch
            <4>2. Seen(u, batch.states[u]) /\ Seen(u, states[u])
                BY <1>0, <2>1, <3>1, <4>1 DEF CreditOK
            <4>3. batch.states[u].last <= states[u].last /\ batch.states[u].last <= batch.states[u].last
                <5>1. batch.states[u].last \in Nat
                    BY <4>1 DEF Activity
                <5>2. batch.states[u].last <= states[u].last
                    BY <1>0, <2>1, <3>1 DEF TimesOK, Behind
                <5> QED BY <5>1, <5>2
            <4>4. Seen(u, batch.states[u]) => \A n \in Ticks : credited'[u][n] > 0 =>
                      n <= batch.states[u].last \/ now - n > Fresh
                BY <1>10, <4>1, <4>3, SeenAfter DEF Seen
            <4>5. Seen(u, states[u]) => \A n \in Ticks : credited'[u][n] > 0 =>
                      n <= states[u].last \/ now - n > Fresh
                BY <1>10, <4>1, <4>3, SeenAfter DEF Seen
            <4> QED BY <2>2, <4>1, <4>2, <4>4, <4>5
        <3>2. ASSUME batch.states[u] = None
              PROVE  credited[u][m] > 0 /\ activity'[u] = activity[u]
            <4>1. \A a \in batch.awards : a.user # u
                BY <1>0, <2>1, <3>2 DEF ShapeOK
            <4> QED BY <1>10, <2>2, <3>2, <4>1, Booked, OthersUntouched
        <3>3. CASE batch.states[u] = None
            BY <1>0, <3>2, <3>3 DEF CreditOK, Seen, NewActivity
        <3>4. CASE batch.states[u] # None /\ Committed /\ UNCHANGED <<tables, credited>>
            BY <1>0, <2>2, <3>1, <3>4 DEF CreditOK, Seen, NewActivity, tables
        <3>5. CASE batch.states[u] # None /\ activity'[u] = [state |-> batch.states[u], at |-> batch.time]
            <4>1. activity'[u].state = batch.states[u] /\ activity'[u] # None
                <5>1. batch.states[u] \in Activity /\ batch.time \in Ticks
                    BY <2>1, <3>5 DEF Batch
                <5>2. activity'[u] \in Checkpoint
                    BY <3>5, <5>1 DEF Checkpoint
                <5> QED BY <3>5, <5>2, Constants
            <4> QED BY <3>1, <3>5, <4>1
        <3> QED BY <1>10, <3>3, <3>4, <3>5, Booked
    <2>3. ASSUME NEW a \in awards PROVE credited'[a.user][a.message] = 0
        <3>1. a.user \in Users /\ a.message \in Ticks
            BY <1>0 DEF TypeOK, Award
        <3>2. credited[a.user][a.message] = 0
            BY <1>0 DEF CreditOK, Uncredited
        <3>3. ~ \E b \in batch.awards : b.user = a.user /\ b.message = a.message
            <4> SUFFICES ASSUME NEW b \in batch.awards, b.user = a.user, b.message = a.message
                         PROVE  FALSE
                OBVIOUS
            <4>1. batch.states[a.user] # None /\ a.message <= batch.states[a.user].last
                BY <1>0, <2>1 DEF ShapeOK, CreditOK
            <4>2. a.message > batch.states[a.user].last
                BY <1>0, <2>1, <4>1 DEF CreditOK
            <4>3. batch.states[a.user].last \in Int
                BY <2>1, <3>1, <4>1 DEF Batch, Activity
            <4> QED BY <3>1, <4>1, <4>2, <4>3 DEF Ticks
        <3>4. credited'[a.user][a.message] \in Nat
            BY <2>1, <3>1
        <3>5. ~(credited'[a.user][a.message] > 0)
            BY <1>10, <3>1, <3>2, <3>3, Booked
        <3> QED BY <3>4, <3>5
    <2> QED BY <2>2, <2>3
<1>11. CASE Acknowledged
    <2>0. flushing > 0 /\ Transaction(batch) /\ UNCHANGED <<now, loading>>
        BY <1>11 DEF Acknowledged
    <2>1. CASE CanSnapshot /\ Snapshot /\ flushing' = 2 /\ UNCHANGED states
        <3>1. \A u \in Users : /\ states[u] # None => Seen(u, states[u])'
                               /\ loading[u] # None => Seen(u, loading[u])'
                               /\ activity'[u] # None => Seen(u, activity[u].state)'
                               /\ activity'[u] = None => Seen(u, NewActivity)'
            BY <1>10, <2>0, <2>1 DEF Seen, NewActivity
        <3>2. awards' = {} /\ batch'.awards = awards
            BY <1>0, <2>1, SnapshotType
        <3>3. Uncredited(awards)' /\ Uncredited(batch.awards)'
            BY <1>10, <2>0, <3>2 DEF Uncredited
        <3> QED BY <1>7, <2>0, <2>1, <3>1, <3>3
    <2>2. CASE batch' = None /\ flushing' = 0 /\ Evict /\ UNCHANGED <<dirty, awards, flags, nextId>>
        <3>1. \A u \in Users : states'[u] # None => states'[u] = states[u]
            BY <2>2 DEF Evict
        <3>2. \A a \in awards : a.user \in Users /\ states'[a.user] = states[a.user]
            BY <1>0, <2>2 DEF Evict, Evictable, ShapeOK, TypeOK
        <3>3. \A u \in Users : /\ states'[u] # None => Seen(u, states[u])'
                               /\ loading'[u] # None => Seen(u, loading[u])'
                               /\ activity'[u] # None => Seen(u, activity[u].state)'
                               /\ activity'[u] = None => Seen(u, NewActivity)'
            BY <1>10, <2>0, <3>1 DEF Seen, NewActivity
        <3>4. Uncredited(awards)'
            BY <1>10, <2>0, <2>2 DEF Uncredited
        <3>5. \A a \in awards' : a.message <= states'[a.user].last
            BY <1>0, <2>2, <3>2 DEF CreditOK
        <3>6. Distinct(awards)'
            BY <1>0, <2>2 DEF CreditOK
        <3> QED BY <2>2, <3>3, <3>4, <3>5, <3>6 DEF CreditOK
    <2> QED BY <1>11, <2>1, <2>2 DEF Acknowledged
<1>12. CASE ResponseLost
    <2>0. /\ flushing > 0 /\ Transaction(batch)
          /\ UNCHANGED <<now, states, dirty, awards, flags, batch, loading>>
        BY <1>12 DEF ResponseLost
    <2>1. \A u \in Users : /\ states'[u] # None => Seen(u, states[u])'
                           /\ loading'[u] # None => Seen(u, loading[u])'
                           /\ activity'[u] # None => Seen(u, activity[u].state)'
                           /\ activity'[u] = None => Seen(u, NewActivity)'
                           /\ batch'.states[u] # None => Seen(u, batch.states[u])'
        BY <1>10, <2>0 DEF Seen, NewActivity
    <2>2. Uncredited(awards)'
        BY <1>10, <2>0 DEF Uncredited
    <2>3. Committed'
        BY <2>0, Booked DEF Committed
    <2> QED BY <1>0, <2>0, <2>1, <2>2, <2>3 DEF CreditOK
<1>13. CASE WriteFails
    <2>1. UNCHANGED <<now, states, awards, batch, loading, credited, activity, receipts>>
        BY <1>13 DEF WriteFails, tables, history
    <2> QED BY <1>0, <2>1 DEF CreditOK, Seen, Committed, Uncredited
<1>14. CASE Cleanup
    <2>1. /\ UNCHANGED <<now, states, awards, batch, loading, credited>>
          /\ Committed' <=> Committed
        BY <1>14, StillCommitted DEF Cleanup, memory, history
    <2>2. \A u \in Users : \/ activity'[u] = activity[u]
                           \/ activity'[u] = None /\ activity[u] # None /\ now - activity[u].at > Expire
        BY <1>0, <1>14 DEF Cleanup, TypeOK
    <2>3. \A u \in Users : /\ activity'[u] # None => Seen(u, activity'[u].state)
                           /\ activity'[u] = None => Seen(u, NewActivity)
        BY <1>0, <2>2, ExpiredIsNew DEF CreditOK
    <2> QED BY <1>0, <2>1, <2>3 DEF CreditOK, Seen, Uncredited, NewActivity
<1>15. CASE Crash
    <2>1. /\ UNCHANGED <<now, activity, credited>> /\ awards' = {} /\ batch' = None
          /\ states' = [u \in Users |-> None] /\ loading' = [u \in Users |-> None]
        BY <1>15 DEF Crash, tables, history
    <2> QED BY <1>0, <2>1 DEF CreditOK, Seen, Distinct, Uncredited
<1>16. CASE Tick
    <2>1. now' = now + 1 /\ UNCHANGED <<states, loading, batch, activity, awards, credited, receipts>>
        BY <1>16 DEF Tick, memory, tables, history
    <2>2. \A m \in Ticks : now - m > Fresh => now + 1 - m > Fresh
        BY <1>0 DEF Ticks
    <2>3. \A u \in Users : /\ states[u] # None => Seen(u, states[u])'
                           /\ loading[u] # None => Seen(u, loading[u])'
                           /\ activity[u] # None => Seen(u, activity[u].state)'
                           /\ activity[u] = None => Seen(u, NewActivity)'
                           /\ batch # None /\ batch.states[u] # None => Seen(u, batch.states[u])'
        <3>1. ASSUME NEW u \in Users, NEW m \in Ticks, credited'[u][m] > 0, NEW a, Seen(u, a)
              PROVE  m <= a.last \/ now' - m > Fresh
            <4>1. m <= a.last \/ now - m > Fresh
                BY <2>1, <3>1 DEF Seen
            <4>2. now' - m = now + 1 - m
                BY <1>0, <2>1 DEF Ticks
            <4> QED BY <2>2, <4>1, <4>2
        <3>2. \A u \in Users, m \in Ticks : credited'[u][m] > 0 =>
                  /\ states[u] # None => m <= states[u].last \/ now' - m > Fresh
                  /\ loading[u] # None => m <= loading[u].last \/ now' - m > Fresh
                  /\ activity[u] # None => m <= activity[u].state.last \/ now' - m > Fresh
                  /\ activity[u] = None => m <= NewActivity.last \/ now' - m > Fresh
                  /\ batch # None /\ batch.states[u] # None =>
                        m <= batch.states[u].last \/ now' - m > Fresh
            BY <1>0, <3>1 DEF CreditOK
        <3> QED BY <2>1, <3>2 DEF Seen, NewActivity
    <2> QED BY <1>0, <2>1, <2>3 DEF CreditOK, Committed, Uncredited
<1>17. CASE DeleteOldMinutes
    <2>1. UNCHANGED <<now, states, awards, batch, loading, credited, activity, receipts>>
        BY <1>17 DEF DeleteOldMinutes, memory
    <2> QED BY <1>0, <2>1 DEF CreditOK, Seen, Committed, Uncredited
<1> QED BY <1>1, <1>2, <1>3, <1>5, <1>6, <1>8, <1>9, <1>11, <1>12, <1>13, <1>14, <1>15, <1>16, <1>17
        DEF Next

\* What is booked, and what is going to be, was earned by now.
LEMMA PayNext == ASSUME IInv, Next PROVE PayOK'
<1>0. PayOK /\ TypeOK /\ ShapeOK /\ now \in Ticks /\ now \in Nat
    BY DEF IInv, TypeOK, Ticks
<1>1. CASE UNCHANGED <<now, monthly, awards, batch>>
    BY <1>0, <1>1 DEF PayOK, SentAwards
<1>2. ASSUME NEW u \in Users, NEW m \in Ticks, Earn(u, m) PROVE PayOK'
    <2>1. /\ UNCHANGED <<now, monthly, SentAwards>>
          /\ awards' = awards \cup {[user |-> u, message |-> m, slot |-> Slot(now)]}
        BY <1>2 DEF Earn, tables, SentAwards
    <2>2. Slot(now) <= now
        BY <1>0, Slots
    <2> QED BY <1>0, <2>1, <2>2 DEF PayOK
\* The snapshot moves awards, and a transaction books those of the batch.
<1>3. ASSUME UNCHANGED now, awards' \cup SentAwards' \subseteq awards \cup SentAwards,
             \A u \in Users, m \in Minutes : monthly'[u][m] > 0 =>
                 \/ monthly[u][m] > 0
                 \/ \E a \in SentAwards : a.user = u /\ a.slot = m
      PROVE  PayOK'
    BY <1>0, <1>3 DEF PayOK
<1>4. ASSUME CanSnapshot, Snapshot PROVE awards' \cup SentAwards' \subseteq awards \cup SentAwards
    BY <1>0, <1>4, SnapshotType DEF SentAwards
<1>5. ASSUME flushing > 0, Transaction(batch)
      PROVE  \A u \in Users, m \in Minutes : monthly'[u][m] > 0 =>
                 \/ monthly[u][m] > 0
                 \/ \E a \in SentAwards : a.user = u /\ a.slot = m
    BY <1>5, Booked DEF SentAwards
<1>6. CASE BeginFlush
    <2>1. UNCHANGED <<now, monthly>>
        BY <1>6 DEF BeginFlush, tables
    <2>2. CASE CanSnapshot /\ Snapshot
        BY <1>3, <1>4, <2>1, <2>2
    <2> QED BY <1>1, <1>6, <2>1, <2>2 DEF BeginFlush
<1>7. CASE Acknowledged
    <2>1. UNCHANGED now /\ flushing > 0 /\ Transaction(batch)
        BY <1>7 DEF Acknowledged
    <2>2. awards' \cup SentAwards' \subseteq awards \cup SentAwards
        BY <1>4, <1>7 DEF Acknowledged, SentAwards
    <2> QED BY <1>3, <1>5, <2>1, <2>2
<1>8. CASE ResponseLost
    <2>1. UNCHANGED <<now, awards, SentAwards>> /\ flushing > 0 /\ Transaction(batch)
        BY <1>8 DEF ResponseLost, SentAwards
    <2> QED BY <1>3, <1>5, <2>1
<1>9. CASE DeleteOldMinutes
    <2>1. UNCHANGED <<now, awards, SentAwards>>
        BY <1>9 DEF DeleteOldMinutes, memory, SentAwards
    <2>2. \A u \in Users, m \in Minutes : monthly'[u][m] \in Nat /\ monthly[u][m] \in Nat
                                          /\ monthly'[u][m] <= monthly[u][m]
        BY <1>0, <1>9, Deleted DEF TypeOK
    <2> QED BY <1>3, <2>1, <2>2
<1>10. CASE Crash
    <2>1. UNCHANGED <<now, monthly>> /\ awards' = {} /\ SentAwards' = {}
        BY <1>10 DEF Crash, tables, SentAwards
    <2> QED BY <1>3, <2>1
<1>11. CASE Tick
    <2>1. now' = now + 1 /\ UNCHANGED <<monthly, awards, SentAwards>>
        BY <1>11 DEF Tick, memory, tables, SentAwards
    <2>2. \A n \in Nat : n <= now => n <= now + 1
        BY <1>0
    <2>3. \A a \in awards \cup SentAwards : a.slot \in Nat
        BY <1>0, MinutesAreNat DEF TypeOK, SentAwards, Batch, Award
    <2> QED BY <1>0, <2>1, <2>2, <2>3, MinutesAreNat DEF PayOK
<1>12. CASE \/ \E u \in Users : \/ BeginLoad(u) \/ EndLoad(u) \/ Release(u)
                                \/ \E m \in Ticks : RaiseFlag(u, m)
            \/ FlushNothing \/ WriteFails \/ Cleanup
    <2>1. UNCHANGED <<now, monthly, awards, batch>>
        BY <1>12 DEF BeginLoad, EndLoad, Release, RaiseFlag, FlushNothing, WriteFails, Cleanup,
                     tables, memory
    <2> QED BY <1>1, <2>1
<1> QED BY <1>2, <1>6, <1>7, <1>8, <1>9, <1>10, <1>11, <1>12 DEF Next

\* No pause that anybody has to keep is forgotten, and nothing reaches one.
LEMMA PauseNext == ASSUME IInv, Next PROVE PauseOK'
<1>0. PauseOK /\ PayOK /\ TypeOK /\ ShapeOK /\ TimesOK /\ now \in Ticks /\ now \in Nat
    BY DEF IInv, TypeOK, Ticks
<1>f. \A f \in audit \cup Sent \cup flags : f.user \in Users /\ f.at \in Nat /\ f.until \in Nat
    BY <1>0 DEF TypeOK, Sent, Batch, Flag, Ticks
<1>1. ASSUME NEW u \in Users, BeginLoad(u) PROVE PauseOK'
    <2>1. Covered(u, loading'[u], audit) /\ \A v \in Users : v # u => loading'[v] = loading[v]
        BY <1>0, <1>1 DEF BeginLoad, PauseOK, TypeOK
    <2>2. UNCHANGED <<now, monthly, audit, lifted, states, activity, awards, flags, batch>>
        BY <1>1 DEF BeginLoad, tables, history
    <2>3. \A v \in Users : loading'[v] # None => Covered(v, loading'[v], audit)
        BY <1>0, <2>1 DEF PauseOK
    <2> QED BY <1>0, <2>2, <2>3 DEF PauseOK, Covered, Sent, SentAwards
<1>2. ASSUME NEW u \in Users, EndLoad(u) PROVE PauseOK'
    <2>1. /\ states'[u] = loading[u] /\ loading'[u] = None /\ loading[u] # None
          /\ \A v \in Users : v # u => states'[v] = states[v] /\ loading'[v] = loading[v]
        BY <1>0, <1>2 DEF EndLoad, TypeOK
    <2>2. UNCHANGED <<now, monthly, audit, lifted, activity, awards, flags, batch>>
        BY <1>2 DEF EndLoad, tables, history
    <2>3. \A f \in Sent \cup flags : f.user # u
        BY <1>0, <2>1 DEF ShapeOK, TypeOK, Sent
    <2>4. Covered(u, states'[u], audit \cup Sent \cup flags)
        BY <1>0, <2>1, <2>3 DEF PauseOK, Covered
    <2>5. \A v \in Users : /\ states'[v] # None => Covered(v, states'[v], audit \cup Sent \cup flags)
                           /\ loading'[v] # None => Covered(v, loading'[v], audit)
        BY <1>0, <2>1, <2>4 DEF PauseOK
    <2> QED BY <1>0, <2>2, <2>5 DEF PauseOK, Covered, Sent, SentAwards
<1>3. ASSUME NEW u \in Users, Release(u) PROVE PauseOK'
    <2>1. UNCHANGED <<now, monthly, audit, activity, awards, flags, batch, loading, Sent, SentAwards>>
        BY <1>3 DEF Release, tables, Sent, SentAwards
    <2>2. \A f \in audit \cup Sent \cup flags : /\ f \in lifted => f \in lifted'
                                                /\ f.user = u => f \in lifted'
        BY <1>3 DEF Release, Sent
    <2>3. \A v \in Users : v # u => states'[v] = states[v]
        BY <1>0, <1>3, Released
    <2>4. \A v \in Users : states'[v] # None => Covered(v, states[v], audit \cup Sent \cup flags)'
        BY <1>0, <2>1, <2>2, <2>3 DEF PauseOK, Covered
    <2>5. \A v \in Users : /\ loading'[v] # None => Covered(v, loading[v], audit)'
                           /\ activity'[v] # None => Covered(v, activity[v].state, audit)'
                           /\ activity'[v] = None => Covered(v, NewActivity, audit)'
                           /\ batch' # None /\ batch'.states[v] # None =>
                                 Covered(v, batch.states[v], audit \cup Sent)'
        BY <1>0, <2>1, <2>2 DEF PauseOK, Covered, NewActivity
    <2>6. \A f \in (audit' \cup Sent' \cup flags') \ lifted' : f \in (audit \cup Sent \cup flags) \ lifted
        BY <2>1, <2>2
    <2> QED BY <1>0, <2>1, <2>4, <2>5, <2>6 DEF PauseOK
\* Old flags of whom a message counts are over.
<1>4. ASSUME NEW u \in Users, NEW m \in Ticks, Counts(u, m)
      PROVE  \A f \in (audit \cup Sent \cup flags) \ lifted : f.user = u => f.until <= now
    <2>1. /\ states[u] \in Activity /\ states[u] # None /\ states[u].blocked <= now
          /\ states[u].blocked \in Int
        <3>1. states[u] \in Activity /\ states[u].blocked <= now
            BY <1>0, <1>4, CountsFacts
        <3> QED BY <3>1, Constants DEF Activity
    <2>2. \A f \in (audit \cup Sent \cup flags) \ lifted : f.user = u => f.until <= now
        <3>1. Covered(u, states[u], audit \cup Sent \cup flags)
            BY <1>0, <2>1 DEF PauseOK
        <3> QED BY <1>0, <1>f, <2>1, <3>1 DEF Covered
    <2> QED BY <2>2
<1>5. ASSUME NEW u \in Users, NEW m \in Ticks, Earn(u, m) PROVE PauseOK'
    <2>1. /\ UNCHANGED <<now, monthly, audit, lifted, activity, flags, batch, loading, Sent, SentAwards>>
          /\ awards' = awards \cup {[user |-> u, message |-> m, slot |-> Slot(now)]}
        BY <1>5 DEF Earn, tables, history, Sent, SentAwards
    <2>2. /\ states'[u].blocked = states[u].blocked /\ states[u] # None
          /\ \A v \in Users : v # u => states'[v] = states[v]
        BY <1>0, <1>5, Earns
    <2>3. \A v \in Users : states'[v] # None => Covered(v, states[v], audit \cup Sent \cup flags)'
        BY <1>0, <2>1, <2>2 DEF PauseOK, Covered
    <2>4. ASSUME NEW f \in (audit' \cup Sent' \cup flags') \ lifted'
          PROVE  /\ \A n \in Minutes : Later(f, n) => monthly'[f.user][n] = 0
                 /\ \A a \in awards' \cup SentAwards' : a.user = f.user => ~Later(f, a.slot)
        <3>1. f.user = u => f.until <= now
            BY <1>4, <1>5, <2>1 DEF Earn
        <3>2. f.user = u => ~Later(f, Slot(now))
            BY <1>0, <1>f, <2>1, <3>1, Slots, Constants DEF Later
        <3>3. \A a \in awards' : \/ a \in awards
                                 \/ a.user = u /\ a.slot = Slot(now)
            BY <2>1
        <3> QED BY <1>0, <2>1, <3>2, <3>3 DEF PauseOK
    <2> QED BY <1>0, <2>1, <2>3, <2>4 DEF PauseOK, Covered, Later
<1>6. ASSUME NEW u \in Users, NEW m \in Ticks, RaiseFlag(u, m) PROVE PauseOK'
    <2>1. UNCHANGED <<now, monthly, audit, lifted, activity, awards, batch, loading, Sent, SentAwards>>
        BY <1>6 DEF RaiseFlag, tables, history, Sent, SentAwards
    <2>2. PICK until \in Nat : /\ states'[u].blocked = until
                               /\ flags' = flags \cup {[user |-> u, at |-> now, until |-> until]}
        BY <1>0, <1>6, Raises
    <2> DEFINE g == [user |-> u, at |-> now, until |-> until]
    <2>3. g.user = u /\ g.at = now /\ g.until = until /\ flags' = flags \cup {g}
        BY <2>2
    <2> HIDE DEF g
    <2>4. states[u] # None /\ \A v \in Users : v # u => states'[v] = states[v]
        BY <1>0, <1>6, Raises
    <2>5. \A f \in (audit \cup Sent \cup flags) \ lifted : f.user = u => f.until <= now
        BY <1>4, <1>6 DEF RaiseFlag
    <2>6. \A v \in Users : states'[v] # None => Covered(v, states[v], audit \cup Sent \cup flags)'
        <3>1. Covered(u, states[u], audit \cup Sent \cup flags)'
            BY <1>0, <2>1, <2>2, <2>3, <2>5 DEF Covered
        <3>2. ASSUME NEW v \in Users, v # u, states'[v] # None
              PROVE  Covered(v, states[v], audit \cup Sent \cup flags)'
            BY <1>0, <2>1, <2>3, <2>4, <3>2 DEF PauseOK, Covered
        <3> QED BY <3>1, <3>2
    <2>7. ASSUME NEW f \in (audit' \cup Sent' \cup flags') \ lifted'
          PROVE  /\ \A n \in Minutes : Later(f, n) => monthly'[f.user][n] = 0
                 /\ \A a \in awards' \cup SentAwards' : a.user = f.user => ~Later(f, a.slot)
        <3>1. CASE f = g
            <4>1. \A n \in Minutes : Later(f, n) => monthly'[f.user][n] = 0
                <5>1. \A n \in Minutes : monthly[u][n] \in Nat /\ (monthly[u][n] > 0 => n <= now)
                    BY <1>0 DEF PayOK, TypeOK
                <5> QED BY <1>0, <2>1, <2>3, <3>1, <5>1, MinutesAreNat DEF Later
            <4>2. \A a \in awards \cup SentAwards : a.slot \in Nat /\ a.slot <= now
                BY <1>0, MinutesAreNat DEF PayOK, TypeOK, SentAwards, Batch, Award
            <4> QED BY <1>0, <2>1, <2>3, <3>1, <4>1, <4>2 DEF Later
        <3>2. CASE f # g
            BY <1>0, <2>1, <2>3, <3>2 DEF PauseOK
        <3> QED BY <3>1, <3>2
    <2> QED BY <1>0, <2>1, <2>6, <2>7 DEF PauseOK, Covered, Later
\* With fewer flags to keep, and nothing booked or earned that was not before.
<1>7. ASSUME UNCHANGED <<now, lifted>>,
             audit' \cup Sent' \cup flags' \subseteq audit \cup Sent \cup flags,
             awards' \cup SentAwards' \subseteq awards \cup SentAwards,
             \A u \in Users, n \in Minutes : monthly'[u][n] > 0 =>
                 \/ monthly[u][n] > 0
                 \/ \E a \in SentAwards : a.user = u /\ a.slot = n,
             monthly' \in [Users -> [Minutes -> Nat]]
      PROVE  \A f \in (audit' \cup Sent' \cup flags') \ lifted' :
                /\ \A n \in Minutes : Later(f, n) => monthly'[f.user][n] = 0
                /\ \A a \in awards' \cup SentAwards' : a.user = f.user => ~Later(f, a.slot)
    <2> SUFFICES ASSUME NEW f \in (audit' \cup Sent' \cup flags') \ lifted'
                 PROVE  /\ \A n \in Minutes : Later(f, n) => monthly'[f.user][n] = 0
                        /\ \A a \in awards' \cup SentAwards' : a.user = f.user => ~Later(f, a.slot)
        OBVIOUS
    <2>1. f \in (audit \cup Sent \cup flags) \ lifted
        BY <1>7
    <2>2. /\ \A n \in Minutes : Later(f, n) => monthly[f.user][n] = 0
          /\ \A a \in awards \cup SentAwards : a.user = f.user => ~Later(f, a.slot)
        BY <1>0, <2>1 DEF PauseOK
    <2>3. ASSUME NEW n \in Minutes, Later(f, n) PROVE monthly'[f.user][n] = 0
        <3>1. ~(monthly'[f.user][n] > 0)
            BY <1>f, <1>7, <2>1, <2>2, <2>3
        <3>2. monthly'[f.user][n] \in Nat
            BY <1>f, <1>7, <2>1
        <3> QED BY <3>1, <3>2
    <2> QED BY <1>7, <2>2, <2>3
\* The snapshot moves the flags from memory into the batch.
<1>8. ASSUME CanSnapshot, Snapshot, UNCHANGED <<now, states, loading, lifted>>,
             audit' \subseteq audit \cup Sent,
             \A u \in Users, n \in Minutes : monthly'[u][n] > 0 =>
                 \/ monthly[u][n] > 0
                 \/ \E a \in SentAwards : a.user = u /\ a.slot = n,
             monthly' \in [Users -> [Minutes -> Nat]],
             \A u \in Users : /\ loading[u] # None => \A f \in audit' : f.user = u => f \in audit
                              /\ activity'[u] # None => Covered(u, activity[u].state, audit)'
                              /\ activity'[u] = None => Covered(u, NewActivity, audit)'
      PROVE  PauseOK'
    <2>1. /\ batch'.states = DirtyStates /\ batch'.awards = awards /\ batch'.flags = flags
          /\ awards' = {} /\ flags' = {} /\ batch' # None
        BY <1>0, <1>8, SnapshotType
    <2>2. Sent' = flags /\ SentAwards' = awards
        BY <2>1 DEF Sent, SentAwards
    <2>3. \A u \in Users : states'[u] # None => Covered(u, states[u], audit \cup Sent \cup flags)'
        BY <1>0, <1>8, <2>1, <2>2 DEF PauseOK, Covered
    <2>4. \A u \in Users : loading'[u] # None => Covered(u, loading[u], audit)'
        BY <1>0, <1>8 DEF PauseOK, Covered
    <2>5. \A u \in Users : batch'.states[u] # None =>
              states[u] # None /\ batch'.states[u] = states[u]
        BY <2>1 DEF DirtyStates
    <2>6. \A u \in Users : batch'.states[u] # None => Covered(u, batch.states[u], audit \cup Sent)'
        BY <1>8, <2>3, <2>5 DEF Covered
    <2>7. \A f \in (audit' \cup Sent' \cup flags') \ lifted' :
              /\ \A n \in Minutes : Later(f, n) => monthly'[f.user][n] = 0
              /\ \A a \in awards' \cup SentAwards' : a.user = f.user => ~Later(f, a.slot)
        <3>1. /\ audit' \cup Sent' \cup flags' \subseteq audit \cup Sent \cup flags
              /\ awards' \cup SentAwards' \subseteq awards \cup SentAwards
            BY <1>8, <2>1, <2>2
        <3> QED BY <1>7, <1>8, <3>1
    <2> QED BY <1>8, <2>3, <2>4, <2>6, <2>7 DEF PauseOK, Later
<1>9. CASE BeginFlush
    <2>0. UNCHANGED <<now, states, loading, monthly, activity, audit, lifted>>
        BY <1>9 DEF BeginFlush, tables, history
    <2>1. CASE batch # None /\ UNCHANGED <<dirty, awards, flags, batch, nextId>>
        <3>1. UNCHANGED <<awards, flags, batch, Sent, SentAwards>>
            BY <2>1 DEF Sent, SentAwards
        <3> QED BY <1>0, <2>0, <3>1 DEF PauseOK, Covered, Later
    <2>2. CASE CanSnapshot /\ Snapshot
        <3>1. monthly' \in [Users -> [Minutes -> Nat]]
            BY <1>0, <2>0 DEF TypeOK
        <3>2. \A u \in Users : /\ activity'[u] # None => Covered(u, activity[u].state, audit)'
                               /\ activity'[u] = None => Covered(u, NewActivity, audit)'
            BY <1>0, <2>0 DEF PauseOK, Covered, NewActivity
        <3> QED BY <1>8, <2>0, <2>2, <3>1, <3>2
    <2> QED BY <1>9, <2>1, <2>2 DEF BeginFlush
<1>10. CASE FlushNothing
    <2>1. UNCHANGED <<now, awards, flags, batch, loading, monthly, activity, audit, lifted, Sent, SentAwards>>
        BY <1>10 DEF FlushNothing, tables, history, Sent, SentAwards
    <2>2. \A u \in Users : states'[u] # None => states'[u] = states[u]
        BY <1>10 DEF FlushNothing, Evict
    <2>3. \A u \in Users : states'[u] # None => Covered(u, states[u], audit \cup Sent \cup flags)'
        BY <1>0, <2>1, <2>2 DEF PauseOK, Covered
    <2> QED BY <1>0, <2>1, <2>3 DEF PauseOK, Covered, Later
<1>11. ASSUME flushing > 0, Transaction(batch), UNCHANGED <<now, lifted>>
       PROVE  /\ audit' \subseteq audit \cup Sent
              /\ \A u \in Users, n \in Minutes : monthly'[u][n] > 0 =>
                    \/ monthly[u][n] > 0
                    \/ \E a \in SentAwards : a.user = u /\ a.slot = n
              /\ monthly' \in [Users -> [Minutes -> Nat]]
              /\ \A u \in Users : /\ loading[u] # None => \A f \in audit' : f.user = u => f \in audit
                                  /\ activity'[u] # None => Covered(u, activity[u].state, audit)'
                                  /\ activity'[u] = None => Covered(u, NewActivity, audit)'
    <2>1. batch \in Batch /\ batch # None
        BY <1>11, Booked
    <2>2. audit' \subseteq audit \cup Sent
        BY <1>11, <2>1, Booked DEF Sent, tables
    <2>3. \A u \in Users, n \in Minutes : monthly'[u][n] > 0 =>
              \/ monthly[u][n] > 0
              \/ \E a \in SentAwards : a.user = u /\ a.slot = n
        BY <1>11, <2>1, Booked DEF SentAwards
    <2>4. monthly' \in [Users -> [Minutes -> Nat]]
        BY <1>11, <2>1, TransactionType DEF IInv
    <2>5. ASSUME NEW u \in Users, loading[u] # None PROVE \A f \in audit' : f.user = u => f \in audit
        <3>1. batch.states[u] = None
            BY <1>0, <2>1, <2>5 DEF ShapeOK
        <3> QED BY <1>11, <3>1, OthersUntouched
    <2>6. ASSUME NEW u \in Users
          PROVE  /\ activity'[u] # None => Covered(u, activity[u].state, audit)'
                 /\ activity'[u] = None => Covered(u, NewActivity, audit)'
        <3>1. CASE batch.states[u] = None
            <4>1. activity'[u] = activity[u] /\ \A f \in audit' : f.user = u => f \in audit
                BY <1>11, <3>1, OthersUntouched
            <4> QED BY <1>0, <1>11, <4>1 DEF PauseOK, Covered, NewActivity
        <3>2. CASE batch.states[u] # None /\ UNCHANGED <<tables, credited>>
            <4>1. activity' = activity /\ audit' = audit
                BY <3>2 DEF tables
            <4> QED BY <1>0, <1>11, <4>1 DEF PauseOK, Covered, NewActivity
        <3>3. CASE batch.states[u] # None /\ activity'[u] = [state |-> batch.states[u], at |-> batch.time]
            <4>1. activity'[u].state = batch.states[u] /\ activity'[u] # None
                <5>1. batch.states[u] \in Activity /\ batch.time \in Ticks
                    BY <2>1, <3>3 DEF Batch
                <5>2. activity'[u] \in Checkpoint
                    BY <3>3, <5>1 DEF Checkpoint
                <5> QED BY <3>3, <5>2, Constants
            <4>2. Covered(u, batch.states[u], audit \cup Sent)
                BY <1>0, <2>1, <3>3 DEF PauseOK
            <4> QED BY <1>11, <2>2, <4>1, <4>2 DEF Covered
        <3> QED BY <1>11, <3>1, <3>2, <3>3, Booked
    <2> QED BY <2>2, <2>3, <2>4, <2>5, <2>6
<1>12. CASE Acknowledged
    <2>0. flushing > 0 /\ Transaction(batch) /\ UNCHANGED <<now, loading, lifted>>
        BY <1>12 DEF Acknowledged
    <2>1. CASE CanSnapshot /\ Snapshot /\ flushing' = 2 /\ UNCHANGED states
        BY <1>8, <1>11, <2>0, <2>1
    <2>2. CASE batch' = None /\ flushing' = 0 /\ Evict /\ UNCHANGED <<dirty, awards, flags, nextId>>
        <3>1. \A u \in Users : states'[u] # None => states'[u] = states[u]
            BY <2>2 DEF Evict
        <3>2. Sent' = {} /\ SentAwards' = {} /\ audit' \subseteq audit \cup Sent
              /\ UNCHANGED <<flags, awards, lifted, now>>
            BY <1>11, <2>0, <2>2 DEF Sent, SentAwards
        <3>3. \A u \in Users : states'[u] # None => Covered(u, states[u], audit \cup Sent \cup flags)'
            BY <1>0, <3>1, <3>2 DEF PauseOK, Covered
        <3>4. \A u \in Users : loading'[u] # None => Covered(u, loading[u], audit)'
            BY <1>0, <1>11, <2>0, <3>2 DEF PauseOK, Covered
        <3>5. \A f \in (audit' \cup Sent' \cup flags') \ lifted' :
                  /\ \A n \in Minutes : Later(f, n) => monthly'[f.user][n] = 0
                  /\ \A a \in awards' \cup SentAwards' : a.user = f.user => ~Later(f, a.slot)
            BY <1>7, <1>11, <2>0, <3>2
        <3> QED BY <1>11, <2>0, <2>2, <3>3, <3>4, <3>5 DEF PauseOK, Later
    <2> QED BY <1>12, <2>1, <2>2 DEF Acknowledged
<1>13. CASE ResponseLost
    <2>0. /\ flushing > 0 /\ Transaction(batch)
          /\ UNCHANGED <<now, states, awards, flags, batch, loading, lifted>>
        BY <1>13 DEF ResponseLost
    <2>1. UNCHANGED <<Sent, SentAwards>> /\ audit' \subseteq audit \cup Sent
        BY <1>11, <2>0 DEF Sent, SentAwards
    <2>2. \A u \in Users : states'[u] # None => Covered(u, states[u], audit \cup Sent \cup flags)'
        BY <1>0, <2>0, <2>1 DEF PauseOK, Covered
    <2>3. \A u \in Users : loading'[u] # None => Covered(u, loading[u], audit)'
        BY <1>0, <1>11, <2>0, <2>1 DEF PauseOK, Covered
    <2>4. \A u \in Users : batch' # None /\ batch'.states[u] # None =>
              Covered(u, batch.states[u], audit \cup Sent)'
        BY <1>0, <2>0, <2>1 DEF PauseOK, Covered
    <2>5. \A f \in (audit' \cup Sent' \cup flags') \ lifted' :
              /\ \A n \in Minutes : Later(f, n) => monthly'[f.user][n] = 0
              /\ \A a \in awards' \cup SentAwards' : a.user = f.user => ~Later(f, a.slot)
        BY <1>7, <1>11, <2>0, <2>1
    <2> QED BY <1>11, <2>0, <2>2, <2>3, <2>4, <2>5 DEF PauseOK, Later
<1>14. CASE WriteFails
    <2>1. UNCHANGED <<now, states, loading, monthly, activity, audit, lifted, awards, flags, batch,
                      Sent, SentAwards>>
        BY <1>14 DEF WriteFails, tables, history, Sent, SentAwards
    <2> QED BY <1>0, <2>1 DEF PauseOK, Covered, Later
<1>15. CASE Cleanup
    <2>1. /\ UNCHANGED <<now, states, loading, monthly, lifted, awards, flags, batch, Sent, SentAwards>>
          /\ audit' \subseteq audit
        BY <1>15 DEF Cleanup, memory, history, Sent, SentAwards
    <2>2. \A u \in Users : \/ activity'[u] = activity[u]
                           \/ activity'[u] = None /\ activity[u] # None /\ now - activity[u].at > Expire
        BY <1>0, <1>15 DEF Cleanup, TypeOK
    <2>3. ASSUME NEW u \in Users, activity'[u] = activity[u]
          PROVE  /\ activity'[u] # None => Covered(u, activity[u].state, audit)'
                 /\ activity'[u] = None => Covered(u, NewActivity, audit)'
        BY <1>0, <2>1, <2>3 DEF PauseOK, Covered, NewActivity
    <2>4. ASSUME NEW u \in Users, activity'[u] = None, activity[u] # None, now - activity[u].at > Expire
          PROVE  Covered(u, NewActivity, audit)'
        <3>1. activity[u].state.blocked <= now /\ Covered(u, activity[u].state, audit)
            BY <1>0, <2>4, ExpiredIsNew DEF PauseOK
        <3>2. activity[u].state.blocked \in Int
            BY <1>0, <2>4 DEF TypeOK, Checkpoint, Activity
        <3>3. \A f \in audit \ lifted : f.user = u => f.until <= now
            BY <1>0, <1>f, <3>1, <3>2 DEF Covered
        <3> QED BY <2>1, <3>3 DEF Covered
    <2>5. \A u \in Users : /\ states'[u] # None => Covered(u, states[u], audit \cup Sent \cup flags)'
                           /\ loading'[u] # None => Covered(u, loading[u], audit)'
                           /\ batch' # None /\ batch'.states[u] # None =>
                                 Covered(u, batch.states[u], audit \cup Sent)'
        BY <1>0, <2>1 DEF PauseOK, Covered
    <2>6. \A u \in Users : /\ activity'[u] # None => Covered(u, activity[u].state, audit)'
                           /\ activity'[u] = None => Covered(u, NewActivity, audit)'
        BY <2>2, <2>3, <2>4
    <2> QED BY <1>0, <2>1, <2>5, <2>6 DEF PauseOK, Later
<1>16. CASE Crash
    <2>1. /\ UNCHANGED <<now, activity, monthly, audit, lifted>>
          /\ awards' = {} /\ batch' = None /\ flags' = {}
          /\ states' = [u \in Users |-> None] /\ loading' = [u \in Users |-> None]
        BY <1>16 DEF Crash, tables, history
    <2>2. Sent' = {} /\ SentAwards' = {}
        BY <2>1 DEF Sent, SentAwards
    <2> QED BY <1>0, <2>1, <2>2 DEF PauseOK, Covered, Later
<1>17. CASE Tick
    <2>1. /\ now' = now + 1
          /\ UNCHANGED <<states, loading, batch, activity, awards, flags, audit, lifted, monthly, Sent, SentAwards>>
        BY <1>17 DEF Tick, memory, tables, history, Sent, SentAwards
    <2>2. \A f \in audit \cup Sent \cup flags : f.until <= now => f.until <= now + 1
        BY <1>0, <1>f
    <2>3. ASSUME NEW u \in Users
          PROVE  /\ states'[u] # None => Covered(u, states[u], audit \cup Sent \cup flags)'
                 /\ loading'[u] # None => Covered(u, loading[u], audit)'
                 /\ activity'[u] # None => Covered(u, activity[u].state, audit)'
                 /\ activity'[u] = None => Covered(u, NewActivity, audit)'
                 /\ batch' # None /\ batch'.states[u] # None =>
                       Covered(u, batch.states[u], audit \cup Sent)'
        BY <1>0, <2>1, <2>2 DEF PauseOK, Covered, NewActivity
    <2> QED BY <1>0, <2>1, <2>3 DEF PauseOK, Later
<1>18. CASE DeleteOldMinutes
    <2>1. /\ UNCHANGED <<now, states, loading, activity, audit, lifted, awards, flags, batch,
                         Sent, SentAwards>>
          /\ monthly' \in [Users -> [Minutes -> Nat]]
          /\ \A u \in Users, n \in Minutes : monthly'[u][n] <= monthly[u][n]
        BY <1>0, <1>18, Deleted DEF DeleteOldMinutes, memory, Sent, SentAwards
    <2>2. \A u \in Users, n \in Minutes : monthly'[u][n] > 0 => monthly[u][n] > 0
        BY <1>0, <2>1 DEF TypeOK
    <2>3. \A f \in (audit' \cup Sent' \cup flags') \ lifted' :
              /\ \A n \in Minutes : Later(f, n) => monthly'[f.user][n] = 0
              /\ \A a \in awards' \cup SentAwards' : a.user = f.user => ~Later(f, a.slot)
        BY <1>7, <2>1, <2>2
    <2> QED BY <1>0, <2>1, <2>3 DEF PauseOK, Covered, Later
<1> QED BY <1>1, <1>2, <1>3, <1>5, <1>6, <1>9, <1>10, <1>12, <1>13, <1>14, <1>15, <1>16, <1>17, <1>18
        DEF Next

\* The minute of a flag: what it earned before the flag goes with it.
LEMMA OwnNext == ASSUME IInv, Next PROVE OwnOK'
<1>0. OwnOK /\ TypeOK /\ ShapeOK /\ now \in Ticks
    BY DEF IInv, TypeOK
<1>f. \A f \in audit \cup Sent \cup flags :
          /\ f.user \in Users /\ f.at \in Ticks /\ f.until \in Nat /\ Slot(f.at) \in Minutes
    BY <1>0, Slots DEF TypeOK, Sent, Batch, Flag
\* Nothing but releases, and minutes that lose XP.
<1>1. ASSUME UNCHANGED <<audit, awards, batch, receipts>>, lifted \subseteq lifted',
             monthly' \in [Users -> [Minutes -> Nat]],
             \A u \in Users, m \in Minutes : monthly'[u][m] <= monthly[u][m]
      PROVE  OwnOK'
    <2>1. UNCHANGED <<Sent, SentAwards, Committed>>
        BY <1>1 DEF Sent, SentAwards, Committed
    <2> SUFFICES ASSUME NEW f \in (audit \cup Sent) \ lifted', Own(f)
                 PROVE  /\ ~InOwn(awards, f)
                        /\ f \in audit => /\ monthly'[f.user][Slot(f.at)] = 0
                                          /\ Committed \/ ~InOwn(SentAwards, f)
        BY <1>1, <2>1 DEF OwnOK, Own, InOwn
    <2>2. /\ ~InOwn(awards, f)
          /\ f \in audit => /\ monthly[f.user][Slot(f.at)] = 0
                            /\ Committed \/ ~InOwn(SentAwards, f)
        BY <1>0, <1>1 DEF OwnOK
    <2>3. /\ monthly'[f.user][Slot(f.at)] \in Nat
          /\ monthly'[f.user][Slot(f.at)] <= monthly[f.user][Slot(f.at)]
        BY <1>f, <1>1
    <2> QED BY <2>2, <2>3
<1>2. UNCHANGED monthly => \A u \in Users, m \in Minutes :
          monthly' \in [Users -> [Minutes -> Nat]] /\ monthly'[u][m] <= monthly[u][m]
    BY <1>0 DEF TypeOK
<1>3. CASE \/ \E u \in Users : \/ BeginLoad(u) \/ EndLoad(u) \/ Release(u)
                               \/ \E m \in Ticks : RaiseFlag(u, m)
           \/ FlushNothing \/ WriteFails \/ Tick
    <2>1. UNCHANGED <<audit, awards, batch, receipts, monthly>> /\ lifted \subseteq lifted'
        BY <1>3 DEF BeginLoad, EndLoad, Release, RaiseFlag, FlushNothing, WriteFails, Tick,
                    tables, memory, history
    <2>2. monthly' \in [Users -> [Minutes -> Nat]]
        BY <1>0, <2>1 DEF TypeOK
    <2> QED BY <1>1, <1>2, <2>1, <2>2
<1>4. CASE DeleteOldMinutes
    <2>1. UNCHANGED <<audit, awards, batch, receipts, lifted>>
        BY <1>4 DEF DeleteOldMinutes, memory
    <2> QED BY <1>0, <1>1, <1>4, <2>1, Deleted
<1>5. ASSUME NEW u \in Users, NEW m \in Ticks, Earn(u, m) PROVE OwnOK'
    <2>1. /\ UNCHANGED <<monthly, audit, lifted, batch, receipts, Sent, SentAwards, Committed>>
          /\ awards' = awards \cup {[user |-> u, message |-> m, slot |-> Slot(now)]}
        BY <1>5 DEF Earn, tables, history, Sent, SentAwards, Committed
    <2>2. states[u] \in Activity /\ states[u].blocked <= now /\ states[u] # None
        BY <1>0, <1>5, CountsFacts, Constants DEF Earn
    <2>3. ASSUME NEW f \in (audit \cup Sent) \ lifted, Own(f), f.user = u PROVE Slot(now) # Slot(f.at)
        <3>1. f.until <= states[u].blocked \/ f.until <= now
            BY <2>2, <2>3 DEF IInv, PauseOK, Covered
        <3>2. f.until <= now
            BY <1>0, <1>f, <2>2, <3>1 DEF Activity, Ticks
        <3>3. now < Slot(now) + PerMinute /\ Slot(now) \in Nat /\ now \in Nat
            BY <1>0, Slots DEF Ticks
        <3> QED BY <1>f, <2>3, <3>2, <3>3, Constants DEF Own
    <2>4. ASSUME NEW f \in (audit \cup Sent) \ lifted, Own(f) PROVE ~InOwn(awards', f)
        <3>1. ~InOwn(awards, f)
            BY <1>0, <2>4 DEF OwnOK
        <3>2. \A a \in awards' : a \in awards \/ (a.user = u /\ a.slot = Slot(now))
            BY <2>1
        <3> QED BY <2>3, <2>4, <3>1, <3>2 DEF InOwn
    <2> QED BY <1>0, <2>1, <2>4 DEF OwnOK, Own, InOwn
\* A transaction clears the minutes of the flags it records.
<1>6. ASSUME flushing > 0, Transaction(batch), UNCHANGED lifted
      PROVE  /\ audit' \subseteq audit \cup Sent
             /\ \A f \in audit' \ lifted' : Own(f) => monthly'[f.user][Slot(f.at)] = 0
    <2>1. batch # None /\ Sent = batch.flags /\ SentAwards = batch.awards
        BY <1>6, Booked DEF Sent, SentAwards
    <2>2. CASE Committed /\ UNCHANGED <<tables, credited>>
        BY <1>0, <1>6, <2>2 DEF OwnOK, tables
    <2>3. CASE ~Committed /\ audit' = audit \cup batch.flags
        <3> SUFFICES ASSUME NEW f \in audit' \ lifted', Own(f)
                     PROVE  monthly'[f.user][Slot(f.at)] = 0
            BY <2>1, <2>3
        <3>1. f.user \in Users /\ f.at \in Ticks /\ Slot(f.at) \in Minutes
            BY <1>f, <2>1, <2>3
        <3>2. CASE f \in batch.flags
            <4>1. Slot(f.at) \in Cleared(f)
                <5>1. Slot(f.at) <= f.at /\ f.at < Slot(f.at) + PerMinute /\ Slot(f.at) \in Nat
                    BY <3>1, Slots
                <5>2. f.at \in Nat /\ f.at - Window <= Slot(f.at)
                    BY <3>1, <5>1, Constants DEF Ticks
                <5> QED BY <3>1, <5>1, <5>2 DEF Cleared
            <4> QED BY <1>6, <2>3, <3>1, <3>2, <4>1, Booked
        <3>3. CASE f \in audit
            <4>1. monthly[f.user][Slot(f.at)] = 0 /\ ~InOwn(SentAwards, f)
                BY <1>0, <1>6, <2>3, <3>3 DEF OwnOK
            <4>2. ~(monthly'[f.user][Slot(f.at)] > 0)
                BY <1>6, <2>1, <3>1, <4>1, Booked DEF InOwn
            <4>3. monthly'[f.user][Slot(f.at)] \in Nat
                BY <1>6, <2>1, <3>1, TransactionType DEF IInv
            <4> QED BY <4>2, <4>3
        <3> QED BY <2>3, <3>2, <3>3
    <2> QED BY <1>6, <2>2, <2>3, Booked
\* The next batch takes over awards that are none of the recorded flags'.
<1>7. ASSUME CanSnapshot, Snapshot, UNCHANGED lifted, audit' \subseteq audit \cup Sent,
             \A f \in audit' \ lifted' : Own(f) => monthly'[f.user][Slot(f.at)] = 0
      PROVE  OwnOK'
    <2>1. awards' = {} /\ SentAwards' = awards
        BY <1>0, <1>7, SnapshotType DEF SentAwards
    <2>2. \A f \in audit' \ lifted' : Own(f) => ~InOwn(SentAwards', f)
        BY <1>0, <1>7, <2>1 DEF OwnOK
    <2> QED BY <1>7, <2>1, <2>2 DEF OwnOK, Own, InOwn
<1>8. CASE BeginFlush
    <2>1. UNCHANGED <<monthly, audit, receipts, lifted>>
        BY <1>8 DEF BeginFlush, tables, history
    <2>2. CASE UNCHANGED <<dirty, awards, flags, batch, nextId>>
        <3>1. monthly' \in [Users -> [Minutes -> Nat]]
            BY <1>0, <2>1 DEF TypeOK
        <3> QED BY <1>1, <1>2, <2>1, <2>2, <3>1
    <2>3. CASE CanSnapshot /\ Snapshot
        BY <1>0, <1>7, <2>1, <2>3 DEF OwnOK
    <2> QED BY <1>8, <2>2, <2>3 DEF BeginFlush
<1>9. CASE Acknowledged
    <2>1. flushing > 0 /\ Transaction(batch) /\ UNCHANGED lifted
        BY <1>9 DEF Acknowledged
    <2>2. CASE CanSnapshot /\ Snapshot
        BY <1>6, <1>7, <2>1, <2>2
    <2>3. CASE batch' = None /\ UNCHANGED awards
        <3>1. Sent' = {} /\ SentAwards' = {} /\ audit' \subseteq audit \cup Sent
            BY <1>6, <2>1, <2>3 DEF Sent, SentAwards
        <3>2. \A f \in audit' \ lifted' : Own(f) => ~InOwn(awards', f)
            BY <1>0, <2>1, <2>3, <3>1 DEF OwnOK
        <3> QED BY <1>6, <2>1, <3>1, <3>2 DEF OwnOK, Own, InOwn
    <2> QED BY <1>9, <2>2, <2>3 DEF Acknowledged
<1>10. CASE ResponseLost
    <2>1. /\ flushing > 0 /\ Transaction(batch) /\ UNCHANGED <<lifted, awards, batch, Sent, SentAwards>>
        BY <1>10 DEF ResponseLost, Sent, SentAwards
    <2>2. Committed' /\ audit' \subseteq audit \cup Sent
        BY <1>6, <2>1, Booked DEF Committed
    <2>3. \A f \in (audit' \cup Sent') \ lifted' : Own(f) => ~InOwn(awards', f)
        BY <1>0, <2>1, <2>2 DEF OwnOK
    <2> QED BY <1>6, <2>1, <2>2, <2>3 DEF OwnOK, Own, InOwn
<1>11. CASE Cleanup
    <2>1. /\ UNCHANGED <<monthly, lifted, awards, Sent, SentAwards>> /\ audit' \subseteq audit
          /\ Committed' <=> Committed
        BY <1>11, StillCommitted DEF Cleanup, memory, history, Sent, SentAwards
    <2> QED BY <1>0, <2>1 DEF OwnOK, Own, InOwn
<1>12. CASE Crash
    <2>1. /\ UNCHANGED <<monthly, audit, lifted>>
          /\ awards' = {} /\ Sent' = {} /\ SentAwards' = {}
        BY <1>12 DEF Crash, tables, history, Sent, SentAwards
    <2> QED BY <1>0, <2>1 DEF OwnOK, Own, InOwn
<1> QED BY <1>3, <1>4, <1>5, <1>8, <1>9, <1>10, <1>11, <1>12 DEF Next

\* What nobody changed is what was stored last.
LEMMA CleanNext == ASSUME IInv, Next PROVE CleanOK'
<1>0. CleanOK /\ TypeOK /\ ShapeOK
    BY DEF IInv
<1>1. ASSUME NEW u \in Users, BeginLoad(u) PROVE CleanOK'
    <2>1. StoredAs(u, loading'[u]) /\ \A v \in Users : v # u => loading'[v] = loading[v]
        BY <1>0, <1>1 DEF BeginLoad, StoredAs, TypeOK
    <2>2. UNCHANGED <<states, dirty, batch, activity, receipts>>
        BY <1>1 DEF BeginLoad, tables
    <2>3. \A v \in Users : loading'[v] # None => StoredAs(v, loading'[v])
        BY <1>0, <2>1 DEF CleanOK
    <2> QED BY <1>0, <2>2, <2>3 DEF CleanOK, CleanIsStored, StoredAs, Committed
<1>2. ASSUME NEW u \in Users, EndLoad(u) PROVE CleanOK'
    <2>1. /\ states'[u] = loading[u] /\ loading'[u] = None /\ loading[u] # None
          /\ \A v \in Users : v # u => states'[v] = states[v] /\ loading'[v] = loading[v]
        BY <1>0, <1>2 DEF EndLoad, TypeOK
    <2>2. UNCHANGED <<dirty, batch, activity, receipts>>
        BY <1>2 DEF EndLoad, tables
    <2>3. batch # None => batch.states[u] = None
        BY <1>0, <2>1 DEF ShapeOK
    <2>4. CleanIsStored'
        BY <1>0, <2>1, <2>2 DEF CleanOK, CleanIsStored, StoredAs
    <2>5. \A v \in Users : loading'[v] # None => StoredAs(v, loading'[v])
        BY <1>0, <2>1 DEF CleanOK
    <2>6. \A v \in Users : batch # None /\ batch.states[v] # None => states'[v] = states[v]
        BY <2>1, <2>3
    <2> QED BY <1>0, <2>2, <2>4, <2>5, <2>6 DEF CleanOK, StoredAs, Committed
\* A changed checkpoint is dirty.
<1>3. ASSUME NEW u \in Users, UNCHANGED <<batch, activity, receipts, loading>>,
             dirty' = dirty \cup {u}, \A v \in Users : v # u => states'[v] = states[v]
      PROVE  CleanOK'
    BY <1>0, <1>3 DEF CleanOK, CleanIsStored, StoredAs, Committed
<1>4. ASSUME NEW u \in Users, Release(u) PROVE CleanOK'
    BY <1>0, <1>3, <1>4, Released DEF Release, tables
<1>5. ASSUME NEW u \in Users, NEW m \in Ticks, Earn(u, m) PROVE CleanOK'
    BY <1>0, <1>3, <1>5, Earns DEF Earn, tables
<1>6. ASSUME NEW u \in Users, NEW m \in Ticks, RaiseFlag(u, m) PROVE CleanOK'
    BY <1>0, <1>3, <1>6, Raises DEF RaiseFlag, tables
<1>7. ASSUME CanSnapshot, Snapshot, UNCHANGED <<states, loading>>,
             \A r \in receipts' : r.id < nextId,
             \A u \in Users : /\ states[u] # None /\ u \notin dirty => StoredAs(u, states[u])'
                              /\ loading[u] # None => StoredAs(u, loading[u])'
      PROVE  CleanOK'
    <2>1. batch'.states = DirtyStates /\ batch'.id = nextId /\ dirty' = {} /\ batch' # None
        BY <1>0, <1>7, SnapshotType
    <2>2. ~Committed'
        BY <1>0, <1>7, <2>1 DEF Committed, TypeOK
    <2>3. \A u \in Users : batch'.states[u] = IF u \in dirty THEN states[u] ELSE None
        BY <2>1 DEF DirtyStates
    <2>4. CleanIsStored'
        BY <1>7, <2>1, <2>3 DEF CleanIsStored, StoredAs
    <2> QED BY <1>7, <2>2, <2>3, <2>4 DEF CleanOK
<1>8. CASE BeginFlush
    <2>0. UNCHANGED <<states, loading, activity, receipts>>
        BY <1>8 DEF BeginFlush, tables
    <2>1. CASE batch # None /\ UNCHANGED <<dirty, awards, flags, batch, nextId>>
        BY <1>0, <2>0, <2>1 DEF CleanOK, CleanIsStored, StoredAs, Committed
    <2>2. CASE batch = None /\ CanSnapshot /\ Snapshot
        <3>1. \A u \in Users : /\ states[u] # None /\ u \notin dirty => StoredAs(u, states[u])'
                               /\ loading[u] # None => StoredAs(u, loading[u])'
            BY <1>0, <2>0, <2>2 DEF CleanOK, CleanIsStored, StoredAs
        <3>2. \A r \in receipts' : r.id < nextId
            BY <1>0, <2>0 DEF ShapeOK
        <3> QED BY <1>7, <2>0, <2>2, <3>1, <3>2
    <2> QED BY <1>8, <2>1, <2>2 DEF BeginFlush
<1>9. CASE FlushNothing
    <2>1. /\ UNCHANGED <<dirty, batch, loading, activity, receipts>> /\ batch = None
          /\ \A u \in Users : states'[u] # None => states'[u] = states[u]
        BY <1>9 DEF FlushNothing, Evict, tables
    <2> QED BY <1>0, <2>1 DEF CleanOK, CleanIsStored, StoredAs
<1>10. ASSUME flushing > 0, Transaction(batch)
       PROVE  /\ batch # None
              /\ \A u \in Users :
                    /\ states[u] # None /\ u \notin dirty =>
                          activity'[u] = None \/ activity'[u].state = states[u]
                    /\ loading[u] # None => activity'[u] = None \/ activity'[u].state = loading[u]
                    /\ batch.states[u] # None =>
                          activity'[u] = None \/ activity'[u].state = batch.states[u]
              /\ \A r \in receipts' : r.id < nextId
    <2>1. batch \in Batch /\ batch # None
        BY <1>10, Booked
    <2>2. \A r \in receipts' : r.id < nextId
        BY <1>0, <1>10, <2>1, Booked DEF ShapeOK
    <2> SUFFICES ASSUME NEW u \in Users
                 PROVE  /\ states[u] # None /\ u \notin dirty =>
                              activity'[u] = None \/ activity'[u].state = states[u]
                        /\ loading[u] # None => activity'[u] = None \/ activity'[u].state = loading[u]
                        /\ batch.states[u] # None =>
                              activity'[u] = None \/ activity'[u].state = batch.states[u]
        BY <2>1, <2>2
    <2>3. CASE batch.states[u] = None
        <3>1. activity'[u] = activity[u]
            BY <1>10, <2>3, OthersUntouched
        <3> QED BY <1>0, <2>3, <3>1 DEF CleanOK, CleanIsStored, StoredAs
    <2>4. CASE batch.states[u] # None
        <3>1. activity'[u] = None \/ activity'[u].state = batch.states[u]
            <4>1. CASE Committed /\ UNCHANGED <<tables, credited>>
                <5>1. activity' = activity
                    BY <4>1 DEF tables
                <5> QED BY <1>0, <2>1, <2>4, <4>1, <5>1 DEF CleanOK, StoredAs
            <4>2. CASE activity'[u] = [state |-> batch.states[u], at |-> batch.time]
                BY <4>2
            <4> QED BY <1>10, <2>4, <4>1, <4>2, Booked
        <3>2. loading[u] = None
            BY <1>0, <2>1, <2>4 DEF ShapeOK
        <3>3. u \notin dirty => states[u] = batch.states[u]
            BY <1>0, <2>1, <2>4 DEF CleanOK
        <3> QED BY <3>1, <3>2, <3>3
    <2> QED BY <2>3, <2>4
<1>11. CASE Acknowledged
    <2>0. flushing > 0 /\ Transaction(batch) /\ UNCHANGED loading
        BY <1>11 DEF Acknowledged
    <2>1. CASE CanSnapshot /\ Snapshot /\ flushing' = 2 /\ UNCHANGED states
        <3>1. \A u \in Users : /\ states[u] # None /\ u \notin dirty => StoredAs(u, states[u])'
                               /\ loading[u] # None => StoredAs(u, loading[u])'
            BY <1>10, <2>0, <2>1 DEF StoredAs
        <3> QED BY <1>7, <1>10, <2>0, <2>1, <3>1
    <2>2. CASE batch' = None /\ flushing' = 0 /\ Evict /\ UNCHANGED <<dirty, awards, flags, nextId>>
        <3>1. \A u \in Users : states'[u] # None => states'[u] = states[u]
            BY <2>2 DEF Evict
        <3> QED BY <1>10, <2>0, <2>2, <3>1 DEF CleanOK, CleanIsStored, StoredAs
    <2> QED BY <1>11, <2>1, <2>2 DEF Acknowledged
<1>12. CASE ResponseLost
    <2>0. flushing > 0 /\ Transaction(batch) /\ UNCHANGED <<states, dirty, batch, loading>>
        BY <1>12 DEF ResponseLost
    <2>1. \A u \in Users : batch.states[u] # None /\ u \notin dirty => states[u] = batch.states[u]
        BY <1>0, <1>10, <2>0 DEF CleanOK
    <2> QED BY <1>10, <2>0, <2>1 DEF CleanOK, CleanIsStored, StoredAs
<1>13. CASE WriteFails
    <2>1. UNCHANGED <<states, dirty, batch, loading, activity, receipts>>
        BY <1>13 DEF WriteFails, tables
    <2> QED BY <1>0, <2>1 DEF CleanOK, CleanIsStored, StoredAs, Committed
<1>14. CASE Cleanup
    <2>1. UNCHANGED <<states, dirty, batch, loading>> /\ (Committed' <=> Committed)
        BY <1>14, StillCommitted DEF Cleanup, memory
    <2>2. \A u \in Users : activity'[u] = activity[u] \/ activity'[u] = None
        BY <1>0, <1>14 DEF Cleanup, TypeOK
    <2> QED BY <1>0, <2>1, <2>2 DEF CleanOK, CleanIsStored, StoredAs
<1>15. CASE Crash
    BY <1>15 DEF Crash, CleanOK, CleanIsStored
<1>16. CASE Tick
    <2>1. UNCHANGED <<states, dirty, batch, loading, activity, receipts>>
        BY <1>16 DEF Tick, memory, tables
    <2> QED BY <1>0, <2>1 DEF CleanOK, CleanIsStored, StoredAs, Committed
<1>17. CASE DeleteOldMinutes
    <2>1. UNCHANGED <<states, dirty, batch, loading, activity, receipts>>
        BY <1>17 DEF DeleteOldMinutes, memory
    <2> QED BY <1>0, <2>1 DEF CleanOK, CleanIsStored, StoredAs, Committed
<1> QED BY <1>1, <1>2, <1>4, <1>5, <1>6, <1>8, <1>9, <1>11, <1>12, <1>13, <1>14, <1>15, <1>16, <1>17
        DEF Next

\* Both sums move together.
LEMMA TotalsNext == ASSUME IInv, Next PROVE TotalsAgree'
<1>1. CASE UNCHANGED <<total, monthly, expired>>
    BY <1>1 DEF IInv, TotalsAgree
<1>2. CASE flushing > 0 /\ Transaction(batch) /\ UNCHANGED expired
    <2>1. CASE UNCHANGED <<tables, credited>>
        BY <1>1, <1>2, <2>1 DEF tables
    <2>2. CASE ~Committed
        <3>1. batch # None
            BY <1>2 DEF IInv, ShapeOK
        <3>2. /\ monthly' = [u \in Users |-> Kept(batch, u)]
              /\ total' = [u \in Users |-> NewTotal(batch, u)]
            BY <1>2, <2>2, <3>1 DEF Transaction, Committed
        <3>3. \A u \in Users : NewTotal(batch, u) = SumOf(Kept(batch, u)) + SumOf(expired[u])
            BY <3>1, Settlement DEF IInv
        <3> QED BY <1>2, <3>2, <3>3 DEF TotalsAgree
    <2> QED BY <1>2, <2>1, <2>2 DEF Transaction, Committed, IInv, ShapeOK
<1>3. CASE DeleteOldMinutes
    <2> SUFFICES ASSUME NEW u \in Users
                 PROVE  total'[u] = SumOf(monthly'[u]) + SumOf(expired'[u])
        BY DEF TotalsAgree
    <2>1. /\ monthly[u] \in [Minutes -> Nat] /\ expired[u] \in [Minutes -> Nat]
          /\ monthly'[u] \in [Minutes -> Nat] /\ expired'[u] \in [Minutes -> Nat]
          /\ \A m \in Minutes : monthly'[u][m] + expired'[u][m] = monthly[u][m] + expired[u][m]
        BY <1>3, Deleted DEF IInv, TypeOK
    <2>2. PICK h \in [Minutes -> Nat] : \A m \in Minutes : h[m] = monthly[u][m] + expired[u][m]
        <3>1. [m \in Minutes |-> monthly[u][m] + expired[u][m]] \in [Minutes -> Nat]
            BY <2>1
        <3> QED BY <3>1
    <2>3. SumOf(monthly[u]) + SumOf(expired[u]) = SumOver(h)[Minutes]
        BY <2>1, <2>2, MinutesAreFinite, SumIsAdditive, SumIsFold
    <2>4. SumOf(monthly'[u]) + SumOf(expired'[u]) = SumOver(h)[Minutes]
        <3> DEFINE f == monthly'[u]
                   g == expired'[u]
        <3>1. /\ f \in [Minutes -> Nat] /\ g \in [Minutes -> Nat]
              /\ \A m \in Minutes : h[m] = f[m] + g[m]
            BY <2>1, <2>2
        <3> HIDE DEF f, g
        <3>2. SumOf(f) + SumOf(g) = SumOver(h)[Minutes]
            BY <3>1, MinutesAreFinite, SumIsAdditive, SumIsFold
        <3> QED BY <3>2 DEF f, g
    <2> QED BY <1>3, <2>3, <2>4 DEF DeleteOldMinutes, IInv, TotalsAgree
<1>4. \/ UNCHANGED <<total, monthly, expired>> \/ DeleteOldMinutes
      \/ flushing > 0 /\ Transaction(batch) /\ UNCHANGED expired
    BY DEF Next, BeginLoad, EndLoad, Release, Earn, RaiseFlag, BeginFlush, FlushNothing,
           Acknowledged, ResponseLost, WriteFails, Cleanup, Crash, Tick, tables, history
<1> QED BY <1>1, <1>2, <1>3, <1>4

------------------------------------------------------------------------------
(* The invariant, and what it means. *)

LEMMA Initially == ASSUME Init PROVE IInv
<1>1. TypeOK
    <2>1. 1 \in Ticks /\ 1 \in 1..(MaxBatches + 1)
        BY Constants DEF Ticks
    <2> QED BY <2>1 DEF Init, TypeOK
<1>2. ShapeOK /\ TimesOK /\ PauseOK /\ OwnOK /\ CleanOK
    BY DEF Init, ShapeOK, TimesOK, PauseOK, OwnOK, CleanOK, CleanIsStored, Covered, Sent, StoredAs
<1>3. CreditOK
    BY DEF Init, CreditOK, Seen, Distinct, Uncredited
<1>4. PayOK
    BY DEF Init, PayOK, SentAwards
<1>5. TotalsAgree
    <2> SUFFICES ASSUME NEW u \in Users PROVE total[u] = SumOf(monthly[u]) + SumOf(expired[u])
        BY DEF TotalsAgree
    <2>1. /\ DOMAIN monthly[u] = Minutes /\ \A m \in Minutes : monthly[u][m] = 0
          /\ DOMAIN expired[u] = Minutes /\ \A m \in Minutes : expired[u][m] = 0
        BY DEF Init
    <2>2. SumOver(monthly[u])[Minutes] = 0 /\ SumOver(expired[u])[Minutes] = 0
        BY <2>1, MinutesAreFinite, SumOfZeros
    <2>3. total[u] = 0
        BY DEF Init
    <2> QED BY <2>1, <2>2, <2>3, SumIsFold
<1> QED BY <1>1, <1>2, <1>3, <1>4, <1>5 DEF IInv

LEMMA Inductive == IInv /\ [Next]_vars => IInv'
<1> SUFFICES ASSUME IInv, [Next]_vars PROVE IInv'
    OBVIOUS
<1>1. CASE Next
    BY <1>1, TypeNext, ShapeNext, TimesNext, CreditNext, PayNext, PauseNext, OwnNext,
       CleanNext, TotalsNext DEF IInv
<1>2. CASE UNCHANGED vars
    <2>1. UNCHANGED <<now, states, dirty, awards, flags, batch, loading, flushing,
                      total, monthly, activity, receipts, audit, nextId, credited, lifted, expired>>
        BY <1>2 DEF vars, memory, tables, history
    <2>2. TypeOK' /\ ShapeOK'
        BY <2>1 DEF IInv, TypeOK, ShapeOK
    <2>3. TimesOK' /\ CreditOK'
        BY <2>1 DEF IInv, TimesOK, MadeBy, Behind, CreditOK, Seen, Distinct, Uncredited, Committed
    <2>4. PayOK' /\ PauseOK' /\ OwnOK'
        BY <2>1 DEF IInv, PayOK, PauseOK, Covered, Sent, SentAwards, Later, OwnOK, Own, InOwn, Committed
    <2>5. CleanOK' /\ TotalsAgree'
        BY <2>1 DEF IInv, CleanOK, CleanIsStored, StoredAs, Committed, TotalsAgree
    <2> QED BY <2>2, <2>3, <2>4, <2>5 DEF IInv
<1> QED BY <1>1, <1>2

LEMMA Invariant == Spec => []IInv
BY Initially, Inductive, PTL DEF Spec

\* Every field of the guard and every table keeps the values the code gives it: no
\* total and no minute of global_monthly is ever negative, whatever a flag takes back.
THEOREM TypeCorrect == Spec => []TypeOK
<1>1. IInv => TypeOK
    BY DEF IInv
<1> QED BY <1>1, Invariant, PTL

\* However awards, penalties, retries and crashes follow one another, the all-time
\* total of global_msg is the sum of the user's minutes in global_monthly and of those
\* that were deleted there for their age.
THEOREM TotalsAlwaysAgree == Spec => []TotalsAgree
<1>1. IInv => TotalsAgree
    BY DEF IInv
<1> QED BY <1>1, Invariant, PTL

\* A recorded pause that nobody lifted is kept: no XP is booked for its minutes by
\* whatever observe() runs on, a checkpoint evicted, reloaded, expired or restored, and
\* what the minute of the flag had earned before it is gone.
THEOREM PausesAreKept == Spec => []NoXPWhilePaused
<1>1. ASSUME IInv PROVE NoXPWhilePaused
    <2> SUFFICES ASSUME NEW f \in audit \ lifted, NEW m \in Minutes, Paused(f, m)
                 PROVE  monthly[f.user][m] = 0
        BY DEF NoXPWhilePaused
    <2>1. f.at \in Ticks /\ f.at \in Nat /\ m \in Nat
        BY <1>1, MinutesAreNat DEF IInv, TypeOK, Flag, Ticks
    <2>2. CASE f.at < m
        BY <1>1, <2>2 DEF IInv, PauseOK, Paused, Later
    <2>3. CASE m <= f.at
        <3>1. m = Slot(f.at)
            BY <2>1, <2>3, SlotsApart DEF Paused
        <3> QED BY <1>1, <3>1 DEF IInv, OwnOK, Own, Paused
    <2> QED BY <2>1, <2>2, <2>3
<1> QED BY <1>1, Invariant, PTL

\* evict() forgets nothing: a checkpoint that is neither dirty nor in the pending
\* batch is the one that activity holds.
THEOREM EvictionIsSafe == Spec => []CleanIsStored
<1>1. IInv => CleanIsStored
    BY DEF IInv, CleanOK
<1> QED BY <1>1, Invariant, PTL

\* The awards of a batch are messages never counted before, one each.
LEMMA AwardsAreNew ==
    ASSUME IInv, flushing > 0, Transaction(batch), ~Committed, NEW u \in Users
    PROVE  /\ Counted[u] \subseteq Counted'[u]
           /\ Cardinality(Earned(batch, u)) <= Cardinality(Counted'[u] \ Counted[u])
<1>1. batch # None /\ batch \in Batch /\ credited' \in [Users -> [Ticks -> Nat]]
    BY Booked
<1>2. \A m \in Ticks :
          credited'[u][m] = credited[u][m] + Cardinality({a \in Earned(batch, u) : a.message = m})
    <2>1. credited' = [v \in Users |-> [m \in Ticks |->
              credited[v][m] + Cardinality({a \in Earned(batch, v) : a.message = m})]]
        BY <1>1 DEF Transaction, Committed
    <2> QED BY <2>1
<1>3. \A m \in Ticks : credited[u][m] \in Nat
    BY DEF IInv, TypeOK
<1>4. \A m \in Ticks :
          /\ credited[u][m] > 0 => credited'[u][m] > 0
          /\ (\E a \in Earned(batch, u) : a.message = m) => credited'[u][m] > 0
    <2> TAKE m \in Ticks
    <2> DEFINE n == Cardinality({a \in Earned(batch, u) : a.message = m})
    <2>1. n \in Nat /\ (n > 0 <=> \E a \in Earned(batch, u) : a.message = m)
        BY <1>1, CreditsAreNew DEF IInv
    <2>2. credited'[u][m] = credited[u][m] + n
        BY <1>2
    <2> HIDE DEF n
    <2> QED BY <1>3, <2>1, <2>2
<1>5. Counted[u] \subseteq Counted'[u]
    BY <1>4 DEF Counted
<1> DEFINE new == Counted'[u] \ Counted[u]
           f == [a \in Earned(batch, u) |-> a.message]
<1>6. f \in Injection(Earned(batch, u), new)
    <2>1. \A a \in Earned(batch, u) : a.user = u /\ a.message \in Ticks /\ a \in batch.awards
        BY <1>1 DEF Earned, Batch, Award
    <2>2. \A a \in Earned(batch, u) : credited[u][a.message] = 0
        BY <1>1, <2>1 DEF IInv, CreditOK, Uncredited
    <2>3. \A a \in Earned(batch, u) : a.message \in new
        BY <1>4, <2>1, <2>2 DEF Counted
    <2>4. \A a, b \in Earned(batch, u) : a.message = b.message => a = b
        BY <1>1, <2>1 DEF IInv, CreditOK, Distinct
    <2> HIDE DEF new
    <2> QED BY <2>3, <2>4 DEF Injection, IsInjective
<1>7. IsFiniteSet(new)
    <2>1. new \subseteq Ticks
        BY DEF Counted
    <2> QED BY <2>1, TicksAreFinite, FS_Subset
<1>8. Cardinality(Earned(batch, u)) <= Cardinality(new)
    <2> HIDE DEF new, f
    <2> QED BY <1>6, <1>7, FS_Injection
<1> QED BY <1>5, <1>8

\* The instance has its own name for the size of a set.
LEMMA SameCardinality == \A S : TheLedger!Cardinality(S) = Cardinality(S)
BY DEF TheLedger!Cardinality, Cardinality, TheLedger!IsFiniteSet, IsFiniteSet

LEMMA StepSettles == IInv /\ [Next]_vars => [TheLedger!Settle]_(TheLedger!vars)
<1> SUFFICES ASSUME IInv, [Next]_vars PROVE [TheLedger!Settle]_(TheLedger!vars)
    OBVIOUS
<1>1. CASE UNCHANGED <<total, credited>>
    BY <1>1 DEF TheLedger!vars, Counted
<1>2. CASE flushing > 0 /\ Transaction(batch)
    <2>1. CASE UNCHANGED <<tables, credited>>
        BY <1>1, <2>1 DEF tables
    <2>2. CASE ~Committed
        <3>1. batch # None
            BY <1>2 DEF IInv, ShapeOK
        <3>2. total' = [u \in Users |-> NewTotal(batch, u)]
            BY <1>2, <2>2, <3>1 DEF Transaction, Committed
        <3>3. ASSUME NEW u \in Users
              PROVE  /\ Counted[u] \subseteq Counted'[u]
                     /\ total'[u] \in 0..(total[u] + Cardinality(Counted'[u] \ Counted[u]))
            <4>1. NewTotal(batch, u) \in 0..(total[u] + Cardinality(Earned(batch, u)))
                BY <3>1, Settlement DEF IInv
            <4>2. /\ Counted[u] \subseteq Counted'[u]
                  /\ Cardinality(Earned(batch, u)) <= Cardinality(Counted'[u] \ Counted[u])
                BY <1>2, <2>2, AwardsAreNew
            <4>3. Cardinality(Earned(batch, u)) \in Nat /\ total[u] \in Nat
                BY <3>1, EarnedIsFinite DEF IInv, TypeOK
            <4>4. Cardinality(Counted'[u] \ Counted[u]) \in Nat
                <5>1. Counted'[u] \ Counted[u] \subseteq Ticks
                    BY DEF Counted
                <5> QED BY <5>1, TicksAreFinite, FS_Subset, FS_CardinalityType
            <4> QED BY <3>2, <4>1, <4>2, <4>3, <4>4
        <3>4. Counted' \in [Users -> SUBSET Ticks] /\ DOMAIN total' = Users
            BY <3>2 DEF Counted
        <3>5. \A u \in Users : Counted[u] \subseteq Counted'[u]
            BY <3>3
        <3>6. \A u \in Users : total'[u] \in 0..(total[u] + Cardinality(TheLedger!New(u)))
            BY <3>3 DEF TheLedger!New
        <3>7. TheLedger!Settle
            BY <3>4, <3>5, <3>6, SameCardinality DEF TheLedger!Settle
        <3> QED BY <3>7
    <2> QED BY <1>2, <2>1, <2>2 DEF Transaction, Committed, IInv, ShapeOK
<1>3. UNCHANGED <<total, credited>> \/ (flushing > 0 /\ Transaction(batch))
    BY DEF Next, BeginLoad, EndLoad, Release, Earn, RaiseFlag, BeginFlush, FlushNothing,
           Acknowledged, ResponseLost, WriteFails, Cleanup, DeleteOldMinutes, Crash, Tick,
           tables, history, vars
<1> QED BY <1>1, <1>2, <1>3

\* The guard implements the ledger: whatever is retried, lost, replayed or taken
\* back, a total grows at most by the messages never counted before.
THEOREM LedgerImplemented == Spec => ImplementsLedger
<1>1. Init => TheLedger!Init
    BY DEF Init, TheLedger!Init, Counted
<1>2. IInv /\ [Next]_vars => [TheLedger!Settle]_(TheLedger!vars)
    BY StepSettles
<1> QED BY <1>1, <1>2, Invariant, PTL DEF Spec, ImplementsLedger, TheLedger!Spec
=============================================================================
