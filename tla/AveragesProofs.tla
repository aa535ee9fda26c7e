--------------------------- MODULE AveragesProofs ---------------------------
(***************************************************************************)
(* The two components whose outputs are averages: the local order book,    *)
(* which is an exact replica over a channel that loses, repeats and        *)
(* reorders and whose weighted mid price stays inside the spread, and the  *)
(* confluence engine with its score, for any prices, quantities, versions, *)
(* sources, signals and entries.                                           *)
(***************************************************************************)
EXTENDS BookReplica, Confluence, FiniteSetTheorems, TLAPS

-----------------------------------------------------------------------------
(* Sums over finite sets, and the extremes of sets of numbers.             *)

\* A set of natural numbers has a least one.
LEMMA LeastNat ==
  ASSUME NEW N, N \subseteq Nat, N # {}
  PROVE  \E n \in N : \A m \in N : n <= m
  <1>1. IsWellFoundedOn(OpToRel(<, Nat), Nat)
    BY NatLessThanWellFounded
  <1>2. PICK n \in N : \A m \in N : ~ (<<m, n>> \in OpToRel(<, Nat))
    BY <1>1, WFMin
  <1>3. ASSUME NEW m \in N PROVE n <= m
    <2>1. n \in Nat /\ m \in Nat
      OBVIOUS
    <2>2. ~(m < n)
      BY <1>2, <2>1 DEF OpToRel
    <2> QED BY <2>1, <2>2
  <1> QED BY <1>3

\* Among subsets of a finite set there is one that contains no other: the least
\* counterexample of a proof by induction on sets.
LEMMA SmallestSet ==
  ASSUME NEW S, IsFiniteSet(S), NEW B, B \subseteq SUBSET S, B # {}
  PROVE  \E t \in B : \A u \in SUBSET t : u # t => u \notin B
  <1>1. \A t \in B : IsFiniteSet(t) /\ Cardinality(t) \in Nat
    BY FS_Subset, FS_CardinalityType
  <1> DEFINE N == {Cardinality(t) : t \in B}
  <1>2. N \subseteq Nat /\ N # {}
    BY <1>1
  <1>3. PICK n \in N : \A m \in N : n <= m
    <2> HIDE DEF N
    <2> QED BY <1>2, LeastNat
  <1>4. PICK t \in B : Cardinality(t) = n
    OBVIOUS
  <1>5. ASSUME NEW u \in SUBSET t, u # t, u \in B PROVE FALSE
    <2>1. Cardinality(u) < Cardinality(t)
      BY <1>1, <1>5, FS_Subset
    <2>2. Cardinality(t) <= Cardinality(u)
      BY <1>3, <1>4, <1>5
    <2> QED BY <1>1, <1>5, <2>1, <2>2
  <1> QED BY <1>5

\* The element a sum takes first, and what it is to be the sum of f on the subsets of S.
First(s) == CHOOSE x \in s : TRUE

Rest(s) == s \ {First(s)}

IsSum(f, S, g) ==
  g = [s \in SUBSET S |-> IF s = {} THEN 0 ELSE f[First(s)] + g[Rest(s)]]

\* What is left when a sum has taken its first term.
LEMMA RestSmaller ==
  ASSUME NEW s, s # {}
  PROVE  First(s) \in s /\ Rest(s) \subseteq s /\ Rest(s) # s
  BY DEF First, Rest

\* A sum does not depend on the set it was defined for.
LEMMA SumsAgree ==
  ASSUME NEW f, NEW S, NEW g, IsSum(f, S, g), NEW T \in SUBSET S, IsFiniteSet(T),
         NEW h, IsSum(f, T, h)
  PROVE  \A t \in SUBSET T : g[t] = h[t]
  <1> DEFINE B == {t \in SUBSET T : g[t] # h[t]}
  <1> SUFFICES ASSUME B # {} PROVE FALSE
    OBVIOUS
  <1>1. PICK t \in B : \A u \in SUBSET t : u # t => u \notin B
    <2>1. B \subseteq SUBSET T
      OBVIOUS
    <2> HIDE DEF B
    <2> QED BY <2>1, SmallestSet
  <1>2. /\ g[t] = IF t = {} THEN 0 ELSE f[First(t)] + g[Rest(t)]
        /\ h[t] = IF t = {} THEN 0 ELSE f[First(t)] + h[Rest(t)]
    BY DEF IsSum
  <1>3. t # {}
    BY <1>2
  <1>4. Rest(t) \notin B /\ Rest(t) \in SUBSET T
    BY <1>1, <1>3, RestSmaller
  <1> QED BY <1>2, <1>3, <1>4

\* There is a function that is the sum.
LEMMA SumExists ==
  ASSUME NEW f, NEW S, IsFiniteSet(S)
  PROVE  \E g : IsSum(f, S, g)
  <1> DEFINE B == {T \in SUBSET S : \A g : ~IsSum(f, T, g)}
  <1> SUFFICES ASSUME B # {} PROVE FALSE
    OBVIOUS
  <1>1. PICK T \in B : \A u \in SUBSET T : u # T => u \notin B
    <2>1. B \subseteq SUBSET S
      OBVIOUS
    <2> HIDE DEF B
    <2> QED BY <2>1, SmallestSet
  <1> DEFINE G(u) == CHOOSE g : IsSum(f, u, g)
             h == [s \in SUBSET T |->
                     IF s = {} THEN 0 ELSE f[First(s)] + G(Rest(s))[Rest(s)]]
  <1>2. ASSUME NEW u \in SUBSET T, u # T
        PROVE  IsSum(f, u, G(u)) /\ IsFiniteSet(u)
    <2>1. \E g : IsSum(f, u, g)
      BY <1>1, <1>2
    <2> QED BY <2>1, FS_Subset
  <1> HIDE DEF G
  <1>3. ASSUME NEW s \in SUBSET T, s # {}
        PROVE  h[Rest(s)] = G(Rest(s))[Rest(s)]
    <2> DEFINE r == Rest(s)
    <2>1. r \in SUBSET T /\ r # T
      BY <1>3, RestSmaller
    <2>2. IsSum(f, r, G(r))
      BY <1>2, <2>1
    <2>3. G(r)[r] = IF r = {} THEN 0 ELSE f[First(r)] + G(r)[Rest(r)]
      BY <2>2 DEF IsSum
    <2>4. CASE r = {}
      BY <2>1, <2>3, <2>4
    <2>5. CASE r # {}
      <3>1. Rest(r) \in SUBSET r /\ Rest(r) \in SUBSET T /\ Rest(r) # T
        BY <2>1, <2>5, RestSmaller
      <3>2. IsSum(f, Rest(r), G(Rest(r))) /\ IsFiniteSet(Rest(r))
        BY <1>2, <3>1
      <3>3. G(r)[Rest(r)] = G(Rest(r))[Rest(r)]
        BY <2>2, <3>1, <3>2, SumsAgree
      <3> QED BY <2>1, <2>3, <2>5, <3>3
    <2> QED BY <2>4, <2>5
  <1>4. h = [s \in SUBSET T |-> IF s = {} THEN 0 ELSE f[First(s)] + h[Rest(s)]]
    BY <1>3
  <1>5. IsSum(f, T, h)
    <2> HIDE DEF h
    <2> QED BY <1>4 DEF IsSum
  <1> QED BY <1>5

\* A sum is what its first element adds to the sum of the rest.
LEMMA SumIs ==
  ASSUME NEW f, NEW S, IsFiniteSet(S)
  PROVE  SumFunctionOnSet(f, S) =
           IF S = {} THEN 0 ELSE f[First(S)] + SumFunctionOnSet(f, Rest(S))
  <1> DEFINE G(u) == CHOOSE g : IsSum(f, u, g)
  <1>1. \A T : SumFunctionOnSet(f, T) = G(T)[T]
    BY DEF SumFunctionOnSet, FoldFunctionOnSet, MapThenFoldSet, IsSum, First, Rest
  <1>2. IsFiniteSet(Rest(S))
    BY FS_Subset DEF Rest
  <1>3. IsSum(f, S, G(S)) /\ IsSum(f, Rest(S), G(Rest(S)))
    BY <1>2, SumExists
  <1> HIDE DEF G
  <1>4. G(S)[S] = IF S = {} THEN 0 ELSE f[First(S)] + G(S)[Rest(S)]
    BY <1>3 DEF IsSum
  <1>5. G(S)[Rest(S)] = G(Rest(S))[Rest(S)]
    <2>1. Rest(S) \in SUBSET S
      BY DEF Rest
    <2> QED BY <1>2, <1>3, <2>1, SumsAgree
  <1> QED BY <1>1, <1>4, <1>5

\* Terms within bounds add up to a sum within the sum of the bounds.
LEMMA SumWithin ==
  ASSUME NEW S, IsFiniteSet(S), NEW f, NEW g,
         \A x \in S : f[x] \in Int /\ g[x] \in Nat /\ -g[x] <= f[x] /\ f[x] <= g[x]
  PROVE  /\ SumFunctionOnSet(f, S) \in Int
         /\ SumFunctionOnSet(g, S) \in Nat
         /\ -SumFunctionOnSet(g, S) <= SumFunctionOnSet(f, S)
         /\ SumFunctionOnSet(f, S) <= SumFunctionOnSet(g, S)
         /\ S # {} /\ (\A x \in S : g[x] > 0) => SumFunctionOnSet(g, S) > 0
  <1> DEFINE F(T) == SumFunctionOnSet(f, T)
             G(T) == SumFunctionOnSet(g, T)
             Good(T) == F(T) \in Int /\ G(T) \in Nat /\ -G(T) <= F(T) /\ F(T) <= G(T)
             B == {T \in SUBSET S : ~Good(T)}
  <1>1. ASSUME NEW T \in SUBSET S
        PROVE  /\ F(T) = IF T = {} THEN 0 ELSE f[First(T)] + F(Rest(T))
               /\ G(T) = IF T = {} THEN 0 ELSE g[First(T)] + G(Rest(T))
    <2>1. IsFiniteSet(T)
      BY FS_Subset
    <2> QED BY <2>1, SumIs
  <1> HIDE DEF F, G
  <1>2. B = {}
    <2> SUFFICES ASSUME B # {} PROVE FALSE
      OBVIOUS
    <2>1. PICK T \in B : \A u \in SUBSET T : u # T => u \notin B
      <3>1. B \subseteq SUBSET S
        OBVIOUS
      <3> HIDE DEF B
      <3> QED BY <3>1, SmallestSet
    <2>2. CASE T = {}
      <3>1. F(T) = 0 /\ G(T) = 0
        BY <1>1, <2>2
      <3> QED BY <3>1
    <2>3. CASE T # {}
      <3>1. First(T) \in S /\ Rest(T) \in SUBSET S /\ Rest(T) \notin B
        BY <2>1, <2>3, RestSmaller
      <3>2. /\ F(T) = f[First(T)] + F(Rest(T)) /\ G(T) = g[First(T)] + G(Rest(T))
        BY <1>1, <2>3
      <3> QED BY <3>1, <3>2
    <2> QED BY <2>2, <2>3
  <1>3. Good(S) /\ \A T \in SUBSET S : Good(T)
    BY <1>2
  <1>4. ASSUME S # {}, \A x \in S : g[x] > 0 PROVE G(S) > 0
    <2>1. First(S) \in S /\ Rest(S) \in SUBSET S
      BY <1>4, RestSmaller
    <2>2. G(S) = g[First(S)] + G(Rest(S)) /\ G(Rest(S)) \in Nat
      BY <1>1, <1>3, <1>4, <2>1
    <2> QED BY <1>4, <2>1, <2>2
  <1> QED BY <1>3, <1>4 DEF F, G

-----------------------------------------------------------------------------
(* The order book.                                                         *)

\* The exchange sends as updates[n] the change from version n to version n + 1.
UpdatesMatch ==
  /\ Version = Len(updates) + 1
  /\ \A n \in 1..Len(updates) : market[n + 1] = SetLevel(market[n], updates[n])

\* The exchange's own book is never crossed.
MarketUncrossed == \A n \in 1..Version : Uncrossed(market[n])

\* The inductive invariant: a delta that passes the gap test is the change that
\* leads from the version the book shows to the next.
BookInv == BookTypeOK /\ UpdatesMatch /\ MarketUncrossed /\ BookIsExact

-----------------------------------------------------------------------------
\* Changing one level of a book leaves a book (the body of apply_delta).
LEMMA SetLevelType ==
  ASSUME NEW levels \in Levels, NEW u \in Updates
  PROVE  SetLevel(levels, u) \in Levels
BY DEF SetLevel, Levels, Updates, Sides

\* A book without levels is a book (OrderBook.__init__).
LEMMA NoLevelsType == NoLevels \in Levels
BY OrderBookAssumption DEF NoLevels, Levels

\* An arriving snapshot replaces the book by a version of the market, or is
\* stale and changes nothing (apply_snapshot).
LEMMA SnapshotStep ==
  ASSUME BookTypeOK, NEW n \in 1..Version, SnapshotArrives(n)
  PROVE  /\ book' \in Books
         /\ \/ book' = book
            \/ /\ n > book.lastUpdateId
               /\ book'.levels = market[n]
               /\ book'.lastUpdateId = n
<1>1. market[n] \in Levels /\ n \in Nat /\ book \in Books /\ book.lastUpdateId \in Nat
  BY DEF BookTypeOK, Version, Books
<1>2. CASE n <= book.lastUpdateId
  BY <1>1, <1>2 DEF SnapshotArrives, ApplySnapshot
<1>3. CASE n > book.lastUpdateId
  <2>1. book' = [levels |-> market[n], lastUpdateId |-> n, resyncNeeded |-> FALSE]
    BY <1>1, <1>3 DEF SnapshotArrives, ApplySnapshot
  <2>2. QED
    BY <1>1, <1>3, <2>1 DEF Books
<1>4. QED
  BY <1>1, <1>2, <1>3

\* An arriving delta changes at most the resync flag, or takes the book from
\* the version it shows to the next (apply_delta).
LEMMA DeltaStep ==
  ASSUME BookInv, NEW n \in 1..Len(updates), DeltaArrives(n)
  PROVE  /\ book' \in Books
         /\ \/ /\ book'.levels = book.levels
               /\ book'.lastUpdateId = book.lastUpdateId
            \/ /\ book.lastUpdateId = n
               /\ book'.lastUpdateId = n + 1
               /\ book'.levels = market[n + 1]
<1> USE DEF BookInv
<1>1. /\ book \in Books /\ n \in Nat /\ n >= 1 /\ book.lastUpdateId \in Nat
      /\ updates[n] \in Updates
  BY DEF BookTypeOK, Books
<1>2. CASE DeltaStatus(book, n + 1) = "stale"
  <2>1. book' = book
    BY <1>2 DEF DeltaArrives, ApplyDelta
  <2>2. QED
    BY <1>1, <2>1
<1>3. CASE DeltaStatus(book, n + 1) = "gap"
  <2>1. book' = [book EXCEPT !.resyncNeeded = TRUE]
    BY <1>3 DEF DeltaArrives, ApplyDelta
  <2>2. QED
    BY <1>1, <2>1 DEF Books
<1>4. CASE DeltaStatus(book, n + 1) = "next"
  <2>1. book' = [levels |-> SetLevel(book.levels, updates[n]), lastUpdateId |-> n + 1,
                 resyncNeeded |-> book.resyncNeeded]
    <3>1. book' = [book EXCEPT !.levels = SetLevel(@, updates[n]), !.lastUpdateId = n + 1]
      BY <1>4 DEF DeltaArrives, ApplyDelta
    <3>2. QED
      BY <1>1, <3>1 DEF Books
  <2>2. book.lastUpdateId = n
    BY <1>1, <1>4 DEF DeltaStatus
  <2>3. book.levels = market[n]
    BY <1>1, <2>2 DEF BookIsExact
  <2>4. SetLevel(book.levels, updates[n]) = market[n + 1]
    BY <2>3 DEF UpdatesMatch
  <2>5. SetLevel(book.levels, updates[n]) \in Levels
    BY <1>1, SetLevelType DEF Books
  <2>6. QED
    BY <1>1, <2>1, <2>2, <2>4, <2>5 DEF Books
<1>5. QED
  BY <1>2, <1>3, <1>4 DEF DeltaStatus

-----------------------------------------------------------------------------
\* The invariant holds before anything has arrived.
LEMMA BookInitInv == BookInit => BookInv
<1> SUFFICES ASSUME BookInit PROVE BookInv
  OBVIOUS
<1>1. BookTypeOK
  BY NoLevelsType DEF BookInit, BookTypeOK, EmptyBook, Books
<1>2. UpdatesMatch
  BY DEF BookInit, UpdatesMatch, Version
<1>3. BookIsExact
  BY DEF BookInit, BookIsExact, EmptyBook
<1>4. MarketUncrossed
  BY DEF BookInit, MarketUncrossed, Version
<1>5. QED
  BY <1>1, <1>2, <1>3, <1>4 DEF BookInv

\* The exchange appends a version; every earlier one keeps its number.
LEMMA ExchangeInv ==
  ASSUME BookInv, ExchangeUpdate
  PROVE  BookInv'
<1> USE DEF BookInv
<1>1. PICK u \in Updates : /\ market' = Append(market, SetLevel(market[Version], u))
                           /\ updates' = Append(updates, u)
                           /\ book' = book
                           /\ Uncrossed(SetLevel(market[Version], u))
  BY DEF ExchangeUpdate
<1>2. /\ market \in Seq(Levels) /\ updates \in Seq(Updates)
      /\ Version \in Nat /\ Version = Len(updates) + 1
  BY DEF BookTypeOK, Version, UpdatesMatch
<1>3. SetLevel(market[Version], u) \in Levels
  BY <1>2, SetLevelType DEF Version
<1>4. BookTypeOK'
  BY <1>1, <1>2, <1>3 DEF BookTypeOK
<1>5. /\ Len(market') = Version + 1
      /\ \A n \in 1..Version : market'[n] = market[n]
      /\ market'[Version + 1] = SetLevel(market[Version], u)
      /\ Len(updates') = Len(updates) + 1
      /\ \A n \in 1..Len(updates) : updates'[n] = updates[n]
      /\ updates'[Len(updates) + 1] = u
  BY <1>1, <1>2, <1>3 DEF Version
<1>6. UpdatesMatch'
  BY <1>2, <1>5 DEF UpdatesMatch, Version
<1>7. BookIsExact'
  BY <1>1, <1>2, <1>5 DEF BookIsExact, Version
<1>8. MarketUncrossed'
  <2>1. ASSUME NEW n \in 1 .. Version + 1, n \notin 1..Version PROVE n = Version + 1
    BY <1>2, <2>1
  <2>2. ASSUME NEW n \in 1 .. Version + 1, NEW levels, levels = market'[n]
        PROVE  Uncrossed(levels)
    <3>1. CASE n \in 1..Version
      BY <1>5, <2>2, <3>1 DEF MarketUncrossed
    <3>2. CASE n \notin 1..Version
      BY <1>1, <1>5, <2>1, <2>2, <3>2
    <3>3. QED
      BY <3>1, <3>2
  <2>3. Version' = Version + 1
    BY <1>5 DEF Version
  <2>4. QED
    BY <2>2, <2>3 DEF MarketUncrossed
<1>9. QED
  BY <1>4, <1>6, <1>7, <1>8

\* Neither kind of message can make the book inexact.
LEMMA ArrivalInv ==
  ASSUME BookInv,
         \/ \E n \in 1..Version : SnapshotArrives(n)
         \/ \E n \in 1..Len(updates) : DeltaArrives(n)
  PROVE  BookInv'
<1> USE DEF BookInv
<1>1. market' = market /\ updates' = updates
  BY DEF SnapshotArrives, DeltaArrives
<1>2. UpdatesMatch' /\ MarketUncrossed'
  BY <1>1 DEF UpdatesMatch, MarketUncrossed, Version
<1>3. CASE \E n \in 1..Version : SnapshotArrives(n)
  <2>1. PICK n \in 1..Version : SnapshotArrives(n)
    BY <1>3
  <2>2. market[n] \in Levels /\ n \in Nat /\ n # 0
    BY DEF BookTypeOK, Version
  <2>3. BookTypeOK'
    BY <1>1, <2>1, SnapshotStep DEF BookTypeOK
  <2>4. BookIsExact'
    BY <1>1, <2>1, <2>2, SnapshotStep DEF BookIsExact, Version
  <2>5. QED
    BY <1>2, <2>3, <2>4
<1>4. CASE \E n \in 1..Len(updates) : DeltaArrives(n)
  <2>1. PICK n \in 1..Len(updates) : DeltaArrives(n)
    BY <1>4
  <2>2. BookTypeOK'
    BY <1>1, <2>1, DeltaStep DEF BookTypeOK
  <2>3. n \in Nat /\ n + 1 # 0 /\ n + 1 \in 1..Version
    BY DEF UpdatesMatch, BookTypeOK
  <2>4. BookIsExact'
    BY <1>1, <2>1, <2>3, DeltaStep DEF BookIsExact, Version
  <2>5. QED
    BY <1>2, <2>2, <2>4
<1>5. QED
  BY <1>3, <1>4

\* Every step preserves the invariant.
LEMMA BookNextInv == BookInv /\ [BookNext]_bookVars => BookInv'
<1> SUFFICES ASSUME BookInv, [BookNext]_bookVars PROVE BookInv'
  OBVIOUS
<1>1. CASE UNCHANGED bookVars
  BY <1>1 DEF bookVars, BookInv, BookTypeOK, UpdatesMatch, MarketUncrossed, BookIsExact,
                 Version
<1>2. CASE BookNext
  BY <1>2, ExchangeInv, ArrivalInv DEF BookNext
<1>3. QED
  BY <1>1, <1>2

\* The invariant of every reachable state of the replica.
LEMMA BookInvariance == BookSpec => []BookInv
  BY BookInitInv, BookNextInv, PTL DEF BookSpec

-----------------------------------------------------------------------------
\* Type correctness.
THEOREM BookTypeCorrect == BookSpec => []BookTypeOK
<1>1. BookInv => BookTypeOK
  BY DEF BookInv
<1>2. QED
  BY <1>1, BookInvariance, PTL

\* Whatever the channel does, the book shows exactly the exchange's book of the
\* update id it reports (apply_snapshot, apply_delta).
THEOREM Exactness == BookSpec => []BookIsExact
<1>1. BookInv => BookIsExact
  BY DEF BookInv
<1>2. QED
  BY <1>1, BookInvariance, PTL

\* The book implements the abstract replica: it only ever moves to a later
\* version of the market, and shows the whole of it.
THEOREM Refinement == BookSpec => ImplementsReplica
<1>1. BookInit => Abstract!Init
  BY DEF BookInit, Abstract!Init, EmptyBook
<1>2. ASSUME BookInv, BookInv', [BookNext]_bookVars PROVE [Abstract!Next]_(Abstract!vars)
  <2> USE DEF BookInv
  <2>1. CASE UNCHANGED bookVars
    BY <2>1 DEF bookVars, Abstract!vars
  <2>2. CASE ExchangeUpdate
    <3>1. PICK u \in Updates : /\ market' = Append(market, SetLevel(market[Version], u))
                               /\ book' = book
      BY <2>2 DEF ExchangeUpdate
    <3>2. SetLevel(market[Version], u) \in Levels
      <4>1. market[Version] \in Levels
        BY <1>2 DEF BookTypeOK, UpdatesMatch, Version
      <4>2. QED
        BY <4>1, SetLevelType
    <3>3. Abstract!Publish
      BY <3>1, <3>2 DEF Abstract!Publish
    <3>4. QED
      BY <3>3 DEF Abstract!Next
  <2>3. ASSUME NEW n \in 1..Version, SnapshotArrives(n)
        PROVE  [Abstract!Next]_(Abstract!vars)
    <3>1. market' = market
      BY <2>3 DEF SnapshotArrives
    <3>2. CASE book' = book
      BY <3>1, <3>2 DEF Abstract!vars
    <3>3. CASE /\ n > book.lastUpdateId
               /\ book'.levels = market[n]
               /\ book'.lastUpdateId = n
      <4>1. Abstract!Advance
        BY <3>1, <3>3 DEF Abstract!Advance, Version
      <4>2. QED
        BY <4>1 DEF Abstract!Next
    <3>4. QED
      BY <1>2, <2>3, <3>2, <3>3, SnapshotStep
  <2>4. ASSUME NEW n \in 1..Len(updates), DeltaArrives(n)
        PROVE  [Abstract!Next]_(Abstract!vars)
    <3>1. market' = market
      BY <2>4 DEF DeltaArrives
    <3>2. CASE book'.levels = book.levels /\ book'.lastUpdateId = book.lastUpdateId
      BY <3>1, <3>2 DEF Abstract!vars
    <3>3. CASE /\ book.lastUpdateId = n
               /\ book'.lastUpdateId = n + 1
               /\ book'.levels = market[n + 1]
      <4>1. n + 1 \in 1..Len(market) /\ n + 1 > n
        BY <1>2 DEF UpdatesMatch, Version, BookTypeOK
      <4>2. Abstract!Advance
        BY <3>1, <3>3, <4>1 DEF Abstract!Advance
      <4>3. QED
        BY <4>2 DEF Abstract!Next
    <3>4. QED
      BY <1>2, <2>4, <3>2, <3>3, DeltaStep
  <2>5. QED
    BY <1>2, <2>1, <2>2, <2>3, <2>4 DEF BookNext
<1>3. QED
  BY <1>1, <1>2, BookInvariance, PTL DEF BookSpec, ImplementsReplica, Abstract!Spec

-----------------------------------------------------------------------------
\* A finite set of numbers has a greatest one.
LEMMA GreatestNat ==
  ASSUME NEW S, IsFiniteSet(S), S \subseteq Nat, S # {}
  PROVE  \E n \in S : \A m \in S : n >= m
<1> DEFINE B == {T \in SUBSET S : T # {} /\ \A n \in T : \E m \in T : m > n}
<1>1. B = {}
  <2> SUFFICES ASSUME B # {} PROVE FALSE
    OBVIOUS
  <2>1. PICK T \in B : \A u \in SUBSET T : u # T => u \notin B
    <3>1. B \subseteq SUBSET S
      OBVIOUS
    <3> HIDE DEF B
    <3> QED BY <3>1, SmallestSet
  <2>2. First(T) \in T /\ Rest(T) \subseteq T /\ Rest(T) # T /\ T = Rest(T) \cup {First(T)}
    BY RestSmaller DEF Rest
  <2>3. Rest(T) \notin B
    BY <2>1, <2>2
  <2>4. (\A m \in T : m \in Nat) /\ \A n \in T : \E m \in T : m > n
    OBVIOUS
  <2>5. CASE Rest(T) = {}
    <3>1. PICK x \in T : x = First(T)
      BY <2>2
    <3>2. PICK m \in T : m > x
      BY <2>4
    <3>3. m = x /\ x \in Nat
      BY <2>2, <2>5, <2>4, <3>1
    <3> QED BY <3>2, <3>3
  <2>6. CASE Rest(T) # {}
    <3>1. PICK n \in Rest(T) : \A m \in Rest(T) : ~(m > n)
      BY <2>2, <2>3, <2>6
    <3>2. PICK x \in T : x = First(T)
      BY <2>2
    <3>3. PICK m \in T : m > n
      BY <2>2, <2>4, <3>1
    <3>4. m = x
      BY <2>2, <3>1, <3>2, <3>3
    <3>5. PICK k \in T : k > x
      BY <2>4, <3>2
    <3>6. k \in Rest(T)
      BY <2>2, <2>4, <3>2, <3>5
    <3>7. k \in Nat /\ n \in Nat /\ x \in Nat
      BY <2>4, <2>2
    <3> QED BY <3>1, <3>3, <3>4, <3>5, <3>6, <3>7
  <2> QED BY <2>5, <2>6
<1>2. PICK n \in S : \A m \in S : ~(m > n)
  BY <1>1
<1> QED BY <1>2

\* What a side quotes is a finite set of prices.
LEMMA QuotedType ==
  ASSUME NEW levels \in Levels, NEW side \in Sides
  PROVE  Quoted(levels, side) \subseteq Nat /\ IsFiniteSet(Quoted(levels, side))
<1>1. Quoted(levels, side) \subseteq Prices
  BY DEF Quoted
<1>2. QED
  BY <1>1, OrderBookAssumption, FS_Subset DEF OrderBookAssumption

\* The best prices of an uncrossed book are in order (best_bid, best_ask).
LEMMA BestInOrder ==
  ASSUME NEW levels \in Levels, TwoSided(levels), Uncrossed(levels)
  PROVE  /\ BestBid(levels) \in Nat /\ BestAsk(levels) \in Nat
         /\ BestBid(levels) < BestAsk(levels)
<1>1. "bid" \in Sides /\ "ask" \in Sides
  BY DEF Sides
<1>2. BestBid(levels) \in Quoted(levels, "bid")
  <2>1. \E n \in Quoted(levels, "bid") : \A m \in Quoted(levels, "bid") : n >= m
    BY <1>1, QuotedType, GreatestNat DEF TwoSided
  <2>2. QED
    BY <2>1 DEF BestBid, Max
<1>3. BestAsk(levels) \in Quoted(levels, "ask")
  <2>1. \E n \in Quoted(levels, "ask") : \A m \in Quoted(levels, "ask") : n <= m
    BY <1>1, QuotedType, LeastNat DEF TwoSided
  <2>2. QED
    BY <2>1 DEF BestAsk, Min
<1>4. QED
  BY <1>1, <1>2, <1>3, QuotedType DEF Uncrossed

\* The five best levels of a side add up to a quantity (_pressure_sum).
LEMMA PressureType ==
  ASSUME NEW levels \in Levels, NEW side \in Sides
  PROVE  Pressure(levels, side) \in Nat
<1>1. PICK S : S = TopN(levels, side, 5)
  OBVIOUS
<1>2. S \subseteq Prices /\ IsFiniteSet(S)
  <2>1. S \subseteq Prices
    BY <1>1 DEF TopN, Quoted
  <2>2. QED
    BY <2>1, OrderBookAssumption, FS_Subset DEF OrderBookAssumption
<1>3. PICK f : f = levels[side]
  OBVIOUS
<1>4. \A p \in S : f[p] \in Int /\ f[p] \in Nat /\ -f[p] <= f[p] /\ f[p] <= f[p]
  <2>1. \A p \in S : f[p] \in Nat
    BY <1>2, <1>3, OrderBookAssumption DEF OrderBookAssumption, Levels
  <2>2. QED
    BY <2>1
<1>5. SumFunctionOnSet(f, S) \in Nat
  BY <1>2, <1>4, SumWithin
<1>6. QED
  BY <1>1, <1>3, <1>5 DEF Pressure

\* A weighted average of two numbers lies between them.
LEMMA AverageBetween ==
  ASSUME NEW a \in Nat, NEW b \in Nat, a < b, NEW p \in Nat, NEW q \in Nat
  PROVE  a * (p + q) <= b * p + a * q /\ b * p + a * q <= b * (p + q)
<1>1. PICK d \in Nat : b = a + d
  <2>1. b - a \in Nat /\ b = a + (b - a)
    OBVIOUS
  <2>2. QED
    BY <2>1
<1>2. d * p \in Nat /\ d * q \in Nat /\ a * p \in Nat /\ a * q \in Nat
  OBVIOUS
<1>3. /\ a * (p + q) = a * p + a * q
      /\ (a + d) * p = a * p + d * p
      /\ (a + d) * q = a * q + d * q
      /\ (a + d) * (p + q) = (a + d) * p + (a + d) * q
  OBVIOUS
<1>4. QED
  BY <1>1, <1>2, <1>3

\* The book's own prices are never crossed and its weighted mid price lies between
\* them, whatever the channel does, because what it shows is a whole version of an
\* uncrossed market (spread, weighted_mid_price).
THEOREM MidStaysInside == BookSpec => []MidInsideSpread
<1>1. BookInv => MidInsideSpread
  <2> SUFFICES ASSUME BookInv, NEW levels, levels = book.levels, TwoSided(levels)
               PROVE  /\ BestBid(levels) < BestAsk(levels)
                      /\ BestBid(levels) * WeightedMidDenom(levels) <= WeightedMidNum(levels)
                      /\ WeightedMidNum(levels) <= BestAsk(levels) * WeightedMidDenom(levels)
    BY DEF MidInsideSpread
  <2> USE DEF BookInv
  <2>1. levels \in Levels /\ "bid" \in Sides /\ "ask" \in Sides
    BY DEF BookTypeOK, Books, Sides
  <2>2. Uncrossed(levels)
    <3>1. CASE book.lastUpdateId = 0
      <4>1. levels = NoLevels
        BY <3>1 DEF BookIsExact
      <4>2. Quoted(levels, "bid") = {}
        BY <2>1, <4>1 DEF Quoted, NoLevels
      <4>3. QED
        BY <2>1, <4>2 DEF TwoSided
    <3>2. CASE book.lastUpdateId # 0
      BY <3>2 DEF BookIsExact, MarketUncrossed
    <3>3. QED
      BY <3>1, <3>2
  <2>3. /\ BestBid(levels) \in Nat /\ BestAsk(levels) \in Nat
        /\ BestBid(levels) < BestAsk(levels)
    BY <2>1, <2>2, BestInOrder
  <2>4. Pressure(levels, "bid") \in Nat /\ Pressure(levels, "ask") \in Nat
    BY <2>1, PressureType
  <2>5. QED
    BY <2>3, <2>4, AverageBetween DEF WeightedMidNum, WeightedMidDenom
<1>2. QED
  BY <1>1, BookInvariance, PTL

-----------------------------------------------------------------------------
(* The confluence engine.                                                  *)

\* What was acknowledged comes before what is pending, and was told or needed not be.
GroupInv ==
  /\ pending \subseteq 1..Inherited /\ told \cup silent \subseteq 1..Inherited
  /\ \A n \in 1..Inherited \ pending :
        n \in told \cup silent /\ \A m \in pending : n < m
  /\ \A m \in pending : last < m
  /\ content # Unread => pending # {}

\* The batch is the beginning of what is pending.
BatchInv ==
  pc \in {"entry", "publish", "ack"} =>
    /\ batch # {} /\ batch \subseteq pending
    /\ \A n \in batch : \A m \in pending \ batch : n < m

\* An entry is done before it is acknowledged.
HandInv == pc = "ack" => NextEntry \in told \cup silent

ConfluenceInv == TypeOK /\ GroupInv /\ BatchInv /\ HandInv /\ AlertIsStrong

\* Of two scores, the one that is an alert's strength (_check_alert's abs).
LEMMA AbsoluteIs ==
  ASSUME NEW n \in Int
  PROVE  Max({n, -n}) = IF n >= 0 THEN n ELSE -n
  <1>1. CASE n >= 0
    <2>1. \E x \in {n, -n} : \A y \in {n, -n} : x >= y
      BY <1>1
    <2> QED BY <1>1, <2>1 DEF Max
  <1>2. CASE ~(n >= 0)
    <2>1. \E x \in {n, -n} : \A y \in {n, -n} : x >= y
      BY <1>2
    <2> QED BY <1>2, <2>1 DEF Max
  <1> QED BY <1>1, <1>2

\* The parts of TypeOK that hold what the engine has learnt.
LatestTypes  == [Sources -> [kind : {"none", "signal", "text"}, sig : Signals \cup {Zero}]]
LeadLagTypes == [Sources -> {"leading", "coincident", "lagging"}]

\* A score lies between -1 and 1 (_compute_confluence).
LEMMA ScoreInRange ==
  ASSUME NEW all \in LatestTypes, NEW kinds \in LeadLagTypes, Known(all) # {},
         NEW n, NEW d, Compute(all, kinds) = <<n, d>>
  PROVE  n \in Int /\ d \in Nat /\ d > 0 /\ -d <= n /\ n <= d
  <1> DEFINE f == [src \in Sources |-> Weight(kinds[src]) * Tanh(all[src].sig)]
             g == [src \in Sources |-> 2 * Weight(kinds[src])]
  <1>1. Known(all) \subseteq Sources /\ IsFiniteSet(Known(all))
    <2>1. Known(all) \subseteq Sources
      BY DEF Known
    <2> QED BY <2>1, ConfluenceAssumption, FS_Subset DEF ConfluenceAssumption
  <1>2. ASSUME NEW src \in Sources
        PROVE  /\ f[src] \in Int /\ g[src] \in Nat /\ g[src] > 0
               /\ -g[src] <= f[src] /\ f[src] <= g[src]
    <2>1. all[src].sig.v \in -2..2
      BY ConfluenceAssumption DEF ConfluenceAssumption, LatestTypes, Zero
    <2>2. Tanh(all[src].sig) \in -2..2
      BY <2>1 DEF Tanh
    <2>3. Weight(kinds[src]) \in {1, 2, 4}
      BY DEF Weight, LeadLagTypes
    <2>4. f[src] = Weight(kinds[src]) * Tanh(all[src].sig) /\ g[src] = 2 * Weight(kinds[src])
      OBVIOUS
    <2> QED BY <2>2, <2>3, <2>4
  <1>3. n = SumFunctionOnSet(f, Known(all)) /\ d = SumFunctionOnSet(g, Known(all))
    BY DEF Compute
  <1> HIDE DEF f, g
  <1> QED BY <1>1, <1>2, <1>3, SumWithin

\* The label of an alert, whatever the score (_classify_direction, _check_alert).
LEMMA AlertLabel ==
  ASSUME NEW all \in LatestTypes, NEW kinds \in LeadLagTypes, Known(all) # {},
         NEW n, NEW d, Compute(all, kinds) = <<n, d>>, CheckAlert(all, <<n, d>>)
  PROVE  Classify(<<n, d>>) =
           IF n = d THEN "neutral"
           ELSE IF n > 0 THEN "strong_bullish"
           ELSE IF 10 * n = -7 * d THEN "bearish" ELSE "strong_bearish"
  <1>1. n \in Int /\ d \in Nat /\ d > 0 /\ -d <= n /\ n <= d
    BY ScoreInRange
  <1>2. 10 * (IF n >= 0 THEN n ELSE -n) >= 7 * d
    BY <1>1, AbsoluteIs DEF CheckAlert
  <1> QED BY <1>1, <1>2 DEF Classify, Within

\* The engine before it has read anything.
LEMMA ConfluenceInit == Init => ConfluenceInv
  <1> SUFFICES ASSUME Init PROVE ConfluenceInv
    OBVIOUS
  <1> USE ConfluenceAssumption DEF ConfluenceAssumption
  <1>1. TypeOK
    BY DEF Init, TypeOK, Unread, Silence, Labels, Zero
  <1>2. GroupInv /\ BatchInv /\ HandInv /\ AlertIsStrong
    BY DEF Init, GroupInv, BatchInv, HandInv, AlertIsStrong, Silence
  <1> QED BY <1>1, <1>2 DEF ConfluenceInv

\* The entry in hand is the first of all that are pending.
LEMMA NextIsFirst ==
  ASSUME TypeOK, BatchInv, pc \in {"entry", "publish", "ack"}
  PROVE  /\ NextEntry \in batch /\ NextEntry \in pending
         /\ \A n \in pending : NextEntry <= n
  <1>1. batch \subseteq Nat /\ batch # {} /\ batch \subseteq pending /\ pending \subseteq Nat
    BY DEF TypeOK, BatchInv
  <1>2. \E n \in batch : \A m \in batch : n <= m
    BY <1>1, LeastNat
  <1>3. NextEntry \in batch /\ \A m \in batch : NextEntry <= m
    BY <1>2 DEF NextEntry, Min
  <1>4. \A m \in pending \ batch : NextEntry < m
    BY <1>3 DEF BatchInv
  <1> QED BY <1>1, <1>3, <1>4

\* A read returns the beginning of what is pending.
LEMMA ReadStep ==
  ASSUME ConfluenceInv, Read
  PROVE  ConfluenceInv'
  <1> USE ConfluenceAssumption DEF ConfluenceAssumption, ConfluenceInv
  <1> DEFINE below(n) == {m \in pending : m < n}
  <1>1. pending # {} /\ batch' = {n \in pending : Cardinality(below(n)) < Count}
    <2>1. {n \in Delivered : n > last} = pending
      BY DEF GroupInv, Delivered, TypeOK
    <2> QED BY <2>1 DEF Read
  <1>2. pending \subseteq Nat /\ IsFiniteSet(pending)
    <2>1. pending \subseteq 1..Inherited /\ IsFiniteSet(1..Inherited)
      BY FS_Interval DEF GroupInv
    <2>2. pending \subseteq Nat
      BY <2>1
    <2>3. IsFiniteSet(pending)
      BY <2>1, FS_Subset
    <2> QED BY <2>2, <2>3
  <1>3. ASSUME NEW n PROVE IsFiniteSet(below(n)) /\ Cardinality(below(n)) \in Nat
    BY <1>2, FS_Subset, FS_CardinalityType
  <1>4. batch' # {}
    <2>1. PICK n \in pending : \A m \in pending : n <= m
      BY <1>1, <1>2, LeastNat
    <2>2. below(n) = {}
      <3> SUFFICES ASSUME NEW m \in pending, m < n PROVE FALSE
        OBVIOUS
      <3>1. n \in Nat /\ m \in Nat /\ n <= m
        BY <1>2, <2>1
      <3> QED BY <3>1
    <2>3. Cardinality(below(n)) = 0
      BY <2>2, FS_EmptySet
    <2> HIDE DEF below
    <2> QED BY <1>1, <2>3
  <1>5. ASSUME NEW n \in batch', NEW m \in pending \ batch' PROVE n < m
    <2> SUFFICES ASSUME m <= n PROVE FALSE
      BY <1>1, <1>2
    <2>1. ASSUME NEW k \in pending, k < m PROVE k < n
      <3>1. k \in Nat /\ m \in Nat /\ n \in Nat
        BY <1>1, <1>2
      <3> QED BY <2>1, <3>1
    <2>2. Cardinality(below(m)) <= Cardinality(below(n))
      <3>1. below(m) \subseteq below(n)
        BY <2>1
      <3> HIDE DEF below
      <3> QED BY <1>3, <3>1, FS_Subset
    <2>3. Cardinality(below(n)) < Count /\ ~(Cardinality(below(m)) < Count)
      BY <1>1
    <2> HIDE DEF below
    <2> QED BY <1>3, <2>2, <2>3
  <1>6. batch' \subseteq pending
    BY <1>1
  <1>7. UNCHANGED <<sent, pending, textual, last, content, latest, leadLag, out,
                    told, silent, fails, tests, restarts>> /\ pc' = "entry"
    BY DEF Read, group, engine, history
  <1>8. TypeOK'
    BY <1>6, <1>7 DEF TypeOK
  <1>9. GroupInv' /\ HandInv' /\ AlertIsStrong'
    BY <1>7 DEF GroupInv, HandInv, AlertIsStrong
  <1>10. BatchInv'
    BY <1>4, <1>5, <1>6, <1>7 DEF BatchInv
  <1> QED BY <1>8, <1>9, <1>10

\* A signal is processed up to the publishing of its output (_process_signal).
LEMMA ProcessKeeps ==
  ASSUME ConfluenceInv, Process
  PROVE  ConfluenceInv'
  <1> USE ConfluenceAssumption DEF ConfluenceAssumption, ConfluenceInv
  <1>1. /\ UNCHANGED <<sent, pending, textual, last, batch, leadLag, told, fails, tests, restarts>>
        /\ pc = "entry" /\ pc' \in {"wait", "ack", "publish"}
    BY DEF Process, group
  <1>2. content' \in Contents
    BY DEF Process, TypeOK
  <1>3. latest' \in LatestTypes
    <2>1. latest' = Kept(content')
      BY DEF Process
    <2>2. CASE content'.kind \in {"nosource", "broken"}
      BY <2>1, <2>2 DEF Kept, TypeOK, LatestTypes
    <2>3. CASE content'.kind \notin {"nosource", "broken"}
      <3>1. content'.src \in Sources /\ content'.kind \in {"signal", "text"}
            /\ content'.sig \in Signals \cup {Zero}
        BY <1>2, <2>3 DEF Contents
      <3>2. latest \in LatestTypes
        BY DEF TypeOK, LatestTypes
      <3>3. latest' = [latest EXCEPT ![content'.src] = [kind |-> content'.kind,
                                                        sig |-> content'.sig]]
        BY <2>1, <2>3 DEF Kept
      <3> QED BY <3>1, <3>2, <3>3 DEF LatestTypes
    <2> QED BY <2>2, <2>3
  <1>4. NextEntry' = NextEntry /\ NextEntry \in 1..Inherited /\ pending # {}
    <2>1. NextEntry \in pending
      BY <1>1, NextIsFirst
    <2>2. NextEntry' = NextEntry
      BY <1>1 DEF NextEntry
    <2> QED BY <2>1, <2>2 DEF GroupInv
  <1>5. \/ UNCHANGED <<out, silent>> /\ pc' = "wait"
        \/ silent' = silent \cup {NextEntry} /\ out' = out /\ pc' = "ack"
        \/ /\ Due(content', latest') /\ silent' = silent /\ pc' = "publish"
           /\ LET score == Compute(latest', leadLag)
              IN  out' = [score |-> score, label |-> Classify(score),
                          alert |-> CheckAlert(latest', score)]
    BY DEF Process
  <1>6. silent' \subseteq 1..Inherited /\ silent \subseteq silent'
    BY <1>4, <1>5 DEF GroupInv
  <1>7. out'.label \in Labels /\ out'.alert \in BOOLEAN /\ AlertIsStrong'
    <2>1. CASE out' = out
      BY <2>1 DEF TypeOK, AlertIsStrong
    <2>2. CASE /\ Due(content', latest')
               /\ LET score == Compute(latest', leadLag)
                  IN  out' = [score |-> score, label |-> Classify(score),
                              alert |-> CheckAlert(latest', score)]
      <3>1. PICK all : all = latest'
        OBVIOUS
      <3>2. PICK n, d : Compute(all, leadLag) = <<n, d>>
        BY DEF Compute
      <3>3. out' = [score |-> <<n, d>>, label |-> Classify(<<n, d>>),
                    alert |-> CheckAlert(all, <<n, d>>)]
        BY <2>2, <3>1, <3>2
      <3>4. all \in LatestTypes /\ leadLag \in LeadLagTypes
        BY <1>3, <3>1 DEF TypeOK, LeadLagTypes
      <3>5. Known(all) # {}
        BY <2>2, <3>1, FS_EmptySet DEF Due
      <3>6. Classify(<<n, d>>) \in Labels /\ CheckAlert(all, <<n, d>>) \in BOOLEAN
        BY DEF Classify, Labels, CheckAlert
      <3>7. AlertIsStrong'
        BY <3>2, <3>3, <3>4, <3>5, AlertLabel DEF AlertIsStrong
      <3> QED BY <3>3, <3>6, <3>7
    <2> QED BY <1>5, <2>1, <2>2
  <1>8. TypeOK'
    BY <1>1, <1>2, <1>3, <1>6, <1>7 DEF TypeOK, LatestTypes
  <1>9. GroupInv'
    BY <1>1, <1>4, <1>6 DEF GroupInv
  <1>10. BatchInv'
    BY <1>1 DEF BatchInv
  <1>11. HandInv'
    BY <1>4, <1>5 DEF HandInv
  <1> QED BY <1>7, <1>8, <1>9, <1>10, <1>11

\* An output is published, or may have been (_process_signal, _consume_loop).
LEMMA PublishKeeps ==
  ASSUME ConfluenceInv, Publish \/ PublishFails
  PROVE  ConfluenceInv'
  <1> USE ConfluenceAssumption DEF ConfluenceAssumption, ConfluenceInv
  <1>1. /\ UNCHANGED <<sent, pending, textual, last, batch, content, latest, leadLag, silent,
                       tests, restarts>>
        /\ pc = "publish" /\ out' = Silence /\ fails' \in 0..MaxFails
        /\ \/ pc' = "ack" /\ told' = told \cup {NextEntry}
           \/ pc' = "wait" /\ told' \in {told, told \cup {NextEntry}}
    BY DEF Publish, PublishFails, AfterRaise, group, TypeOK
  <1>2. NextEntry' = NextEntry /\ NextEntry \in 1..Inherited
    <2>1. NextEntry \in pending
      BY <1>1, NextIsFirst
    <2>2. NextEntry' = NextEntry
      BY <1>1 DEF NextEntry
    <2> QED BY <2>1, <2>2 DEF GroupInv
  <1>3. told' \subseteq 1..Inherited /\ told \subseteq told'
    BY <1>1, <1>2 DEF GroupInv
  <1>4. TypeOK' /\ AlertIsStrong'
    BY <1>1, <1>3 DEF TypeOK, AlertIsStrong, Silence, Labels
  <1>5. GroupInv'
    BY <1>1, <1>3 DEF GroupInv
  <1>6. BatchInv' /\ HandInv'
    BY <1>1, <1>2 DEF BatchInv, HandInv
  <1> QED BY <1>4, <1>5, <1>6

\* An entry is acknowledged, or may have been (_consume_loop).
LEMMA AckKeeps ==
  ASSUME ConfluenceInv, Ack \/ AckFails
  PROVE  ConfluenceInv'
  <1> USE ConfluenceAssumption DEF ConfluenceAssumption, ConfluenceInv
  <1>1. /\ NextEntry \in batch /\ NextEntry \in pending /\ NextEntry \in told \cup silent
        /\ \A n \in pending : NextEntry <= n
    BY NextIsFirst DEF Ack, AckFails, HandInv
  <1>2. UNCHANGED <<sent, textual, latest, leadLag, out, told, silent, tests, restarts>>
    BY DEF Ack, AckFails, engine, history
  <1>3. \/ pending' = pending /\ content' = content
        \/ pending' = pending \ {NextEntry} /\ content' = Unread
    BY DEF Ack, AckFails
  <1>4. \/ /\ last' = NextEntry /\ batch' = batch \ {NextEntry} /\ fails' = fails
           /\ pending' = pending \ {NextEntry}
           /\ pc' = IF batch' = {} THEN "read" ELSE "entry"
        \/ last' = last /\ batch' = batch /\ pc' = "wait" /\ fails' \in 0..MaxFails
    BY DEF Ack, AckFails, history, TypeOK
  <1>5. pending \subseteq 1..MaxEntries /\ pending \subseteq Nat
    BY DEF TypeOK
  <1>6. TypeOK'
    <2>1. pending' \in SUBSET (1..MaxEntries) /\ content' \in Contents \cup {Unread}
      BY <1>3 DEF TypeOK
    <2>2. last' \in 0..MaxEntries /\ batch' \in SUBSET (1..MaxEntries)
      <3>1. NextEntry \in 0..MaxEntries
        BY <1>1, <1>5
      <3>2. last \in 0..MaxEntries /\ batch \in SUBSET (1..MaxEntries)
        BY DEF TypeOK
      <3> QED BY <1>4, <3>1, <3>2
    <2>3. pc' \in {"read", "entry", "publish", "ack", "wait"}
      BY <1>4
    <2>4. fails' \in 0..MaxFails
      BY <1>4 DEF TypeOK
    <2> QED BY <1>2, <2>1, <2>2, <2>3, <2>4 DEF TypeOK
  <1>7. GroupInv'
    <2>1. pending' \subseteq pending /\ told \cup silent \subseteq 1..Inherited
      BY <1>3 DEF GroupInv
    <2>2. ASSUME NEW n \in 1..Inherited \ pending', NEW m \in pending'
          PROVE  n \in told \cup silent /\ n < m
      <3>1. CASE n \in pending
        <4>1. n = NextEntry /\ m \in pending /\ m # NextEntry
          BY <1>3, <2>2, <3>1
        <4> QED BY <1>1, <1>5, <4>1
      <3>2. CASE n \notin pending
        BY <2>1, <2>2, <3>2 DEF GroupInv
      <3> QED BY <3>1, <3>2
    <2>3. ASSUME NEW n \in 1..Inherited \ pending' PROVE n \in told \cup silent
      BY <1>1, <1>3 DEF GroupInv
    <2>4. ASSUME NEW m \in pending' PROVE last' < m
      <3>1. CASE last' = last
        BY <2>1, <2>4, <3>1 DEF GroupInv
      <3>2. CASE last' = NextEntry /\ pending' = pending \ {NextEntry}
        BY <1>1, <1>5, <2>4, <3>2
      <3> QED BY <1>4, <3>1, <3>2
    <2>5. content' # Unread => pending' # {}
      BY <1>3 DEF GroupInv
    <2> QED BY <1>2, <2>1, <2>2, <2>3, <2>4, <2>5 DEF GroupInv
  <1>8. BatchInv'
    <2> SUFFICES ASSUME pc' = "entry"
                 PROVE  /\ batch' # {} /\ batch' \subseteq pending'
                        /\ \A n \in batch' : \A m \in pending' \ batch' : n < m
      BY <1>4 DEF BatchInv
    <2>1. /\ batch' = batch \ {NextEntry} /\ pending' = pending \ {NextEntry} /\ batch' # {}
          /\ pc = "ack"
      BY <1>4 DEF Ack, AckFails
    <2> QED BY <2>1 DEF BatchInv
  <1>9. HandInv' /\ AlertIsStrong'
    BY <1>2, <1>4 DEF HandInv, AlertIsStrong
  <1> QED BY <1>6, <1>7, <1>8, <1>9

\* The rest of the steps leave the group and the entries done as they are.
LEMMA OthersKeep ==
  ASSUME ConfluenceInv, Wait \/ XAdd \/ Granger \/ Restart \/ UNCHANGED vars
  PROVE  ConfluenceInv'
  <1> USE ConfluenceAssumption
      DEF ConfluenceAssumption, ConfluenceInv, group, loop, engine, history
  <1>1. CASE Wait
    <2>1. TypeOK'
      BY <1>1 DEF Wait, TypeOK
    <2> QED BY <1>1, <2>1 DEF Wait, GroupInv, BatchInv, HandInv, AlertIsStrong
  <1>2. CASE XAdd
    <2>1. TypeOK'
      BY <1>2 DEF XAdd, TypeOK
    <2> QED BY <1>2, <2>1 DEF XAdd, GroupInv, BatchInv, HandInv, NextEntry, AlertIsStrong
  <1>3. CASE Granger
    <2>1. TypeOK'
      <3>1. leadLag' \in LeadLagTypes
        BY <1>3 DEF Granger, TypeOK, LeadLagTypes
      <3> QED BY <1>3, <3>1 DEF Granger, TypeOK, LeadLagTypes
    <2> QED BY <1>3, <2>1 DEF Granger, GroupInv, BatchInv, HandInv, NextEntry, AlertIsStrong
  <1>4. CASE Restart
    <2>1. TypeOK'
      BY <1>4 DEF Restart, Fresh, TypeOK, Silence, Labels
    <2>2. GroupInv'
      <3>1. /\ last' = 0 /\ pending \subseteq 1..Inherited
            /\ UNCHANGED <<pending, content, told, silent>>
        BY <1>4 DEF Restart, Fresh, GroupInv
      <3> QED BY <3>1 DEF GroupInv
    <2> QED BY <1>4, <2>1, <2>2 DEF Restart, Fresh, BatchInv, HandInv, AlertIsStrong, Silence
  <1>5. CASE UNCHANGED vars
    BY <1>5 DEF vars, TypeOK, GroupInv, BatchInv, HandInv, NextEntry, AlertIsStrong
  <1> QED BY <1>1, <1>2, <1>3, <1>4, <1>5

\* The invariant of every reachable state of the engine.
LEMMA ConfluenceAlways == Spec => []ConfluenceInv
  <1>1. ConfluenceInv /\ [Next]_vars => ConfluenceInv'
    BY ReadStep, ProcessKeeps, PublishKeeps, AckKeeps, OthersKeep DEF Next
  <1> QED BY <1>1, ConfluenceInit, PTL DEF Spec

\* Type correctness: a score of exactly 1 has a label too (_classify_direction).
THEOREM ConfluenceTypeCorrect == Spec => []TypeOK
  <1>1. ConfluenceInv => TypeOK
    BY DEF ConfluenceInv
  <1> QED BY <1>1, ConfluenceAlways, PTL

\* An alert has the label as strong as it, but for the two edges of the half-open
\* ranges, for any sources, signals and classifications (_check_alert).
THEOREM AlertsAreStrong == Spec => []AlertIsStrong
  <1>1. ConfluenceInv => AlertIsStrong
    BY DEF ConfluenceInv
  <1> QED BY <1>1, ConfluenceAlways, PTL

\* Entries are acknowledged in the order of the stream and only when they are done,
\* over any number of failures and restarts (_consume_loop).
THEOREM AcksInOrder == Spec => []AckedInOrder
  <1>1. ConfluenceInv => AckedInOrder
    <2> SUFFICES ASSUME ConfluenceInv PROVE AckedInOrder
      OBVIOUS
    <2> USE DEF ConfluenceInv
    <2>1. ASSUME NEW n \in 1..Inherited \ pending
          PROVE  1..n \subseteq 1..Inherited \ pending /\ n \in told \cup silent
      <3>1. n \in told \cup silent /\ \A m \in pending : n < m
        BY <2>1 DEF GroupInv
      <3> QED BY <2>1, <3>1, ConfluenceAssumption DEF ConfluenceAssumption
    <2>2. ASSUME content.kind = "broken", NEW n \in 1..Inherited \ pending
          PROVE  n < Min(pending)
      <3>1. pending # {} /\ pending \subseteq Nat
        BY <2>2 DEF GroupInv, Unread
      <3>2. \E k \in pending : \A m \in pending : k <= m
        BY <3>1, LeastNat
      <3>3. Min(pending) \in pending
        BY <3>2 DEF Min
      <3> QED BY <2>2, <3>3 DEF GroupInv
    <2> QED BY <2>1, <2>2 DEF AckedInOrder, GroupInv
  <1> QED BY <1>1, ConfluenceAlways, PTL
=============================================================================
