---------------------------- MODULE MemoryProofs ----------------------------
(***************************************************************************)
(* memory_used, for any number of threads and keys: it is the size of what *)
(* is stored, and ensure_memory_available bounds it.  cas is left out: it  *)
(* takes the size of the old item off while the item is still stored.      *)
(***************************************************************************)
EXTENDS StorageProofs, FiniteSetTheorems

\* A leaf that names no prover is for the SMT solver, then for Zenon, then for the
\* SMT solver again.
USE SMTT(25), ZenonT(25), SMTT(26), SMTT(27), SMTT(28)

-----------------------------------------------------------------------------
(* Induction and sums.                                                     *)

\* A set of numbers has a least one.
LEMMA LeastNumber ==
  ASSUME NEW S \in SUBSET Nat, S # {}
  PROVE  \E x \in S : \A y \in S : x <= y
<1>1. IsWellFoundedOn(OpToRel(<, Nat), Nat)
  BY NatLessThanWellFounded, ZenonT(40)
<1>2. PICK x \in S : \A y \in S : ~ (<<y, x>> \in OpToRel(<, Nat))
  BY WFMin, <1>1, ZenonT(40)
<1>3. \A y \in S : ~ (y < x)
  BY <1>2, ZenonT(40) DEF OpToRel
<1>4. QED
  BY <1>3

\* Induction over the subsets of a finite set, one element at a time: what holds
\* of a set once it holds of the set without any one of its elements holds of all.
LEMMA SubsetInduction ==
  ASSUME NEW S, IsFiniteSet(S), NEW Q,
         \A T \in SUBSET S : (\A x \in T : T \ {x} \in Q) => T \in Q
  PROVE  SUBSET S \subseteq Q
<1> DEFINE Bad == (SUBSET S) \ Q
<1> SUFFICES ASSUME Bad # {} PROVE FALSE
  BY ZenonT(40)
<1>1. IsWellFoundedOn(StrictSubsetOrdering(S), SUBSET S)
  <2>1. IsWellFoundedOn(StrictSubsetOrdering(S), FiniteSubsetsOf(S))
    BY FS_StrictSubsetOrderingWellFounded, ZenonT(40)
  <2>2. FiniteSubsetsOf(S) = SUBSET S
    BY FS_FiniteSubsetsOfFinite, ZenonT(40)
  <2>3. QED
    BY <2>1, <2>2, ZenonT(40)
<1>2. Bad \subseteq SUBSET S
  BY ZenonT(40)
<1> HIDE DEF Bad
<1>3. PICK T \in Bad : \A U \in Bad : ~ (<<U, T>> \in StrictSubsetOrdering(S))
  BY <1>1, <1>2, WFMin, ZenonT(40)
<1>4. ASSUME NEW x \in T PROVE T \ {x} \in Q
  <2>1. T \in SUBSET S /\ T \ {x} \in SUBSET S /\ T \ {x} \subseteq T /\ T \ {x} # T
    BY <1>2, <1>3, ZenonT(40)
  <2>2. <<T \ {x}, T>> \in StrictSubsetOrdering(S)
    BY <2>1, ZenonT(40) DEF StrictSubsetOrdering
  <2>3. QED
    BY <1>3, <2>1, <2>2, ZenonT(40) DEF Bad
<1>5. QED
  BY <1>3, <1>4, ZenonT(40) DEF Bad

\* SumFunction takes the elements one by one: the next one, the equation of the
\* function on the subsets that it defines, and the solutions of this equation.
Pick(s) == CHOOSE x \in s : TRUE
SumStep(f, g, s) == IF s = {} THEN 0 ELSE f[Pick(s)] + g[s \ {Pick(s)}]
Partial(f, S) ==
  {g \in [SUBSET S -> Int] : \A s \in SUBSET S : g[s] = SumStep(f, g, s)}

\* The next element is one of the elements.
LEMMA PickIn == \A s : s # {} => Pick(s) \in s
  BY ZenonT(40) DEF Pick

\* Two solutions agree where both are defined.
LEMMA PartialUnique ==
  ASSUME NEW S, IsFiniteSet(S), NEW f, NEW T \in SUBSET S, NEW U \in SUBSET S,
         NEW g \in Partial(f, T), NEW h \in Partial(f, U)
  PROVE  \A s \in SUBSET (T \cap U) : g[s] = h[s]
<1> DEFINE Q == {s \in SUBSET (T \cap U) : g[s] = h[s]}
<1>1. ASSUME NEW s \in SUBSET (T \cap U), \A x \in s : s \ {x} \in Q
      PROVE  s \in Q
  <2>1. g[s] = SumStep(f, g, s) /\ h[s] = SumStep(f, h, s)
    BY ZenonT(40) DEF Partial
  <2>2. QED
    BY <1>1, <2>1, PickIn, ZenonT(40) DEF SumStep
<1>2. IsFiniteSet(T \cap U)
  BY FS_Subset, ZenonT(40)
<1> HIDE DEF Q
<1> DEFINE I == T \cap U
<1>3. IsFiniteSet(I) /\ \A s \in SUBSET I : (\A x \in s : s \ {x} \in Q) => s \in Q
  BY <1>1, <1>2, ZenonT(40)
<1> HIDE DEF I
<1>a. SUBSET I \subseteq Q
  BY <1>3, SubsetInduction, ZenonT(40)
<1>4. QED
  BY <1>a, ZenonT(40) DEF Q, I

\* There is a solution for every finite set.
LEMMA PartialExists ==
  ASSUME NEW S, IsFiniteSet(S), NEW f \in [S -> Int]
  PROVE  \A T \in SUBSET S : Partial(f, T) # {}
<1> DEFINE Q == {T \in SUBSET S : \A s \in SUBSET T : Partial(f, s) # {}}
           Val(s) == (CHOOSE g \in Partial(f, s) : TRUE)[s]
<1>1. ASSUME NEW T \in SUBSET S, \A x \in T : T \ {x} \in Q
      PROVE  T \in Q
  <2>1. \A s \in SUBSET T : s # T => Partial(f, s) # {}
    BY <1>1, ZenonT(40)
  <2> DEFINE G == [s \in SUBSET T |->
                     IF s = {} THEN 0
                     ELSE IF s = T THEN f[Pick(T)] + Val(T \ {Pick(T)}) ELSE Val(s)]
  <2>2. \A s \in SUBSET T : s # T => (CHOOSE g \in Partial(f, s) : TRUE) \in Partial(f, s)
    BY <2>1, ZenonT(40)
  <2>3. \A s \in SUBSET T : s # T => Val(s) \in Int
    BY <2>2, ZenonT(40) DEF Partial
  <2>4. \A s \in SUBSET T : s # {} => Pick(s) \in s /\ f[Pick(s)] \in Int
    BY PickIn, ZenonT(40)
  <2>5. ASSUME NEW s \in SUBSET T, s # {}, s # T
        PROVE  Val(s) = f[Pick(s)] + Val(s \ {Pick(s)})
    <3> DEFINE g == CHOOSE g \in Partial(f, s) : TRUE
               r == s \ {Pick(s)}
               h == CHOOSE h \in Partial(f, r) : TRUE
    <3>1. g \in Partial(f, s) /\ h \in Partial(f, r)
      BY <2>2, <2>4, <2>5, ZenonT(40)
    <3>2. g[s] = f[Pick(s)] + g[r]
      BY <2>5, <3>1, ZenonT(40) DEF Partial, SumStep
    <3>3. g[r] = h[r]
      <4> HIDE DEF g, h, r
      <4>1. s \in SUBSET S /\ r \in SUBSET S /\ r \in SUBSET (s \cap r)
        BY ZenonT(40) DEF r
      <4>2. QED
        BY <3>1, <4>1, PartialUnique
    <3>4. QED
      BY <3>2, <3>3, ZenonT(40)
  <2>6. Val({}) = 0 \/ T = {}
    BY <2>2, ZenonT(40) DEF Partial, SumStep
  <2> HIDE DEF Val
  <2>7. G \in [SUBSET T -> Int]
    BY <2>3, <2>4
  <2>8. ASSUME NEW s \in SUBSET T PROVE G[s] = SumStep(f, G, s)
    <3>1. CASE s = {}
      BY <3>1, ZenonT(40) DEF SumStep
    <3>2. CASE s # {}
      <4> DEFINE r == s \ {Pick(s)}
      <4>1. r \in SUBSET T /\ r # T /\ G[r] = Val(r)
        BY <3>2, <2>4, <2>6, ZenonT(40)
      <4>2. G[s] = f[Pick(s)] + Val(r)
        BY <3>2, <2>5, ZenonT(40)
      <4>3. QED
        BY <3>2, <4>1, <4>2, ZenonT(40) DEF SumStep
    <3>3. QED
      BY <3>1, <3>2, ZenonT(40)
  <2>9. Partial(f, T) # {}
    <3> HIDE DEF G
    <3>1. QED
      BY <2>7, <2>8, ZenonT(40) DEF Partial
  <2>10. QED
    BY <2>1, <2>9, ZenonT(40)
<1> HIDE DEF Q
<1>2. SUBSET S \subseteq Q
  BY <1>1, SubsetInduction, ZenonT(40)
<1>3. QED
  BY <1>2, ZenonT(40) DEF Q

\* SumFunction, with its recursive function spelled out.
SumOn(f, S) == (CHOOSE g : g = [s \in SUBSET S |-> SumStep(f, g, s)])[S]

\* SumOn is SumFunction.
LEMMA SumFunctionIs == \A f : SumFunction(f) = SumOn(f, DOMAIN f)
  BY ZenonT(40) DEF SumFunction, SumFunctionOnSet, FoldFunctionOnSet, MapThenFoldSet,
        SumOn, SumStep, Pick

\* A sum is the value of a solution at the whole set.
LEMMA SumPartial ==
  ASSUME NEW S, IsFiniteSet(S), NEW f \in [S -> Int]
  PROVE  \E g \in Partial(f, S) : SumFunction(f) = g[S]
<1> DEFINE P(g) == g = [s \in SUBSET S |-> SumStep(f, g, s)]
           h == CHOOSE g : P(g)
<1>1. PICK g : g \in Partial(f, S)
  BY PartialExists, ZenonT(40)
<1>2. P(g)
  BY <1>1, ZenonT(40) DEF Partial
<1>3. P(h)
  BY <1>2, ZenonT(40)
<1>4. SumFunction(f) = h[S]
  BY SumFunctionIs, ZenonT(40) DEF SumOn
<1> HIDE DEF h
<1>5. DOMAIN h = SUBSET S /\ \A s \in SUBSET S : h[s] = SumStep(f, h, s)
  BY <1>3, ZenonT(40)
<1> DEFINE Q == {s \in SUBSET S : h[s] \in Int}
<1>6. ASSUME NEW s \in SUBSET S, \A x \in s : s \ {x} \in Q
      PROVE  s \in Q
  <2>1. CASE s = {}
    <3>1. h[s] = 0
      BY <1>5, <2>1, ZenonT(40) DEF SumStep
    <3>2. QED
      BY <3>1
  <2>2. CASE s # {}
    <3>1. Pick(s) \in s /\ Pick(s) \in S
      BY <2>2, PickIn, ZenonT(40)
    <3>2. h[s \ {Pick(s)}] \in Int
      BY <1>6, <3>1, ZenonT(40)
    <3>3. h[s] = f[Pick(s)] + h[s \ {Pick(s)}]
      BY <1>5, <2>2, ZenonT(40) DEF SumStep
    <3>4. QED
      BY <3>1, <3>2, <3>3
  <2>3. QED
    BY <2>1, <2>2, ZenonT(40)
<1> HIDE DEF Q
<1>7. SUBSET S \subseteq Q
  BY <1>6, SubsetInduction, ZenonT(40)
<1>8. h \in Partial(f, S)
  BY <1>3, <1>5, <1>7, ZenonT(40) DEF Partial, Q
<1>9. QED
  BY <1>4, <1>8, ZenonT(40)

\* Changing one value of f changes the sum by the difference.
LEMMA SumChange ==
  ASSUME NEW S, IsFiniteSet(S), NEW f \in [S -> Int], NEW g \in [S -> Int],
         NEW k \in S, \A j \in S : j # k => f[j] = g[j]
  PROVE  SumFunction(g) = SumFunction(f) - f[k] + g[k]
<1>1. PICK F \in Partial(f, S) : SumFunction(f) = F[S]
  BY SumPartial, ZenonT(40)
<1>2. PICK G \in Partial(g, S) : SumFunction(g) = G[S]
  BY SumPartial, ZenonT(40)
<1> DEFINE Q == {s \in SUBSET S : G[s] = IF k \in s THEN F[s] - f[k] + g[k] ELSE F[s]}
<1>3. ASSUME NEW s \in SUBSET S, \A x \in s : s \ {x} \in Q
      PROVE  s \in Q
  <2>1. F[s] = SumStep(f, F, s) /\ G[s] = SumStep(g, G, s)
    BY ZenonT(40) DEF Partial
  <2>2. CASE s = {}
    BY <2>1, <2>2, ZenonT(40) DEF SumStep
  <2>3. CASE s # {}
    <3> DEFINE r == s \ {Pick(s)}
    <3>1. Pick(s) \in s /\ r \in SUBSET S /\ r \in Q
      BY <1>3, <2>3, PickIn, ZenonT(40)
    <3>2. F[s] = f[Pick(s)] + F[r] /\ G[s] = g[Pick(s)] + G[r]
      BY <2>1, <2>3, ZenonT(40) DEF SumStep
    <3>3. /\ F[r] \in Int /\ G[r] \in Int /\ f[Pick(s)] \in Int /\ g[Pick(s)] \in Int
          /\ f[k] \in Int /\ g[k] \in Int
      BY <3>1, ZenonT(40) DEF Partial
    <3>4. G[r] = IF k \in r THEN F[r] - f[k] + g[k] ELSE F[r]
      BY <3>1, ZenonT(40)
    <3>5. CASE Pick(s) = k
      <4>1. k \in s /\ k \notin r
        BY <3>1, <3>5, ZenonT(40)
      <4>2. G[s] = F[s] - f[k] + g[k]
        BY <3>2, <3>3, <3>4, <3>5, <4>1
      <4>3. QED
        BY <4>1, <4>2, ZenonT(40)
    <3>6. CASE Pick(s) # k
      <4>1. (k \in s <=> k \in r) /\ f[Pick(s)] = g[Pick(s)]
        BY <3>1, <3>6, ZenonT(40)
      <4>2. G[s] = IF k \in r THEN F[s] - f[k] + g[k] ELSE F[s]
        BY <3>2, <3>3, <3>4, <4>1
      <4>3. QED
        BY <4>1, <4>2, ZenonT(40)
    <3>7. QED
      BY <3>5, <3>6, ZenonT(40)
  <2>4. QED
    BY <2>2, <2>3, ZenonT(40)
<1> HIDE DEF Q
<1>4. SUBSET S \subseteq Q
  BY <1>3, SubsetInduction, ZenonT(40)
<1>5. QED
  BY <1>1, <1>2, <1>4, ZenonT(40) DEF Q

\* A sum of values between 0 and m.
LEMMA SumBounds ==
  ASSUME NEW S, IsFiniteSet(S), NEW m \in Nat, NEW f \in [S -> 0 .. m]
  PROVE  /\ SumFunction(f) \in Nat
         /\ SumFunction(f) <= Cardinality(S) * m
<1>0. f \in [S -> Int]
  OBVIOUS
<1>1. PICK F \in Partial(f, S) : SumFunction(f) = F[S]
  BY <1>0, SumPartial, ZenonT(40)
<1> DEFINE Q == {s \in SUBSET S : F[s] \in Nat /\ F[s] <= Cardinality(s) * m}
<1>2. ASSUME NEW s \in SUBSET S, \A x \in s : s \ {x} \in Q
      PROVE  s \in Q
  <2>1. F[s] = SumStep(f, F, s)
    BY ZenonT(40) DEF Partial
  <2>2. CASE s = {}
    <3>1. F[s] = 0 /\ Cardinality(s) = 0
      BY <2>1, <2>2, FS_EmptySet, ZenonT(40) DEF SumStep
    <3>2. QED
      BY <3>1
  <2>3. CASE s # {}
    <3> DEFINE r == s \ {Pick(s)}
               n == Cardinality(r)
    <3>1. Pick(s) \in s /\ r \in SUBSET S /\ r \in Q
      BY <1>2, <2>3, PickIn, ZenonT(40)
    <3>2. F[s] = f[Pick(s)] + F[r]
      BY <2>1, <2>3, ZenonT(40) DEF SumStep
    <3>3. IsFiniteSet(s)
      BY FS_Subset, ZenonT(40)
    <3>4. n = Cardinality(s) - 1 /\ n \in Nat /\ Cardinality(s) \in Nat
      BY <3>1, <3>3, FS_RemoveElement, FS_CardinalityType, ZenonT(40)
    <3>5. F[r] \in Nat /\ F[r] <= n * m /\ f[Pick(s)] \in 0 .. m
      BY <3>1, ZenonT(40)
    <3> HIDE DEF n, r
    <3>6. Cardinality(s) * m = n * m + m /\ n * m \in Nat
      BY <3>4
    <3>7. F[s] \in Nat /\ F[s] <= Cardinality(s) * m
      <4> DEFINE a == n * m
                 b == Cardinality(s) * m
      <4>1. a \in Nat /\ b = a + m /\ F[r] <= a
        BY <3>5, <3>6, ZenonT(40)
      <4> HIDE DEF a, b
      <4>2. F[s] \in Nat /\ F[s] <= b
        BY <3>2, <3>5, <4>1
      <4>3. QED
        BY <4>2, ZenonT(40) DEF b
    <3>8. QED
      BY <3>7, ZenonT(40)
  <2>4. QED
    BY <2>2, <2>3, ZenonT(40)
<1> HIDE DEF Q
<1>3. SUBSET S \subseteq Q
  BY <1>2, SubsetInduction, ZenonT(40)
<1>4. QED
  BY <1>1, <1>3, ZenonT(40) DEF Q

\* The sum of natural numbers is at least each of them, and 0 if all are 0.
LEMMA SumNat ==
  ASSUME NEW S, IsFiniteSet(S), NEW f \in [S -> Nat]
  PROVE  /\ SumFunction(f) \in Nat
         /\ \A k \in S : f[k] <= SumFunction(f)
         /\ (\A k \in S : f[k] = 0) => SumFunction(f) = 0
<1>0. f \in [S -> Int]
  OBVIOUS
<1>1. PICK F \in Partial(f, S) : SumFunction(f) = F[S]
  BY <1>0, SumPartial, ZenonT(40)
<1> DEFINE Q == {s \in SUBSET S : /\ F[s] \in Nat
                                  /\ \A k \in s : f[k] <= F[s]
                                  /\ (\A k \in s : f[k] = 0) => F[s] = 0}
<1>2. ASSUME NEW s \in SUBSET S, \A x \in s : s \ {x} \in Q
      PROVE  s \in Q
  <2>1. F[s] = SumStep(f, F, s)
    BY ZenonT(40) DEF Partial
  <2>2. CASE s = {}
    <3>1. F[s] = 0
      BY <2>1, <2>2, ZenonT(40) DEF SumStep
    <3>2. QED
      BY <3>1, <2>2
  <2>3. CASE s # {}
    <3> DEFINE r == s \ {Pick(s)}
    <3>1. Pick(s) \in s /\ r \in SUBSET S /\ r \in Q
      BY <1>2, <2>3, PickIn, ZenonT(40)
    <3>2. F[s] = f[Pick(s)] + F[r] /\ f[Pick(s)] \in Nat
      BY <2>1, <2>3, <3>1, ZenonT(40) DEF SumStep
    <3>3. /\ F[r] \in Nat /\ \A k \in r : f[k] <= F[r]
          /\ (\A k \in r : f[k] = 0) => F[r] = 0
      BY <3>1, ZenonT(40)
    <3>4. \A k \in s : k = Pick(s) \/ k \in r
      BY ZenonT(40)
    <3>5. \A k \in s : f[k] \in Nat
      BY ZenonT(40)
    <3> HIDE DEF r
    <3>6. F[s] \in Nat /\ \A k \in s : f[k] <= F[s]
      BY <3>2, <3>3, <3>4, <3>5
    <3>7. (\A k \in s : f[k] = 0) => F[s] = 0
      BY <3>1, <3>2, <3>3 DEF r
    <3>8. QED
      BY <3>6, <3>7, ZenonT(40)
  <2>4. QED
    BY <2>2, <2>3, ZenonT(40)
<1> HIDE DEF Q
<1>3. SUBSET S \subseteq Q
  BY <1>2, SubsetInduction, ZenonT(40)
<1>4. QED
  BY <1>1, <1>3, ZenonT(40) DEF Q

-----------------------------------------------------------------------------
(* The memory that is used.                                               *)

\* The larger of max_memory and the largest item.
Limit == IF MaxSize > MaxMemory THEN MaxSize ELSE MaxMemory

\* What the other threads can store after they were admitted.
Slack == (Cardinality(Threads) - 1) * MaxSize

\* The program without cas: finitely many keys and threads, items of bounded
\* size, and an AtomicU64 that holds the most that can be stored.
Bounded ==
  /\ IsFiniteSet(Keys) /\ IsFiniteSet(Threads) /\ "cas" \notin Ops
  /\ \E s \in Sizes : \A r \in Sizes : r <= s
  /\ Limit + Cardinality(Threads) * MaxSize < Word

\* The numbers that Bounded is about.
LEMMA Numbers ==
  ASSUME Bounded
  PROVE  /\ MaxSize \in Nat \ {0} /\ \A r \in Sizes : r <= MaxSize
         /\ Limit \in Nat /\ MaxSize <= Limit /\ MaxMemory <= Limit
         /\ Slack \in Nat /\ Cardinality(Threads) * MaxSize = Slack + MaxSize
         /\ Limit + Slack + MaxSize < Word
<1>1. MaxSize \in Sizes /\ \A r \in Sizes : r <= MaxSize
  BY ZenonT(40) DEF Bounded, MaxSize
<1>2. MaxSize \in Nat \ {0} /\ MaxMemory \in Nat /\ Word \in Nat
  BY <1>1, StorageAssumption, ZenonT(40)
<1>3. Cardinality(Threads) \in Nat \ {0}
  BY FS_CardinalityType, FS_EmptySet, StorageAssumption, ZenonT(40) DEF Bounded
<1> HIDE DEF MaxSize
<1> DEFINE n == Cardinality(Threads)
           m == MaxSize
<1>4. Slack = (n - 1) * m /\ Limit + n * m < Word
  BY ZenonT(40) DEF Bounded, Slack
<1> HIDE DEF n, m
<1>6. Slack \in Nat /\ n * m = Slack + m
  <2>1. n - 1 \in Nat /\ n \in Nat /\ m \in Nat
    BY <1>2, <1>3 DEF n, m
  <2>2. (n - 1) * m \in Nat /\ n * m = (n - 1) * m + m
    BY <2>1, Z3
  <2>3. QED
    BY <1>4, <2>2, ZenonT(40)
<1>7. QED
  BY <1>1, <1>2, <1>4, <1>6 DEF Limit, n, m

-----------------------------------------------------------------------------
(* The invariant.                                                          *)

\* The sizes of the stored items.
SizesOf(items) == [k \in Keys |-> items[k].size]

\* The bytes of a thread that has passed ensure_memory_available and has not yet
\* stored its item.
ClaimOf(label, frame) == IF label \in {"store", "insert"} THEN frame.size ELSE 0

ClaimsOf(labels, frames) == [t \in Threads |-> ClaimOf(labels[t], frames[t])]

Claimed == SumFunction(ClaimsOf(pc, loc))

\* No request is larger than MaxSize, none is a cas, and the item that set
\* carries has the size that was asked for.
Sized ==
  \A t \in Threads : /\ loc[t].size <= MaxSize /\ pc[t] # "cas"
                     /\ Pending(t) => loc[t].item.size = loc[t].size

\* MemoryExact, also for the time between the two updates of set.
Exact ==
  /\ MemoryExact
  /\ \A t \in Threads : pc[t] = "insert" =>
       memory_used = StoredBytes - memory_size(loc[t].key)

\* Whatever was admitted fits, and stays within the bound when it is stored.
Admitted == memory_used + Claimed <= Limit + Slack

MemoryInv == TypeOK /\ Control /\ DataExclusive /\ Sized /\ Exact /\ Admitted

-----------------------------------------------------------------------------
(* Sums over the keys and over the threads.                                *)

\* The bytes of a finite map are a number, no item exceeds them, and an empty
\* map has none.
LEMMA BytesType ==
  ASSUME Bounded, NEW items \in [Keys -> Item]
  PROVE  /\ SumFunction(SizesOf(items)) \in Nat
         /\ \A k \in Keys : /\ items[k].size \in Nat
                            /\ items[k].size <= SumFunction(SizesOf(items))
         /\ (\A k \in Keys : items[k] = NoItem) => SumFunction(SizesOf(items)) = 0
<1> DEFINE f == SizesOf(items)
<1>1. f \in [Keys -> Nat] /\ \A k \in Keys : f[k] = items[k].size
  BY ZenonT(40) DEF SizesOf, Item
<1>2. (\A k \in Keys : items[k] = NoItem) => \A k \in Keys : f[k] = 0
  BY <1>1 DEF NoItem
<1> HIDE DEF f
<1>3. /\ SumFunction(f) \in Nat /\ \A k \in Keys : f[k] <= SumFunction(f)
      /\ (\A k \in Keys : f[k] = 0) => SumFunction(f) = 0
  BY <1>1, SumNat, ZenonT(40) DEF Bounded
<1>4. QED
  BY <1>1, <1>2, <1>3, ZenonT(40) DEF f

\* Writing one key changes the sum by the difference of the two sizes.
LEMMA BytesChange ==
  ASSUME Bounded, NEW items \in [Keys -> Item], NEW k \in Keys, NEW item \in Item
  PROVE  SumFunction(SizesOf([items EXCEPT ![k] = item]))
           = SumFunction(SizesOf(items)) - items[k].size + item.size
<1> DEFINE f == SizesOf(items)
           g == SizesOf([items EXCEPT ![k] = item])
<1>1. f \in [Keys -> Int] /\ f[k] = items[k].size
  BY DEF SizesOf, Item
<1>2. g \in [Keys -> Int] /\ g[k] = item.size
  BY DEF SizesOf, Item
<1>3. \A j \in Keys : j # k => f[j] = g[j]
  BY ZenonT(40) DEF SizesOf
<1> HIDE DEF f, g
<1>4. SumFunction(g) = SumFunction(f) - f[k] + g[k]
  BY <1>1, <1>2, <1>3, SumChange DEF Bounded
<1>5. QED
  BY <1>1, <1>2, <1>4, ZenonT(40) DEF f, g

\* The threads other than t hold at most Slack bytes that were admitted.
LEMMA ClaimsType ==
  ASSUME Bounded, NEW p \in [Threads -> Labels], NEW l \in [Threads -> Frame],
         \A u \in Threads : l[u].size <= MaxSize, NEW t \in Threads
  PROVE  /\ SumFunction(ClaimsOf(p, l)) \in Nat
         /\ ClaimOf(p[t], l[t]) \in Nat
         /\ ClaimOf(p[t], l[t]) <= SumFunction(ClaimsOf(p, l))
         /\ SumFunction(ClaimsOf(p, l)) <= ClaimOf(p[t], l[t]) + Slack
<1> DEFINE f == ClaimsOf(p, l)
           g == [f EXCEPT ![t] = MaxSize]
<1>0. MaxSize \in Nat /\ Cardinality(Threads) * MaxSize = Slack + MaxSize /\ Slack \in Nat
  BY Numbers, ZenonT(40)
<1> HIDE DEF MaxSize, Slack
<1>1. \A u \in Threads : l[u].size \in 0 .. MaxSize
  BY <1>0 DEF Frame
<1>2. f \in [Threads -> 0 .. MaxSize] /\ f[t] = ClaimOf(p[t], l[t])
  BY <1>0, <1>1 DEF ClaimsOf, ClaimOf
<1> HIDE DEF f
<1>3. /\ g \in [Threads -> 0 .. MaxSize] /\ g[t] = MaxSize
      /\ \A j \in Threads : j # t => f[j] = g[j]
  BY <1>0, <1>2
<1>4. f \in [Threads -> Int] /\ g \in [Threads -> Int] /\ f \in [Threads -> Nat]
  BY <1>0, <1>2, <1>3
<1> HIDE DEF g
<1>5. SumFunction(g) <= Cardinality(Threads) * MaxSize
  BY <1>0, <1>3, SumBounds, ZenonT(40) DEF Bounded
<1>6. SumFunction(g) = SumFunction(f) - f[t] + g[t]
  BY <1>3, <1>4, SumChange DEF Bounded
<1>7. SumFunction(f) \in Nat /\ f[t] <= SumFunction(f)
  BY <1>4, SumNat, ZenonT(40) DEF Bounded
<1>8. f[t] \in Nat
  BY <1>4, ZenonT(40)
<1>9. SumFunction(f) <= f[t] + Slack
  BY <1>0, <1>3, <1>5, <1>6, <1>7, <1>8
<1>10. QED
  BY <1>2, <1>7, <1>8, <1>9, ZenonT(40) DEF f

\* A step of t changes the sum by the difference of its own two claims.
LEMMA ClaimsChange ==
  ASSUME Bounded, NEW p \in [Threads -> Labels], NEW l \in [Threads -> Frame],
         NEW q \in [Threads -> Labels], NEW m \in [Threads -> Frame],
         NEW t \in Threads, \A u \in Threads \ {t} : p[u] = q[u] /\ l[u] = m[u]
  PROVE  SumFunction(ClaimsOf(q, m))
           = SumFunction(ClaimsOf(p, l)) - ClaimOf(p[t], l[t]) + ClaimOf(q[t], m[t])
<1> DEFINE f == ClaimsOf(p, l)
           g == ClaimsOf(q, m)
<1>1. f \in [Threads -> Int] /\ f[t] = ClaimOf(p[t], l[t])
  BY DEF ClaimsOf, ClaimOf, Frame
<1>2. g \in [Threads -> Int] /\ g[t] = ClaimOf(q[t], m[t])
  BY DEF ClaimsOf, ClaimOf, Frame
<1>3. \A j \in Threads : j # t => f[j] = g[j]
  BY ZenonT(40) DEF ClaimsOf
<1> HIDE DEF f, g
<1>4. SumFunction(g) = SumFunction(f) - f[t] + g[t]
  BY <1>1, <1>2, <1>3, SumChange DEF Bounded
<1>5. QED
  BY <1>1, <1>2, <1>4, ZenonT(40) DEF f, g

-----------------------------------------------------------------------------
(* What a step of a thread does to the stored bytes and to its claim.      *)

\* Nothing is written and t claims no more than before.
Quiet(t) ==
  /\ UNCHANGED <<data, memory_used>>
  /\ pc[t] # "insert" /\ pc'[t] # "insert"
  /\ pc'[t] = "store" => pc[t] = "store" /\ loc'[t].size = loc[t].size

\* t passes ensure_memory_available: there is room, or nothing left to evict.
Admit(t) ==
  /\ UNCHANGED <<data, memory_used, loc>>
  /\ pc[t] # "insert" /\ pc[t] # "store" /\ pc'[t] = "store"
  /\ \/ ~OverLimit(loc[t].size)
     \/ CanReadData /\ \A k \in Keys : ~Exists(k)

\* An item is removed.
Remove(t) ==
  /\ CanWriteData /\ \E k \in Keys : RemoveItem(k)
  /\ pc'[t] \notin {"store", "insert"}

\* set takes the size of the old item off.
TakeOff(t) ==
  /\ CanWriteData /\ pc[t] = "store" /\ pc'[t] = "insert"
  /\ memory_used' = Wrap(memory_used - memory_size(loc[t].key))
  /\ UNCHANGED <<data, loc>>

\* ... and adds the new one.
Add(t) ==
  /\ pc[t] = "insert" /\ pc'[t] = "record"
  /\ memory_used' = Wrap(memory_used + loc[t].item.size)
  /\ data' = [data EXCEPT ![loc[t].key] = loc[t].item]

\* append extends an item, for which there was room.
Grow(t) ==
  /\ CanWriteData /\ pc'[t] = "record"
  /\ pc[t] = "store" \/ (pc[t] = "append" /\ ~OverLimit(loc[t].size))
  /\ memory_used' = Wrap(memory_used + loc[t].size)
  /\ \E item \in Item : /\ data' = [data EXCEPT ![loc[t].key] = item]
                        /\ item.size = memory_size(loc[t].key) + loc[t].size

\* flush_all.
Clear(t) ==
  /\ pc[t] = "flush_order" /\ pc'[t] = "return"
  /\ memory_used' = 0 /\ data' = [k \in Keys |-> NoItem]

\* find_lru_key finds nothing only when nothing is stored.
LEMMA NothingFound ==
  ASSUME TypeOK, find_lru_key = {}
  PROVE  \A k \in Keys : ~Exists(k)
<1> DEFINE tracked == {k \in Keys : Live(k) /\ access_order[k] # Untracked}
           numbers == {access_order[k] : k \in tracked}
<1>1. \A k \in tracked : access_order[k] \in Nat
  BY ZenonT(40) DEF TypeOK
<1>2. ASSUME tracked # {} PROVE FALSE
  <2>1. PICK n \in numbers : \A m \in numbers : n <= m
    <3>1. numbers \in SUBSET Nat /\ numbers # {}
      BY <1>1, <1>2, ZenonT(40)
    <3> HIDE DEF numbers
    <3>2. QED
      BY <3>1, LeastNumber, ZenonT(40)
  <2>2. PICK k \in tracked : access_order[k] = n
    BY ZenonT(40)
  <2>3. k \in find_lru_key
    BY <1>2, <2>1, <2>2, ZenonT(40) DEF find_lru_key
  <2>4. QED
    BY <2>3, ZenonT(40)
<1>3. QED
  BY <1>2, ZenonT(40) DEF find_lru_key

\* Every step of a thread leaves the accounting alone, or is one of the six
\* moves above.
LEMMA MemoryEffect ==
  ASSUME Bounded, TypeOK, Control, Sized, NEW t \in Threads, Call(t) \/ Step(t)
  PROVE  \/ Quiet(t) \/ Admit(t) \/ Remove(t) \/ TakeOff(t) \/ Add(t) \/ Grow(t)
         \/ Clear(t)
<1> USE DEF Goto, Return, Resume, TypeOK
<1>1. CASE Delete(t) \/ Evict(t)
  BY <1>1, FrameFields, ZenonT(40) DEF Delete, Evict, Remove
<1>2. CASE DeleteOrder(t) \/ EvictOrder(t)
  BY <1>2, ZenonT(40) DEF DeleteOrder, EvictOrder, Quiet
<1>3. CASE Get(t) \/ GetNext(t) \/ GetRecord(t) \/ GetDrop(t)
  BY <1>3, ZenonT(40) DEF Get, GetNext, GetRecord, GetDrop, TakeAccess, EndGet, Quiet
<1>4. CASE Sweep(t) \/ SweepOrder(t) \/ CleanupExpired(t)
  <2>1. CASE pc[t] = "sweep" /\ \E k \in loc[t].stale :
               /\ CanWriteData /\ RemoveItem(k)
               /\ Goto(t, IF Exists(k) THEN "sweep_order" ELSE "sweep")
    BY <2>1, FrameFields, ZenonT(40) DEF Remove
  <2>2. CASE pc[t] = "sweep" /\ EndGet(t) /\ UNCHANGED <<data, memory_used>>
    BY <2>2, ZenonT(40) DEF EndGet, Quiet
  <2>3. CASE SweepOrder(t) \/ CleanupExpired(t)
    BY <2>3, ZenonT(40) DEF SweepOrder, CleanupExpired, Quiet
  <2>4. QED
    BY <1>4, <2>1, <2>2, <2>3, ZenonT(40) DEF Sweep
<1>5. CASE EnsureMemory(t) \/ FindLruOrder(t)
  BY <1>5, ZenonT(40) DEF EnsureMemory, FindLruOrder, Quiet, Admit
<1>6. CASE FindLruScan(t)
  BY <1>6, NothingFound, ZenonT(40) DEF FindLruScan, Quiet, Admit
<1>7. CASE Check(t) \/ SetBuild(t) \/ Record(t)
  BY <1>7, ZenonT(40) DEF Check, SetBuild, Record, Quiet
<1>8. CASE SetLock(t)
  BY <1>8, ZenonT(40) DEF SetLock, TakeOff
<1>9. CASE SetInsert(t)
  BY <1>9, ZenonT(40) DEF SetInsert, InsertItem, TakeAccess, Add
<1>10. CASE Cas(t) \/ CasStore(t)
  BY <1>10, FrameFields, ZenonT(40) DEF Cas, CasStore, Sized, Bounded
<1>11. ASSUME Extend(t), CanWriteData,
              pc[t] = "store" \/ (pc[t] = "append" /\ ~OverLimit(loc[t].size))
       PROVE  Grow(t)
  <2> DEFINE item == [size |-> memory_size(loc[t].key) + loc[t].size,
                      expires |-> data[loc[t].key].expires, cas |-> cas_counter]
  <2>1. item \in Item /\ item.size = memory_size(loc[t].key) + loc[t].size
    BY FrameFields, MemorySizeType DEF Item
  <2>2. data' = [data EXCEPT ![loc[t].key] = item]
    BY <1>11, ZenonT(40) DEF Extend
  <2>3. pc'[t] = "record" /\ memory_used' = Wrap(memory_used + loc[t].size)
    BY <1>11, ZenonT(40) DEF Extend, TakeAccess
  <2> HIDE DEF item
  <2>4. QED
    BY <1>11, <2>1, <2>2, <2>3, ZenonT(40) DEF Grow
<1>12. CASE AppendPrepend(t)
  <2>1. loc[t].key \in Keys
    BY FrameFields, ZenonT(40)
  <2>2. QED
    BY <1>11, <1>12, <2>1, ZenonT(40) DEF AppendPrepend, Quiet, Remove
<1>13. CASE AppendStore(t)
  BY <1>11, <1>13, ZenonT(40) DEF AppendStore, Quiet
<1>14. CASE Flush(t) \/ Done(t)
  BY <1>14, ZenonT(40) DEF Flush, Done, Quiet
<1>15. CASE FlushAll(t)
  BY <1>15, ZenonT(40) DEF FlushAll, Clear
<1>16. CASE Call(t)
  BY <1>16, RequestType, StorageAssumption, ZenonT(40) DEF Call, Entry, AllOps, Quiet
<1>17. QED
  BY <1>1, <1>2, <1>3, <1>4, <1>5, <1>6, <1>7, <1>8, <1>9, <1>10, <1>12, <1>13, ZenonT(40),
     <1>14, <1>15, <1>16 DEF Step

\* Within a call the operation, the size and the item built stay the same.
LEMMA FrameKept ==
  ASSUME TypeOK, NEW t \in Threads, Step(t), ~Done(t), ~SetBuild(t), ~Cas(t)
  PROVE  /\ loc'[t].size = loc[t].size /\ loc'[t].item = loc[t].item
         /\ loc'[t].op = loc[t].op
<1> USE FrameFields DEF TypeOK, Return, Resume, Frame
<1>1. CASE Delete(t)
  BY <1>1 DEF Delete
<1>2. CASE DeleteOrder(t)
  BY <1>2, ZenonT(40) DEF DeleteOrder
<1>3. CASE Evict(t)
  BY <1>3, ZenonT(40) DEF Evict
<1>4. CASE EvictOrder(t)
  BY <1>4, ZenonT(40) DEF EvictOrder
<1>5. CASE Get(t)
  BY <1>5, ZenonT(40) DEF Get
<1>6. CASE GetRecord(t)
  BY <1>6, ZenonT(40) DEF GetRecord
<1>7. CASE GetDrop(t)
  BY <1>7 DEF GetDrop, EndGet
<1>8. CASE SweepOrder(t)
  BY <1>8, ZenonT(40) DEF SweepOrder
<1>9. CASE CleanupExpired(t)
  BY <1>9, ZenonT(40) DEF CleanupExpired
<1>10. CASE EnsureMemory(t)
  BY <1>10, ZenonT(40) DEF EnsureMemory
<1>11. CASE FindLruOrder(t)
  BY <1>11, ZenonT(40) DEF FindLruOrder
<1>12. CASE FindLruScan(t)
  BY <1>12 DEF FindLruScan
<1>13. CASE Check(t)
  BY <1>13 DEF Check
<1>14. CASE SetLock(t)
  BY <1>14, ZenonT(40) DEF SetLock
<1>15. CASE SetInsert(t)
  BY <1>15, ZenonT(40) DEF SetInsert, InsertItem, TakeAccess
<1>16. CASE Record(t)
  BY <1>16, ZenonT(40) DEF Record
<1>17. CASE CasStore(t)
  BY <1>17, ZenonT(40) DEF CasStore, InsertItem, TakeAccess
<1>18. CASE AppendPrepend(t) \/ AppendStore(t)
  <2>1. \/ loc' = loc
        \/ loc' = [loc EXCEPT ![t] = [loc[t] EXCEPT !.status = "NotStored"]]
        \/ loc' = [loc EXCEPT ![t] = [loc[t] EXCEPT !.seq = access_counter,
                                                   !.cur = loc[t].key]]
    BY <1>18, ZenonT(40) DEF AppendPrepend, AppendStore, Extend, TakeAccess
  <2>2. CASE loc' = [loc EXCEPT ![t] = [loc[t] EXCEPT !.status = "NotStored"]]
    BY <2>2, ZenonT(40)
  <2>3. CASE loc' = [loc EXCEPT ![t] = [loc[t] EXCEPT !.seq = access_counter,
                                                    !.cur = loc[t].key]]
    BY <2>3, ZenonT(40)
  <2>4. QED
    BY <2>1, <2>2, <2>3, ZenonT(40)
<1>20. CASE Flush(t)
  BY <1>20, ZenonT(40) DEF Flush
<1>21. CASE FlushAll(t)
  BY <1>21, ZenonT(40) DEF FlushAll
<1>22. CASE Sweep(t)
  <2>1. CASE EndGet(t)
    BY <2>1 DEF EndGet
  <2>2. CASE \E k \in loc[t].stale :
               loc' = [loc EXCEPT ![t] = [loc[t] EXCEPT !.stale = loc[t].stale \ {k},
                                                      !.cur = k]]
    BY <2>2
  <2>3. QED
    BY <1>22, <2>1, <2>2, ZenonT(40) DEF Sweep
<1>23. CASE GetNext(t)
  <2>1. PICK k \in loc[t].keys :
          LET rest == [loc[t] EXCEPT !.keys = @ \ {k}] IN
          \/ loc' = [loc EXCEPT ![t] =
               [[rest EXCEPT !.found = @ \cup {<<k, data[k].cas>>}]
                  EXCEPT !.seq = access_counter, !.cur = k]]
          \/ loc' = [loc EXCEPT ![t] =
                       [rest EXCEPT !.stale = IF Exists(k) THEN @ \cup {k} ELSE @]]
    BY <1>23, ZenonT(40) DEF GetNext, TakeAccess
  <2> DEFINE rest == [loc[t] EXCEPT !.keys = loc[t].keys \ {k}]
             found == rest.found \cup {<<k, data[k].cas>>}
             stale == IF Exists(k) THEN rest.stale \cup {k} ELSE rest.stale
             hit == [rest EXCEPT !.found = found]
  <2>2. /\ rest.size = loc[t].size /\ rest.item = loc[t].item /\ rest.op = loc[t].op
        /\ DOMAIN rest = DOMAIN NoFrame
    BY ZenonT(40) DEF NoFrame
  <2>3. \/ loc'[t] = [hit EXCEPT !.seq = access_counter, !.cur = k]
        \/ loc'[t] = [rest EXCEPT !.stale = stale]
    BY <2>1, ZenonT(40)
  <2> HIDE DEF rest, found, stale
  <2>4. /\ hit.size = rest.size /\ hit.item = rest.item /\ hit.op = rest.op
        /\ DOMAIN hit = DOMAIN NoFrame
    BY <2>2, ZenonT(40) DEF NoFrame
  <2>5. CASE loc'[t] = [rest EXCEPT !.stale = stale]
    BY <2>2, <2>5, ZenonT(40) DEF NoFrame
  <2> HIDE DEF hit
  <2>6. CASE loc'[t] = [hit EXCEPT !.seq = access_counter, !.cur = k]
    BY <2>2, <2>4, <2>6, ZenonT(40) DEF NoFrame
  <2>7. QED
    BY <2>3, <2>5, <2>6, ZenonT(40)
<1>24. QED
  BY <1>1, <1>2, <1>3, <1>4, <1>5, <1>6, <1>7, <1>8, <1>9, <1>10, ZenonT(40),
     <1>11, <1>12, <1>13, <1>14, <1>15, <1>16, <1>17, <1>18, <1>20, <1>21, <1>22,
     <1>23, ZenonT(40) DEF Step

\* A step keeps the sizes: only Call sets the size of a frame, and SetBuild
\* gives it to the item.
LEMMA SizedStep ==
  ASSUME Bounded, TypeOK, Control, Sized, NEW t \in Threads, Call(t) \/ Step(t)
  PROVE  Sized'
<1>1. MaxSize \in Nat \ {0} /\ \A r \in Sizes : r <= MaxSize
  BY Numbers, ZenonT(40)
<1> HIDE DEF MaxSize
<1>2. \A u \in Threads \ {t} : /\ loc'[u].size <= MaxSize /\ pc'[u] # "cas"
                               /\ Pending(u)' => loc'[u].item.size = loc'[u].size
  BY OthersStep, ZenonT(40) DEF Sized, Pending
<1>3. /\ loc'[t].size <= MaxSize /\ pc'[t] # "cas"
      /\ Pending(t)' => loc'[t].item.size = loc'[t].size
  <2>1. CASE Call(t)
    <3>1. PICK r \in Requests :
            /\ pc'[t] = Entry(r.op)
            /\ loc'[t] = [NoFrame EXCEPT !.op = r.op, !.key = r.key, !.keys = r.keys,
                            !.size = r.size, !.ttl = r.ttl, !.token = r.token]
      BY <2>1, ZenonT(40) DEF Call, Goto, TypeOK
    <3>2. loc'[t].size = r.size /\ r.size \in Sizes \cup {0}
      BY <3>1, ZenonT(40) DEF NoFrame, Requests
    <3>3. r.op \in AllOps \ {"cas"}
      BY RequestType, StorageAssumption, ZenonT(40) DEF Bounded
    <3>4. QED
      BY <1>1, <3>1, <3>2, <3>3 DEF Entry, AllOps, Pending
  <2>2. CASE Done(t)
    BY <1>1, <2>2 DEF Done, Goto, TypeOK, NoFrame, Pending
  <2>3. CASE SetBuild(t)
    <3>1. loc'[t] = [loc[t] EXCEPT !.item = NewItem(t)] /\ pc'[t] = "ensure"
      BY <2>3, ZenonT(40) DEF SetBuild, Goto, TypeOK
    <3>2. loc'[t].size = loc[t].size /\ loc'[t].item = NewItem(t)
      BY <3>1, FrameFields, ZenonT(40) DEF Frame
    <3>3. QED
      BY <3>1, <3>2 DEF NewItem, Sized
  <2>4. CASE Step(t) /\ ~Done(t) /\ ~SetBuild(t)
    <3>1. /\ loc'[t].size = loc[t].size /\ pc'[t] # "cas"
          /\ Pending(t)' => Pending(t) /\ loc'[t].item = loc[t].item
      <4>1. ~Cas(t) /\ ~CasStore(t)
        BY FrameFields, ZenonT(40) DEF Cas, CasStore, Sized, Bounded
      <4>2. /\ loc'[t].size = loc[t].size /\ loc'[t].item = loc[t].item
            /\ loc'[t].op = loc[t].op
        BY <2>4, <4>1, FrameKept, ZenonT(40)
      <4>3. /\ pc'[t] # "cas"
            /\ Pending(t)' => Pending(t)
        <5> USE DEF Goto, Return, Resume, TypeOK, Pending
        <5>1. CASE Delete(t) \/ DeleteOrder(t) \/ Evict(t) \/ EvictOrder(t)
          BY <4>2, <5>1, ZenonT(40) DEF Delete, DeleteOrder, Evict, EvictOrder
        <5>2. CASE Get(t) \/ GetNext(t) \/ GetRecord(t) \/ GetDrop(t)
          BY <5>2, ZenonT(40) DEF Get, GetNext, GetRecord, GetDrop, TakeAccess, EndGet
        <5>3. CASE Sweep(t) \/ SweepOrder(t) \/ CleanupExpired(t)
          BY <5>3, ZenonT(40) DEF Sweep, SweepOrder, CleanupExpired, EndGet
        <5>4. CASE EnsureMemory(t) \/ FindLruOrder(t) \/ FindLruScan(t)
          BY <4>2, <5>4, ZenonT(40) DEF EnsureMemory, FindLruOrder, FindLruScan
        <5>5. CASE Check(t) \/ SetLock(t) \/ SetInsert(t) \/ Record(t)
          BY <4>2, <5>5, ZenonT(40) DEF Check, SetLock, SetInsert, Record, InsertItem, TakeAccess
        <5>6. CASE AppendPrepend(t) \/ AppendStore(t)
          BY <4>2, <5>6, ZenonT(40) DEF AppendPrepend, AppendStore, Extend, TakeAccess, Control
        <5>7. CASE Flush(t) \/ FlushAll(t)
          BY <5>7, ZenonT(40) DEF Flush, FlushAll
        <5>8. QED
          BY <2>4, <4>1, <5>1, <5>2, <5>3, <5>4, <5>5, <5>6, <5>7, ZenonT(40) DEF Step
      <4>4. QED
        BY <4>2, <4>3, ZenonT(40)
    <3>2. QED
      BY <3>1, ZenonT(40) DEF Sized
  <2>5. QED
    BY <2>1, <2>2, <2>3, <2>4, ZenonT(40)
<1>4. \A u \in Threads : /\ loc'[u].size <= MaxSize /\ pc'[u] # "cas"
                         /\ Pending(u)' => loc'[u].item.size = loc'[u].size
  BY <1>2, <1>3, ZenonT(40)
<1>5. QED
  BY <1>4, ZenonT(40) DEF Sized

-----------------------------------------------------------------------------
(* The invariant is preserved.                                             *)

\* The arithmetic of the code is exact where nothing over- or underflows.
LEMMA WrapExact ==
  ASSUME NEW n \in Nat, n < Word
  PROVE  Wrap(n) = n
  BY StorageAssumption DEF Wrap

\* The numbers of a state, and of the state after a step of t.
LEMMA StepNumbers ==
  ASSUME Bounded, MemoryInv, NEW t \in Threads, Call(t) \/ Step(t)
  PROVE  /\ Claimed \in Nat /\ Claimed' \in Nat
         /\ ClaimOf(pc[t], loc[t]) \in Nat /\ ClaimOf(pc'[t], loc'[t]) \in Nat
         /\ ClaimOf(pc[t], loc[t]) <= Claimed
         /\ Claimed' <= ClaimOf(pc'[t], loc'[t]) + Slack
         /\ Claimed' = Claimed - ClaimOf(pc[t], loc[t]) + ClaimOf(pc'[t], loc'[t])
         /\ loc[t].size \in Nat /\ loc[t].size <= MaxSize
         /\ memory_used \in Nat /\ memory_used <= Limit + Slack
<1>1. /\ pc \in [Threads -> Labels] /\ loc \in [Threads -> Frame]
      /\ \A u \in Threads : loc[u].size <= MaxSize
  BY ZenonT(40) DEF MemoryInv, TypeOK, Sized
<1>2. TypeOK' /\ Sized'
  BY TypeStep, SizedStep, ZenonT(40) DEF MemoryInv, Next
<1>3. /\ pc' \in [Threads -> Labels] /\ loc' \in [Threads -> Frame]
      /\ \A u \in Threads : loc'[u].size <= MaxSize
  BY <1>2, ZenonT(40) DEF TypeOK, Sized
<1>4. \A u \in Threads \ {t} : pc[u] = pc'[u] /\ loc[u] = loc'[u]
  BY OthersStep, ZenonT(40) DEF MemoryInv
<1> DEFINE p == pc
           l == loc
           q == pc'
           m == loc'
<1>5. /\ p \in [Threads -> Labels] /\ l \in [Threads -> Frame]
      /\ q \in [Threads -> Labels] /\ m \in [Threads -> Frame]
      /\ \A u \in Threads : l[u].size <= MaxSize
      /\ \A u \in Threads : m[u].size <= MaxSize
      /\ \A u \in Threads \ {t} : p[u] = q[u] /\ l[u] = m[u]
  BY <1>1, <1>3, <1>4, ZenonT(40)
<1>6. /\ Claimed = SumFunction(ClaimsOf(p, l))
      /\ Claimed' = SumFunction(ClaimsOf(q, m))
  BY ZenonT(40) DEF Claimed
<1>7. loc[t].size \in Nat /\ loc[t].size <= MaxSize
  BY <1>1, ZenonT(40) DEF Frame
<1> HIDE DEF p, l, q, m
<1>8. /\ SumFunction(ClaimsOf(p, l)) \in Nat
      /\ ClaimOf(p[t], l[t]) \in Nat
      /\ ClaimOf(p[t], l[t]) <= SumFunction(ClaimsOf(p, l))
  BY <1>5, ClaimsType, ZenonT(40)
<1>9. /\ SumFunction(ClaimsOf(q, m)) \in Nat
      /\ ClaimOf(q[t], m[t]) \in Nat
      /\ SumFunction(ClaimsOf(q, m)) <= ClaimOf(q[t], m[t]) + Slack
  BY <1>5, ClaimsType, ZenonT(40)
<1>10. SumFunction(ClaimsOf(q, m))
         = SumFunction(ClaimsOf(p, l)) - ClaimOf(p[t], l[t]) + ClaimOf(q[t], m[t])
  BY <1>5, ClaimsChange
<1>11. memory_used \in Nat /\ memory_used + Claimed <= Limit + Slack
  BY StorageAssumption DEF MemoryInv, TypeOK, Admitted
<1>12. Limit \in Nat /\ Slack \in Nat /\ Claimed \in Nat
  BY <1>6, <1>8, Numbers, ZenonT(40)
<1>13. memory_used <= Limit + Slack
  BY <1>11, <1>12
<1>14. QED
  BY <1>6, <1>7, <1>8, <1>9, <1>10, <1>11, <1>13, ZenonT(40) DEF p, l, q, m

\* ensure_memory_available has found room: the item fits below max_memory.
LEMMA Room ==
  ASSUME Bounded, MemoryInv, NEW t \in Threads, Call(t) \/ Step(t),
         ~OverLimit(loc[t].size)
  PROVE  memory_used + loc[t].size <= Limit
<1>1. /\ memory_used \in Nat /\ loc[t].size \in Nat
      /\ memory_used <= Limit + Slack /\ loc[t].size <= MaxSize
  BY StepNumbers, ZenonT(40)
<1>2. /\ Limit \in Nat /\ Slack \in Nat /\ MaxSize \in Nat /\ MaxMemory <= Limit
      /\ Limit + Slack + MaxSize < Word /\ Word \in Nat /\ MaxMemory \in Nat
  BY Numbers, StorageAssumption, ZenonT(40)
<1> HIDE DEF Limit, Slack, MaxSize
<1>3. memory_used + loc[t].size \in Nat /\ memory_used + loc[t].size < Word
  BY <1>1, <1>2
<1>4. Wrap(memory_used + loc[t].size) = memory_used + loc[t].size
  BY <1>3, WrapExact, ZenonT(40)
<1>5. QED
  BY <1>1, <1>2, <1>3, <1>4 DEF OverLimit

\* StoredBytes is the sum over the sizes, before and after a step.
LEMMA StoredBytesIs ==
  StoredBytes = SumFunction(SizesOf(data)) /\ StoredBytes' = SumFunction(SizesOf(data'))
  BY ZenonT(40) DEF StoredBytes, SizesOf, memory_size

\* A writer of `data` finds nobody between the two updates of set.
LEMMA NobodyInserts ==
  ASSUME MemoryInv, CanReadData
  PROVE  (\A u \in Threads : pc[u] # "insert") /\ memory_used = StoredBytes
  BY ZenonT(40) DEF MemoryInv, Exact, MemoryExact, CanReadData, HoldsDataWrite

\* A step of t keeps memory_used exact, and what was admitted within the bound.
LEMMA MemoryStep ==
  ASSUME Bounded, MemoryInv, NEW t \in Threads, Call(t) \/ Step(t)
  PROVE  Exact' /\ Admitted'
<1> DEFINE B == SumFunction(SizesOf(data))
           N == SumFunction(SizesOf(data'))
           c == ClaimOf(pc[t], loc[t])
           d == ClaimOf(pc'[t], loc'[t])
           size == loc[t].size
           key == loc[t].key
<1>1. /\ Claimed \in Nat /\ Claimed' \in Nat /\ c \in Nat /\ d \in Nat /\ c <= Claimed
      /\ Claimed' <= d + Slack /\ Claimed' = Claimed - c + d
      /\ size \in Nat /\ size <= MaxSize
      /\ memory_used \in Nat /\ memory_used <= Limit + Slack
  BY StepNumbers, ZenonT(40)
<1>2. /\ Limit \in Nat /\ Slack \in Nat /\ MaxSize \in Nat /\ MaxSize <= Limit
      /\ Limit + Slack + MaxSize < Word /\ Word \in Nat
  BY Numbers, StorageAssumption, ZenonT(40)
<1>3. memory_used + Claimed <= Limit + Slack
  BY ZenonT(40) DEF MemoryInv, Admitted
<1>4. \A u \in Threads \ {t} : pc'[u] = pc[u] /\ loc'[u] = loc[u]
  BY OthersStep, ZenonT(40) DEF MemoryInv
<1>5. data \in [Keys -> Item] /\ key \in Keys /\ data[key] \in Item
  BY FrameFields, ZenonT(40) DEF MemoryInv, TypeOK
<1>6. /\ B \in Nat /\ \A k \in Keys : data[k].size \in Nat /\ data[k].size <= B
      /\ (\A k \in Keys : ~Exists(k)) => B = 0
  BY <1>5, BytesType, ZenonT(40) DEF Exists
<1>7. StoredBytes = B /\ StoredBytes' = N
  BY StoredBytesIs, ZenonT(40)
<1>8. CanReadData => (\A u \in Threads : pc[u] # "insert") /\ memory_used = B
  BY <1>7, NobodyInserts, ZenonT(40)
<1>9. /\ (pc[t] \in {"store", "insert"} => c = size)
      /\ (pc[t] \notin {"store", "insert"} => c = 0)
      /\ (pc'[t] \in {"store", "insert"} => d = loc'[t].size)
      /\ (pc'[t] \notin {"store", "insert"} => d = 0)
  BY ZenonT(40) DEF ClaimOf
<1>10. \A k \in Keys : memory_size(k) = data[k].size
  BY ZenonT(40) DEF memory_size
<1>11. CanWriteData => CanReadData
  BY ZenonT(40) DEF CanWriteData
<1>12. \A n \in Nat : n < Word => Wrap(n) = n
  BY WrapExact, ZenonT(40)
<1>13. /\ (\A u \in Threads : pc[u] # "insert") => memory_used = B
       /\ \A u \in Threads : pc[u] = "insert" => memory_used = B - data[loc[u].key].size
  BY <1>7, ZenonT(40) DEF MemoryInv, Exact, MemoryExact, memory_size
<1>14. SUFFICES
         /\ (\A u \in Threads : pc'[u] # "insert") => memory_used' = N
         /\ \A u \in Threads : pc'[u] = "insert" => memory_used' = N - data'[loc'[u].key].size
         /\ memory_used' + Claimed' <= Limit + Slack
  BY <1>7, ZenonT(40) DEF Exact, MemoryExact, memory_size, Admitted, Limit, Slack, MaxSize
<1> HIDE DEF Limit, Slack, MaxSize, B, N, c, d, size
<1>15. CASE Quiet(t)
  <2>1. data' = data /\ memory_used' = memory_used /\ N = B
    BY <1>15, ZenonT(40) DEF Quiet, B, N
  <2>2. pc[t] # "insert" /\ pc'[t] # "insert" /\ d <= c
    BY <1>1, <1>9, <1>15 DEF Quiet, size
  <2>3. Claimed' <= Claimed
    BY <1>1, <2>2
  <2>4. memory_used' + Claimed' <= Limit + Slack
    BY <1>1, <1>2, <1>3, <2>1, <2>3
  <2>5. QED
    BY <1>4, <1>13, <2>1, <2>2, <2>4, ZenonT(40)
<1>16. CASE Admit(t)
  <2>1. data' = data /\ memory_used' = memory_used /\ N = B
    BY <1>16, ZenonT(40) DEF Admit, B, N
  <2>2. pc[t] # "insert" /\ pc'[t] # "insert" /\ d = size
    BY <1>9, <1>16, ZenonT(40) DEF Admit, size
  <2>3. memory_used + size <= Limit
    <3>1. CASE ~OverLimit(loc[t].size)
      BY <3>1, Room, ZenonT(40) DEF size
    <3>2. CASE CanReadData /\ \A k \in Keys : ~Exists(k)
      <4>1. memory_used = 0
        BY <1>6, <1>8, <3>2, ZenonT(40)
      <4>2. QED
        BY <1>1, <1>2, <4>1
    <3>3. QED
      BY <1>16, <3>1, <3>2, ZenonT(40) DEF Admit
  <2>4. memory_used' + Claimed' <= Limit + Slack
    BY <1>1, <1>2, <2>1, <2>2, <2>3
  <2>5. QED
    BY <1>4, <1>13, <2>1, <2>2, <2>4, ZenonT(40)
<1>17. CASE Remove(t)
  <2>1. PICK k \in Keys : RemoveItem(k)
    BY <1>17, ZenonT(40) DEF Remove
  <2>2. memory_used = B /\ \A u \in Threads : pc[u] # "insert"
    BY <1>8, <1>11, <1>17, ZenonT(40) DEF Remove
  <2>3. N = B - data[k].size + NoItem.size
    BY <1>5, <2>1, BytesChange, NoItemType, ZenonT(40) DEF RemoveItem, B, N
  <2>4. NoItem.size = 0
    BY ZenonT(40) DEF NoItem
  <2>5. memory_used' = Wrap(memory_used - data[k].size)
    BY <1>10, <2>1, ZenonT(40) DEF RemoveItem
  <2>6. memory_used - data[k].size \in Nat /\ memory_used - data[k].size < Word
    BY <1>1, <1>2, <1>6, <2>2
  <2>7. memory_used' = N /\ memory_used' \in Nat /\ memory_used' <= memory_used
    BY <1>1, <1>6, <1>12, <2>2, <2>3, <2>4, <2>5, <2>6
  <2>8. d = 0 /\ pc'[t] # "insert"
    BY <1>9, <1>17, ZenonT(40) DEF Remove
  <2>9. memory_used' + Claimed' <= Limit + Slack
    BY <1>1, <1>2, <1>3, <2>7, <2>8
  <2>10. QED
    BY <1>4, <2>2, <2>7, <2>8, <2>9, ZenonT(40)
<1>18. CASE TakeOff(t)
  <2>1. memory_used = B /\ \A u \in Threads : pc[u] # "insert"
    BY <1>8, <1>11, <1>18, ZenonT(40) DEF TakeOff
  <2>2. data' = data /\ loc' = loc /\ N = B
    BY <1>18, ZenonT(40) DEF TakeOff, B, N
  <2>3. memory_used' = Wrap(memory_used - data[key].size)
    BY <1>5, <1>10, <1>18, ZenonT(40) DEF TakeOff
  <2>4. /\ memory_used - data[key].size \in Nat /\ memory_used - data[key].size < Word
        /\ data[key].size \in Nat
    BY <1>1, <1>2, <1>5, <1>6, <2>1
  <2>5. memory_used' = B - data[key].size /\ memory_used' <= memory_used
    BY <1>1, <1>12, <2>1, <2>3, <2>4
  <2>6. c = d
    BY <1>9, <1>18, ZenonT(40) DEF TakeOff, size
  <2>7. memory_used' + Claimed' <= Limit + Slack
    BY <1>1, <1>2, <1>3, <1>6, <2>4, <2>5, <2>6
  <2>8. pc'[t] = "insert"
    BY <1>18, ZenonT(40) DEF TakeOff
  <2>9. QED
    BY <1>4, <2>1, <2>2, <2>5, <2>7, <2>8, ZenonT(40)
<1>19. CASE Add(t)
  <2>1. \A u \in Threads \ {t} : pc[u] # "insert"
    BY <1>19, ZenonT(40) DEF Add, MemoryInv, DataExclusive, HoldsDataWrite
  <2>2. memory_used = B - data[key].size
    BY <1>13, <1>19, ZenonT(40) DEF Add
  <2>3. loc[t].item.size = size /\ loc[t].item \in Item
    BY <1>19, FrameFields, ZenonT(40) DEF Add, MemoryInv, Sized, Pending, Control, size
  <2>4. N = B - data[key].size + size
    BY <1>5, <1>19, <2>3, BytesChange, ZenonT(40) DEF Add, B, N
  <2>5. memory_used' = Wrap(memory_used + size)
    BY <1>19, <2>3, ZenonT(40) DEF Add
  <2>6. c = size /\ d = 0 /\ pc'[t] # "insert"
    BY <1>9, <1>19, ZenonT(40) DEF Add
  <2>7. memory_used + size \in Nat /\ memory_used + size < Word
    BY <1>1, <1>2, <1>3, <2>6
  <2>8. memory_used' = memory_used + size
    BY <1>12, <2>5, <2>7, ZenonT(40)
  <2>9. memory_used' = N /\ memory_used' + Claimed' <= Limit + Slack
    BY <1>1, <1>2, <1>3, <1>5, <1>6, <2>2, <2>4, <2>6, <2>8
  <2>10. QED
    BY <1>4, <2>1, <2>6, <2>9, ZenonT(40)
<1>20. CASE Grow(t)
  <2>1. memory_used = B /\ \A u \in Threads : pc[u] # "insert"
    BY <1>8, <1>11, <1>20, ZenonT(40) DEF Grow
  <2>2. PICK item \in Item : /\ data' = [data EXCEPT ![key] = item]
                            /\ item.size = data[key].size + size
    BY <1>5, <1>10, <1>20, ZenonT(40) DEF Grow, size
  <2>3. N = B - data[key].size + item.size
    BY <1>5, <2>2, BytesChange, ZenonT(40) DEF B, N
  <2>4. N = B + size
    BY <1>1, <1>5, <1>6, <2>2, <2>3
  <2>5. memory_used' = Wrap(memory_used + size)
    BY <1>20, ZenonT(40) DEF Grow, size
  <2>6. d = 0 /\ pc'[t] # "insert"
    BY <1>9, <1>20, ZenonT(40) DEF Grow
  <2>7. memory_used + size + Claimed' <= Limit + Slack
    <3>1. CASE pc[t] = "store"
      BY <1>1, <1>2, <1>3, <1>9, <2>6, <3>1
    <3>2. CASE ~OverLimit(loc[t].size)
      <4>1. memory_used + size <= Limit
        BY <3>2, Room, ZenonT(40) DEF size
      <4>2. QED
        BY <1>1, <1>2, <2>6, <4>1
    <3>3. QED
      BY <1>20, <3>1, <3>2, ZenonT(40) DEF Grow
  <2>8. memory_used + size \in Nat /\ memory_used + size < Word
    BY <1>1, <1>2, <2>7
  <2>9. memory_used' = memory_used + size
    BY <1>12, <2>5, <2>8, ZenonT(40)
  <2>10. QED
    BY <1>4, <2>1, <2>4, <2>6, <2>7, <2>9, ZenonT(40)
<1>21. CASE Clear(t)
  <2>1. \A u \in Threads : pc'[u] # "insert"
    BY <1>4, <1>21, ZenonT(40) DEF Clear, MemoryInv, DataExclusive, HoldsDataWrite
  <2>2. data' \in [Keys -> Item] /\ \A k \in Keys : data'[k] = NoItem
    BY <1>21, NoItemType, ZenonT(40) DEF Clear
  <2>3. N = 0 /\ memory_used' = 0
    BY <1>21, <2>2, BytesType, ZenonT(40) DEF Clear, N
  <2>4. d = 0
    BY <1>9, <1>21, ZenonT(40) DEF Clear
  <2>5. QED
    BY <1>1, <1>2, <2>1, <2>3, <2>4
<1>22. QED
  BY <1>15, <1>16, <1>17, <1>18, <1>19, <1>20, <1>21, MemoryEffect, ZenonT(40) DEF MemoryInv

\* The invariant of the accounting holds in every reachable state.
LEMMA MemoryInvariant ==
  ASSUME Bounded
  PROVE  Spec => []MemoryInv
<1>1. Init => MemoryInv
  <2> SUFFICES ASSUME Init PROVE MemoryInv
    BY ZenonT(40)
  <2>1. TypeOK
    BY InitType, ZenonT(40)
  <2>2. /\ \A t \in Threads : pc[t] = "idle" /\ loc[t].size = 0 /\ ~Pending(t)
        /\ \A k \in Keys : data[k] = NoItem
        /\ memory_used = 0
    BY ZenonT(40) DEF Init, NoFrame, Pending
  <2>3. Control /\ DataExclusive
    BY <2>2, ZenonT(40) DEF Control, DataExclusive, HoldsDataWrite
  <2>4. Sized
    BY <2>2, Numbers DEF Sized
  <2>5. Exact
    <3>1. StoredBytes = 0
      BY <2>1, <2>2, BytesType, StoredBytesIs, ZenonT(40) DEF TypeOK
    <3>2. QED
      BY <2>2, <3>1, ZenonT(40) DEF Exact, MemoryExact
  <2>6. Admitted
    <3>1. PICK t \in Threads : TRUE
      BY StorageAssumption, ZenonT(40)
    <3>2. pc \in [Threads -> Labels] /\ loc \in [Threads -> Frame]
      BY <2>1, ZenonT(40) DEF TypeOK
    <3>3. ClaimOf(pc[t], loc[t]) = 0 /\ \A u \in Threads : loc[u].size <= MaxSize
      BY <2>2, <2>4, ZenonT(40) DEF ClaimOf, Sized
    <3>4. Claimed \in Nat /\ Claimed <= Slack
      BY <3>2, <3>3, ClaimsType, Numbers DEF Claimed
    <3>5. QED
      BY <2>2, <3>4, Numbers DEF Admitted
  <2>7. QED
    BY <2>1, <2>3, <2>4, <2>5, <2>6, ZenonT(40) DEF MemoryInv
<1>2. MemoryInv /\ [Next]_vars => MemoryInv'
  <2> SUFFICES ASSUME MemoryInv, [Next]_vars PROVE MemoryInv'
    BY ZenonT(40)
  <2>1. TypeOK'
    BY TypeStep, ZenonT(40) DEF MemoryInv
  <2>2. CASE UNCHANGED <<data, memory_used, pc, loc>>
    BY <2>1, <2>2, ZenonT(40) DEF MemoryInv, Control, DataExclusive, HoldsDataWrite, HoldsDataRead,
       Sized, Pending, Exact, MemoryExact, StoredBytes, memory_size, Admitted, Claimed,
       ClaimsOf, ClaimOf, Limit, Slack, MaxSize
  <2>3. CASE \E t \in Threads : Call(t) \/ Step(t)
    BY <2>1, <2>3, ControlStep, ExclusiveStep, SizedStep, MemoryStep, ZenonT(40) DEF MemoryInv
  <2>4. QED
    BY <2>2, <2>3, ZenonT(40) DEF Next, Tick, vars
<1>3. QED
  BY <1>1, <1>2, PTL DEF Spec

\* memory_used is the size of what is stored whenever no set is between its two
\* updates: for any number of threads and keys nothing is lost, counted twice
\* or wrapped around, as long as clients do not use cas.
THEOREM MemoryAccounting ==
  ASSUME Bounded
  PROVE  Spec => []MemoryExact
  BY MemoryInvariant, PTL DEF MemoryInv, Exact

\* The limit is overshot by at most one item of each other thread, for any
\* number of threads, although the check and the insertion are separate steps.
THEOREM Overshoot ==
  ASSUME Bounded
  PROVE  Spec => []OvershootBounded
<1>1. MemoryInv => OvershootBounded
  <2> SUFFICES ASSUME MemoryInv PROVE OvershootBounded
    BY ZenonT(40)
  <2>1. PICK t \in Threads : TRUE
    BY StorageAssumption, ZenonT(40)
  <2>2. /\ pc \in [Threads -> Labels] /\ loc \in [Threads -> Frame]
        /\ \A u \in Threads : loc[u].size <= MaxSize
    BY ZenonT(40) DEF MemoryInv, TypeOK, Sized
  <2>3. Claimed \in Nat
    BY <2>2, ClaimsType, ZenonT(40) DEF Claimed
  <2>4. memory_used \in Nat /\ memory_used + Claimed <= Limit + Slack
    BY StorageAssumption DEF MemoryInv, TypeOK, Admitted
  <2>5. memory_used <= Limit + Slack
    BY <2>3, <2>4, Numbers
  <2>6. QED
    BY <2>5, ZenonT(40) DEF OvershootBounded, Limit, Slack
<1>2. QED
  BY <1>1, MemoryInvariant, PTL

=============================================================================
