---------------------------- MODULE NetworkProofs ----------------------------
(***************************************************************************)
(* What the proofs about the two event loops share: the stacks that pools  *)
(* and slabs keep their free indices in, the types of sockets, and what    *)
(* request processing returns.                                             *)
(***************************************************************************)
EXTENDS Network, Connections, FiniteSetTheorems, TLAPS

\* A leaf that names no prover is for the SMT solver, then for Zenon, then for the
\* SMT solver again.
USE SMTT(25), ZenonT(25), SMTT(26), SMTT(27), SMTT(28)

-----------------------------------------------------------------------------
(* Numbers.                                                                *)

\* A position is a whole number of buffers and an offset in the next one.
LEMMA Split ==
  ASSUME NEW d \in Nat \ {0}, NEW a \in Nat
  PROVE  /\ a \div d \in Nat /\ a % d \in 0 .. d - 1
         /\ a = (a \div d) * d + (a % d)
  BY Z3

\* A set of numbers has a least one.
LEMMA LeastNumber ==
  ASSUME NEW S \in SUBSET Nat, S # {}
  PROVE  \E x \in S : \A y \in S : x <= y
<1>1. IsWellFoundedOn(OpToRel(<, Nat), Nat)
  BY NatLessThanWellFounded, ZenonT(40)
<1>2. PICK x \in S : \A y \in S : ~ (<<y, x>> \in OpToRel(<, Nat))
  BY WFMin, <1>1, ZenonT(40)
<1>3. \A y \in S : ~ (y < x)
  BY <1>2, ZenonT(40) DEF OpToRel
<1>4. QED
  BY <1>3

\* Induction over the numbers.
LEMMA NumberInduction ==
  ASSUME NEW S, 0 \in S, \A n \in Nat : n \in S => n + 1 \in S
  PROVE  Nat \subseteq S
<1>1. SUFFICES ASSUME Nat \ S # {} PROVE FALSE
  BY ZenonT(40)
<1>2. PICK x \in Nat \ S : \A y \in Nat \ S : x <= y
  BY <1>1, LeastNumber, ZenonT(40)
<1>3. x - 1 \in Nat /\ x - 1 \in S
  BY <1>2
<1>4. QED
  BY <1>2, <1>3

\* The smaller of two numbers.
LEMMA MinOfTwo ==
  ASSUME NEW a \in Nat, NEW b \in Nat
  PROVE  /\ Min({a, b}) \in Nat /\ Min({a, b}) \in {a, b}
         /\ Min({a, b}) <= a /\ Min({a, b}) <= b
<1>1. \E x \in {a, b} : \A y \in {a, b} : x <= y
  OBVIOUS
<1>2. QED
  BY <1>1, ZenonT(40) DEF Min

\* The larger of two numbers.
LEMMA MaxOfTwo ==
  ASSUME NEW a \in Nat, NEW b \in Nat
  PROVE  /\ Max({a, b}) \in Nat /\ Max({a, b}) \in {a, b}
         /\ Max({a, b}) >= a /\ Max({a, b}) >= b
<1>1. \E x \in {a, b} : \A y \in {a, b} : x >= y
  OBVIOUS
<1>2. QED
  BY <1>1, ZenonT(40) DEF Max

\* The smaller of what there is room for and what there is.
LEMMA LesserIs ==
  ASSUME NEW a \in Int, NEW b \in Int
  PROVE  Min({a, b}) \in {a, b} /\ Min({a, b}) <= a /\ Min({a, b}) <= b
<1>1. \E x \in {a, b} : \A y \in {a, b} : x <= y
  OBVIOUS
<1>2. QED
  BY <1>1, ZenonT(40) DEF Min

-----------------------------------------------------------------------------
(* Stacks of indices.                                                      *)

\* A sequence without repetitions.
Stack(S) == {f \in Seq(S) : IsInjective(f)}

\* A function on an initial segment of the numbers is a sequence.
LEMMA SeqIs ==
  ASSUME NEW S, NEW n \in Nat, NEW f \in [1 .. n -> S]
  PROVE  f \in Seq(S) /\ Len(f) = n
  OBVIOUS

\* The length of two sequences, joined.
LEMMA JoinIs ==
  ASSUME NEW S, NEW f \in Seq(S), NEW g \in Seq(S)
  PROVE  f \o g \in Seq(S) /\ Len(f \o g) = Len(f) + Len(g)
  OBVIOUS

\* The elements of a sequence.
LEMMA RangeIs ==
  ASSUME NEW S, NEW f \in Seq(S)
  PROVE  /\ Len(f) \in Nat /\ DOMAIN f = 1 .. Len(f)
         /\ \A i \in 1 .. Len(f) : f[i] \in S
         /\ \A x : x \in Range(f) <=> \E i \in 1 .. Len(f) : f[i] = x
         /\ Range(f) \subseteq S
         /\ IsInjective(f) <=> \A i, j \in 1 .. Len(f) : f[i] = f[j] => i = j
<1>1. Len(f) \in Nat /\ DOMAIN f = 1 .. Len(f) /\ \A i \in 1 .. Len(f) : f[i] \in S
  OBVIOUS
<1>2. QED
  BY <1>1, ZenonT(40) DEF Range, IsInjective

\* alloc takes indices off the stack; the two parts are disjoint.
LEMMA StackAlloc ==
  ASSUME NEW S, NEW f \in Stack(S), NEW n \in Nat, CanAlloc(f, n)
  PROVE  /\ AfterAlloc(f, n) \in Stack(S) /\ AllocMany(f, n) \in Stack(S)
         /\ Len(AllocMany(f, n)) = n /\ Len(AfterAlloc(f, n)) = Len(f) - n
         /\ Range(AfterAlloc(f, n)) \cap Range(AllocMany(f, n)) = {}
         /\ Range(AfterAlloc(f, n)) \cup Range(AllocMany(f, n)) = Range(f)
<1> DEFINE a == AfterAlloc(f, n)
           b == AllocMany(f, n)
<1>1. f \in Seq(S) /\ Len(f) \in Nat /\ n <= Len(f)
  BY DEF Stack, CanAlloc
<1>2. /\ a \in Seq(S) /\ Len(a) = Len(f) - n
      /\ \A i \in 1 .. Len(f) - n : a[i] = f[i]
  BY <1>1 DEF AfterAlloc
<1>3. \A i \in 1 .. n : Len(f) - i + 1 \in 1 .. Len(f) /\ f[Len(f) - i + 1] \in S
  BY <1>1
<1>4. /\ b \in Seq(S) /\ Len(b) = n
      /\ \A i \in 1 .. n : b[i] = f[Len(f) - i + 1]
  BY <1>1, <1>3 DEF AllocMany
<1> DEFINE k == Len(f)
<1>6. /\ k \in Nat /\ n \in Nat /\ n <= k
      /\ \A i \in 1 .. k - n : a[i] = f[i]
      /\ \A i \in 1 .. n : b[i] = f[k - i + 1]
      /\ \A i, j \in 1 .. k : f[i] = f[j] => i = j
  BY <1>1, <1>2, <1>4, RangeIs, ZenonT(40) DEF Stack
<1>6a. a \in Seq(S) /\ b \in Seq(S) /\ Len(a) = k - n /\ Len(b) = n
  BY <1>2, <1>4, ZenonT(40)
<1> HIDE DEF a, b, k
<1>7. IsInjective(a) /\ IsInjective(b)
  <2>1. \A i, j \in 1 .. k - n : a[i] = a[j] => i = j
    BY <1>6
  <2>2. \A i, j \in 1 .. n : b[i] = b[j] => i = j
    <3> TAKE i, j \in 1 .. n
    <3>1. k - i + 1 \in 1 .. k /\ k - j + 1 \in 1 .. k
      BY <1>6
    <3>2. b[i] = b[j] => k - i + 1 = k - j + 1
      BY <1>6, <3>1, ZenonT(40)
    <3>3. QED
      BY <1>6, <3>2
  <2>3. QED
    BY <1>2, <1>4, <1>6a, <2>1, <2>2, RangeIs, ZenonT(40)
<1>8. \A x : /\ x \in Range(a) <=> \E i \in 1 .. k - n : f[i] = x
             /\ x \in Range(b) <=> \E i \in 1 .. n : f[k - i + 1] = x
             /\ x \in Range(f) <=> \E i \in 1 .. k : f[i] = x
  <2>1. \A x : x \in Range(a) <=> \E i \in 1 .. k - n : a[i] = x
    BY <1>6a, RangeIs, ZenonT(40)
  <2>2. \A x : x \in Range(b) <=> \E i \in 1 .. n : b[i] = x
    BY <1>6a, RangeIs, ZenonT(40)
  <2>3. \A x : x \in Range(f) <=> \E i \in 1 .. k : f[i] = x
    BY <1>1, RangeIs, ZenonT(40) DEF k
  <2>4. QED
    BY <1>6, <2>1, <2>2, <2>3
<1>9. \A x : ~ (x \in Range(a) /\ x \in Range(b))
  BY <1>6, <1>8
<1>10. \A x : x \in Range(f) <=> x \in Range(a) \/ x \in Range(b)
  <2> TAKE x
  <2>1. ASSUME x \in Range(f) PROVE x \in Range(a) \/ x \in Range(b)
    <3>1. PICK i \in 1 .. k : f[i] = x
      BY <1>8, <2>1, ZenonT(40)
    <3>2. CASE i <= k - n
      BY <1>6, <1>8, <3>1, <3>2
    <3>3. CASE i > k - n
      <4>1. k - i + 1 \in 1 .. n /\ k - (k - i + 1) + 1 = i
        BY <1>6, <3>3
      <4>2. QED
        BY <1>8, <3>1, <4>1, ZenonT(40)
    <3>4. QED
      BY <1>6, <3>2, <3>3
  <2>2. ASSUME x \in Range(a) \/ x \in Range(b) PROVE x \in Range(f)
    BY <1>6, <1>8, <2>2
  <2>3. QED
    BY <2>1, <2>2, ZenonT(40)
<1>11. QED
  BY <1>2, <1>4, <1>7, <1>9, <1>10, ZenonT(40) DEF Stack, a, b, k

\* free puts indices on the stack that are not there.
LEMMA StackFree ==
  ASSUME NEW S, NEW f \in Stack(S), NEW g \in Stack(S), Range(f) \cap Range(g) = {}
  PROVE  f \o g \in Stack(S) /\ Range(f \o g) = Range(f) \cup Range(g)
<1> DEFINE h == f \o g
           m == Len(f)
           n == Len(g)
<1>1. /\ f \in Seq(S) /\ g \in Seq(S) /\ m \in Nat /\ n \in Nat
  BY DEF Stack
<1>2. /\ h \in Seq(S) /\ Len(h) = m + n
      /\ \A i \in 1 .. m + n : h[i] = IF i <= m THEN f[i] ELSE g[i - m]
  BY <1>1
<1>3. /\ \A i, j \in 1 .. m : f[i] = f[j] => i = j
      /\ \A i, j \in 1 .. n : g[i] = g[j] => i = j
      /\ \A x : x \in Range(f) <=> \E i \in 1 .. m : f[i] = x
      /\ \A x : x \in Range(g) <=> \E i \in 1 .. n : g[i] = x
  BY <1>1, RangeIs, ZenonT(40) DEF Stack
<1>4. \A x : x \in Range(h) <=> \E i \in 1 .. m + n : h[i] = x
  <2> HIDE DEF h, m, n
  <2>1. QED
    BY <1>2, RangeIs
<1> HIDE DEF h, m, n
<1>5. \A i \in 1 .. m + n : i <= m => i \in 1 .. m /\ h[i] = f[i]
  BY <1>1, <1>2
<1>6. \A i \in 1 .. m + n : i > m => i - m \in 1 .. n /\ h[i] = g[i - m]
  BY <1>1, <1>2
<1>7. m \in Nat /\ n \in Nat
  BY <1>1, ZenonT(40)
<1>8. \A i, j \in 1 .. m + n : h[i] = h[j] => i = j
  <2> SUFFICES ASSUME NEW i \in 1 .. m + n, NEW j \in 1 .. m + n, h[i] = h[j]
               PROVE  i = j
    BY ZenonT(40)
  <2>1. CASE i <= m /\ j <= m
    BY <1>3, <1>5, <2>1, ZenonT(40)
  <2>2. CASE i > m /\ j > m
    <3>1. i - m = j - m
      BY <1>3, <1>6, <2>2
    <3>2. QED
      BY <1>7, <3>1
  <2>3. \A x \in 1 .. m, y \in 1 .. n : f[x] # g[y]
    BY <1>3, ZenonT(40)
  <2>4. QED
    BY <1>5, <1>6, <1>7, <2>1, <2>2, <2>3
<1>9. IsInjective(h)
  BY <1>2, <1>8, RangeIs, ZenonT(40)
<1>10. \A x : x \in Range(h) <=> x \in Range(f) \/ x \in Range(g)
  <2> TAKE x
  <2>1. ASSUME x \in Range(h) PROVE x \in Range(f) \/ x \in Range(g)
    <3>1. PICK i \in 1 .. m + n : h[i] = x
      BY <1>4, <2>1, ZenonT(40)
    <3>2. QED
      BY <1>3, <1>5, <1>6, <1>7, <3>1
  <2>2. ASSUME x \in Range(f) PROVE x \in Range(h)
    <3>1. PICK i \in 1 .. m : f[i] = x
      BY <1>3, <2>2, ZenonT(40)
    <3>2. i \in 1 .. m + n /\ h[i] = x
      BY <1>5, <1>7, <3>1
    <3>3. QED
      BY <1>4, <3>2, ZenonT(40)
  <2>3. ASSUME x \in Range(g) PROVE x \in Range(h)
    <3>1. PICK i \in 1 .. n : g[i] = x
      BY <1>3, <2>3, ZenonT(40)
    <3>2. m + i \in 1 .. m + n /\ m + i > m /\ (m + i) - m = i
      BY <1>7
    <3>3. h[m + i] = x
      BY <1>6, <3>1, <3>2, ZenonT(40)
    <3>4. QED
      BY <1>4, <3>2, <3>3, ZenonT(40)
  <2>4. QED
    BY <2>1, <2>2, <2>3, ZenonT(40)
<1>11. QED
  BY <1>2, <1>9, <1>10, ZenonT(40) DEF Stack, h

\* Short stacks.
LEMMA StackShort ==
  ASSUME NEW S
  PROVE  /\ <<>> \in Stack(S) /\ Range(<<>>) = {}
         /\ \A x \in S : <<x>> \in Stack(S) /\ Range(<<x>>) = {x}
  BY DEF Stack, Range, IsInjective

\* Taking one index.
LEMMA StackPop ==
  ASSUME NEW S, NEW f \in Stack(S), CanAlloc(f, 1)
  PROVE  /\ AllocMany(f, 1)[1] \in Range(f) /\ AllocMany(f, 1)[1] \in S
         /\ AfterAlloc(f, 1) \in Stack(S)
         /\ Range(AfterAlloc(f, 1)) = Range(f) \ {AllocMany(f, 1)[1]}
<1> DEFINE a == AfterAlloc(f, 1)
           b == AllocMany(f, 1)
<1>1. /\ a \in Stack(S) /\ b \in Stack(S) /\ Len(b) = 1
      /\ Range(a) \cap Range(b) = {} /\ Range(a) \cup Range(b) = Range(f)
  BY StackAlloc, ZenonT(40)
<1> HIDE DEF a, b
<1>2. Range(b) = {b[1]} /\ b[1] \in S
  <2>1. b \in Seq(S) /\ Len(b) = 1
    BY <1>1, ZenonT(40) DEF Stack
  <2>2. /\ \A x : x \in Range(b) <=> \E i \in 1 .. Len(b) : b[i] = x
        /\ \A i \in 1 .. Len(b) : b[i] \in S
    BY <2>1, RangeIs, ZenonT(40)
  <2>3. \A x : x \in Range(b) <=> x = b[1]
    BY <2>1, <2>2
  <2>4. QED
    BY <2>1, <2>2, <2>3, ZenonT(40)
<1>3. QED
  BY <1>1, <1>2, ZenonT(40) DEF a, b

\* Taking one index from a list that may have repetitions.
LEMMA ListPop ==
  ASSUME NEW S, NEW f \in Seq(S), CanAlloc(f, 1)
  PROVE  AllocMany(f, 1)[1] \in S /\ AfterAlloc(f, 1) \in Seq(S)
<1>1. Len(f) \in Nat /\ 1 <= Len(f) /\ f[Len(f)] \in S /\ Len(f) - 1 + 1 = Len(f)
  BY DEF CanAlloc
<1>2. AllocMany(f, 1)[1] = f[Len(f)]
  BY <1>1 DEF AllocMany
<1>3. AfterAlloc(f, 1) \in Seq(S)
  BY <1>1 DEF AfterAlloc
<1>4. QED
  BY <1>1, <1>2, <1>3, ZenonT(40)

\* A slab is last in, first out: the key that was freed is the next to be used.
LEMMA PushPop ==
  ASSUME NEW S, NEW f \in Seq(S), NEW x \in S
  PROVE  /\ CanAlloc(FreeMany(f, <<x>>), 1) /\ AllocMany(FreeMany(f, <<x>>), 1)[1] = x
         /\ AfterAlloc(FreeMany(f, <<x>>), 1) = f
<1> DEFINE n == Len(f)
           g == FreeMany(f, <<x>>)
<1>1. n \in Nat /\ <<x>> \in Seq(S) /\ Len(<<x>>) = 1 /\ <<x>>[1] = x
  OBVIOUS
<1>2. /\ g \in Seq(S) /\ Len(g) = n + 1 /\ g[n + 1] = x
      /\ \A i \in 1 .. n : g[i] = f[i]
  <2>1. g \in Seq(S) /\ Len(g) = n + 1
    BY <1>1 DEF FreeMany
  <2>2. \A i \in 1 .. n + 1 : g[i] = IF i <= n THEN f[i] ELSE <<x>>[i - n]
    BY <1>1 DEF FreeMany
  <2>3. QED
    BY <1>1, <2>1, <2>2
<1> HIDE DEF g
<1>5. AllocMany(g, 1)[1] = x
  <2>1. n + 1 - 1 + 1 = n + 1
    BY <1>1
  <2>2. QED
    BY <1>1, <1>2, <2>1 DEF AllocMany
<1>6. AfterAlloc(g, 1) = SubSeq(g, 1, n)
  BY <1>1, <1>2 DEF AfterAlloc
<1>7. SubSeq(g, 1, n) = f
  <2>1. /\ SubSeq(g, 1, n) \in Seq(S) /\ Len(SubSeq(g, 1, n)) = n
        /\ \A i \in 1 .. n : SubSeq(g, 1, n)[i] = g[i]
    BY <1>1, <1>2
  <2> DEFINE h == SubSeq(g, 1, n)
  <2> HIDE DEF h
  <2>2. \A i \in 1 .. n : h[i] = f[i]
    BY <1>2, <2>1, ZenonT(40) DEF h
  <2>3. h \in Seq(S) /\ Len(h) = Len(f)
    BY <2>1, ZenonT(40) DEF h
  <2>4. h = f
    BY <1>1, <2>2, <2>3
  <2>5. QED
    BY <2>4, ZenonT(40) DEF h
<1>8. CanAlloc(g, 1)
  BY <1>1, <1>2 DEF CanAlloc
<1>9. QED
  BY <1>5, <1>6, <1>7, <1>8, ZenonT(40) DEF g

\* A queue with an entry more.
Extends(f, g, n, x) ==
  /\ n \notin DOMAIN f /\ DOMAIN g = DOMAIN f \cup {n}
  /\ g[n] = x /\ \A i \in DOMAIN f : g[i] = f[i]

\* Append makes it so.
LEMMA AppendIs ==
  ASSUME NEW S, NEW f \in Seq(S), NEW x \in S
  PROVE  Append(f, x) \in Seq(S) /\ \E n : Extends(f, Append(f, x), n, x)
<1> DEFINE n == Len(f) + 1
           g == Append(f, x)
<1>1. /\ Len(f) \in Nat /\ DOMAIN f = 1 .. Len(f) /\ g \in Seq(S) /\ Len(g) = n
      /\ DOMAIN g = 1 .. n /\ g[n] = x
  OBVIOUS
<1>2. \A i \in 1 .. Len(f) : g[i] = f[i]
  OBVIOUS
<1> HIDE DEF g
<1>3. n \notin DOMAIN f /\ DOMAIN g = DOMAIN f \cup {n}
  BY <1>1
<1>4. Extends(f, g, n, x)
  BY <1>1, <1>2, <1>3, ZenonT(40) DEF Extends
<1>5. QED
  BY <1>1, <1>4, ZenonT(40) DEF g

\* What is left of a queue after its head.
LEMMA TailIs ==
  ASSUME NEW S, NEW f \in Seq(S), f # <<>>
  PROVE  /\ Head(f) \in S /\ 1 \in DOMAIN f /\ Head(f) = f[1] /\ Tail(f) \in Seq(S)
         /\ \A i \in DOMAIN Tail(f) : i + 1 \in DOMAIN f /\ Tail(f)[i] = f[i + 1]
         /\ \A i \in DOMAIN f : i # 1 => i - 1 \in DOMAIN Tail(f)
         /\ DOMAIN f \subseteq Nat /\ DOMAIN Tail(f) \subseteq Nat \ {0}
<1>1. Len(f) \in Nat /\ Len(f) > 0 /\ DOMAIN f = 1 .. Len(f)
  OBVIOUS
<1>2. /\ Tail(f) \in Seq(S) /\ Len(Tail(f)) = Len(f) - 1
      /\ DOMAIN Tail(f) = 1 .. Len(f) - 1
  BY <1>1
<1>3. \A i \in 1 .. Len(f) - 1 : Tail(f)[i] = f[i + 1]
  BY <1>1
<1>4. Head(f) = f[1] /\ Head(f) \in S
  BY <1>1
<1>5. QED
  BY <1>1, <1>2, <1>3, <1>4

\* A stack is empty when there is nothing in it.
LEMMA StackEmpty ==
  ASSUME NEW S, NEW f \in Stack(S)
  PROVE  CanAlloc(f, 1) <=> Range(f) # {}
<1>1. f \in Seq(S)
  BY ZenonT(40) DEF Stack
<1>2. Len(f) \in Nat /\ \A x : x \in Range(f) <=> \E i \in 1 .. Len(f) : f[i] = x
  BY <1>1, RangeIs, ZenonT(40)
<1>3. 1 <= Len(f) <=> 1 \in 1 .. Len(f)
  BY <1>2
<1>4. (\E i \in 1 .. Len(f) : TRUE) => 1 <= Len(f)
  BY <1>2
<1>5. QED
  BY <1>2, <1>3, <1>4, ZenonT(40) DEF CanAlloc

\* Taking every index there is.
LEMMA StackAll ==
  ASSUME NEW S, NEW f \in Stack(S)
  PROVE  /\ AllocMany(f, Len(f)) \in Stack(S)
         /\ Range(AllocMany(f, Len(f))) = Range(f)
<1> DEFINE n == Len(f)
           a == AfterAlloc(f, n)
           b == AllocMany(f, n)
<1>1. f \in Seq(S) /\ n \in Nat /\ CanAlloc(f, n)
  BY DEF Stack, CanAlloc
<1>2. /\ a \in Stack(S) /\ Len(a) = n - n /\ b \in Stack(S)
      /\ Range(a) \cup Range(b) = Range(f)
  BY <1>1, StackAlloc
<1> HIDE DEF a, b, n
<1>3. a \in Seq(S) /\ Len(a) = 0
  BY <1>1, <1>2 DEF Stack
<1>4. \A x : x \notin Range(a)
  <2>1. \A x : x \in Range(a) <=> \E i \in 1 .. Len(a) : a[i] = x
    BY <1>3, RangeIs, ZenonT(40)
  <2>2. QED
    BY <1>3, <2>1
<1>5. QED
  BY <1>2, <1>4, ZenonT(40) DEF a, b, n

\* A new pool has every index.
LEMMA StackNew ==
  ASSUME NEW n \in Nat
  PROVE  NewPool(n) \in Stack(Nat) /\ Range(NewPool(n)) = 0 .. n - 1
<1> DEFINE f == NewPool(n)
<1>1. f \in Seq(Nat) /\ Len(f) = n /\ \A i \in 1 .. n : f[i] = i - 1
  BY DEF NewPool
<1> HIDE DEF f
<1>2. \A i, j \in 1 .. n : f[i] = f[j] => i = j
  BY <1>1
<1>3. \A x : x \in Range(f) <=> \E i \in 1 .. n : f[i] = x
  BY <1>1, RangeIs, ZenonT(40)
<1>4. \A x \in 0 .. n - 1 : x + 1 \in 1 .. n /\ f[x + 1] = x
  BY <1>1
<1>5. \A i \in 1 .. n : f[i] \in 0 .. n - 1
  BY <1>1
<1>6. \A x : x \in Range(f) <=> x \in 0 .. n - 1
  BY <1>3, <1>4, <1>5, ZenonT(40)
<1>7. IsInjective(f)
  BY <1>1, <1>2, RangeIs, ZenonT(40)
<1>8. QED
  BY <1>1, <1>6, <1>7, ZenonT(40) DEF Stack, f

\* A new slab has every key, and the first one to be taken is 0.
LEMMA StackSlab ==
  ASSUME NEW n \in Nat
  PROVE  /\ NewSlab(n) \in Stack(Nat) /\ Range(NewSlab(n)) = 0 .. n - 1
         /\ n > 0 => CanAlloc(NewSlab(n), 1) /\ AllocMany(NewSlab(n), 1)[1] = 0
<1> DEFINE f == NewSlab(n)
<1>1. f \in Seq(Nat) /\ Len(f) = n /\ \A i \in 1 .. n : f[i] = n - i
  BY DEF NewSlab
<1> HIDE DEF f
<1>2. \A i, j \in 1 .. n : f[i] = f[j] => i = j
  BY <1>1
<1>3. \A x : x \in Range(f) <=> \E i \in 1 .. n : f[i] = x
  BY <1>1, RangeIs
<1>4. \A x \in 0 .. n - 1 : n - x \in 1 .. n /\ f[n - x] = x
  BY <1>1
<1>5. \A i \in 1 .. n : f[i] \in 0 .. n - 1
  BY <1>1
<1>6. \A x : x \in Range(f) <=> x \in 0 .. n - 1
  BY <1>3, <1>4, <1>5, ZenonT(40)
<1>7. IsInjective(f)
  BY <1>1, <1>2, RangeIs, ZenonT(40)
<1>8. ASSUME n > 0 PROVE CanAlloc(f, 1) /\ AllocMany(f, 1)[1] = 0
  <2>1. Len(f) - 1 + 1 = n /\ f[n] = 0
    BY <1>1, <1>8
  <2>2. QED
    BY <1>1, <1>8, <2>1 DEF CanAlloc, AllocMany
<1>9. QED
  BY <1>1, <1>6, <1>7, <1>8, ZenonT(40) DEF Stack, f

\* Queues without repetitions: an index is put at the end, or taken from the front.
LEMMA QueuePut ==
  ASSUME NEW S, NEW f \in Stack(S), NEW x \in S \ Range(f)
  PROVE  Append(f, x) \in Stack(S) /\ Range(Append(f, x)) = Range(f) \cup {x}
<1> DEFINE g == Append(f, x)
<1>1. f \in Seq(S) /\ IsInjective(f)
  BY ZenonT(40) DEF Stack
<1>2. g \in Seq(S) /\ \E n : Extends(f, g, n, x)
  BY <1>1, AppendIs, ZenonT(40)
<1> HIDE DEF g
<1>3. PICK n : Extends(f, g, n, x)
  BY <1>2, ZenonT(40)
<1>4. \A y : y \in Range(g) <=> (y \in Range(f) \/ y = x)
  BY <1>3, ZenonT(40) DEF Extends, Range
<1>5. IsInjective(g)
  BY <1>1, <1>3, ZenonT(40) DEF Extends, Range, IsInjective
<1>6. QED
  BY <1>2, <1>4, <1>5, ZenonT(40) DEF Stack, g

\* The first element leaves a queue without repetitions.
LEMMA QueueTake ==
  ASSUME NEW S, NEW f \in Stack(S), f # <<>>
  PROVE  /\ Head(f) \in Range(f) /\ Head(f) \in S /\ Tail(f) \in Stack(S)
         /\ Range(Tail(f)) = Range(f) \ {Head(f)}
<1> DEFINE T == Tail(f)
<1>1. f \in Seq(S) /\ IsInjective(f)
  BY ZenonT(40) DEF Stack
<1>2. /\ Head(f) \in S /\ 1 \in DOMAIN f /\ Head(f) = f[1] /\ T \in Seq(S)
      /\ \A i \in DOMAIN T : i + 1 \in DOMAIN f /\ T[i] = f[i + 1]
      /\ \A i \in DOMAIN f : i # 1 => i - 1 \in DOMAIN T
      /\ DOMAIN f \subseteq Nat /\ DOMAIN T \subseteq Nat \ {0}
  BY <1>1, TailIs, ZenonT(40)
<1> HIDE DEF T
<1>3. IsInjective(T)
  <2>1. SUFFICES ASSUME NEW i \in DOMAIN T, NEW j \in DOMAIN T, T[i] = T[j] PROVE i = j
    BY ZenonT(40) DEF IsInjective
  <2>2. i + 1 = j + 1
    BY <1>1, <1>2, <2>1, ZenonT(40) DEF IsInjective
  <2>3. QED
    BY <1>2, <2>2
<1>4. ASSUME NEW y \in Range(T) PROVE y \in Range(f) /\ y # Head(f)
  <2>1. PICK i \in DOMAIN T : y = T[i]
    BY <1>4, ZenonT(40) DEF Range
  <2>2. i + 1 \in DOMAIN f /\ i + 1 # 1 /\ y = f[i + 1]
    BY <1>2, <2>1
  <2>3. QED
    BY <1>1, <1>2, <2>2, ZenonT(40) DEF Range, IsInjective
<1>5. ASSUME NEW y \in Range(f), y # Head(f) PROVE y \in Range(T)
  <2>1. PICK j \in DOMAIN f : y = f[j]
    BY <1>5, ZenonT(40) DEF Range
  <2>2. j # 1 /\ j - 1 \in DOMAIN T /\ j \in Nat
    BY <1>2, <1>5, <2>1, ZenonT(40)
  <2>3. (j - 1) + 1 = j
    BY <2>2
  <2>4. T[j - 1] = f[j]
    BY <1>2, <2>2, <2>3, ZenonT(40)
  <2>5. QED
    BY <2>1, <2>2, <2>4, ZenonT(40) DEF Range
<1>6. Head(f) \in Range(f)
  BY <1>2, ZenonT(40) DEF Range
<1>7. QED
  BY <1>2, <1>3, <1>4, <1>5, <1>6, ZenonT(40) DEF Stack, T

\* A slab with keys K that holds values in V, and its stack of vacant keys.
Slots(f, vacancies, K, V) ==
  /\ DOMAIN f \subseteq K /\ \A k \in DOMAIN f : f[k] \in V
  /\ vacancies \in Stack(Nat) /\ Range(vacancies) = K \ DOMAIN f

\* g is f with a change at id.
Changed(f, g, id, value) ==
  DOMAIN g = DOMAIN f /\ g[id] = value /\ \A j \in DOMAIN f \ {id} : g[j] = f[j]

\* The keys that are in use are finite, and all keys are as many as there are.
LEMMA KeysFinite ==
  ASSUME NEW n \in Nat, NEW D \in SUBSET (0 .. n - 1)
  PROVE  /\ IsFiniteSet(D) /\ Cardinality(D) \in Nat
         /\ IsFiniteSet(0 .. n - 1) /\ Cardinality(0 .. n - 1) = n
<1>1. IsFiniteSet(0 .. n - 1) /\ Cardinality(0 .. n - 1) = n
  BY FS_Interval
<1>2. IsFiniteSet(D)
  BY <1>1, FS_Subset, ZenonT(40)
<1>3. QED
  BY <1>1, <1>2, FS_CardinalityType, ZenonT(40)

\* There is a vacant key as long as fewer are in use than there are.
LEMMA SlotLeft ==
  ASSUME NEW n \in Nat, NEW V, NEW f, NEW s, Slots(f, s, 0 .. n - 1, V),
         Cardinality(DOMAIN f) < n
  PROVE  CanAlloc(s, 1)
<1>1. s \in Stack(Nat) /\ Range(s) = (0 .. n - 1) \ DOMAIN f /\ DOMAIN f \in SUBSET (0 .. n - 1)
  BY ZenonT(40) DEF Slots
<1>2. Cardinality(0 .. n - 1) = n /\ Cardinality(DOMAIN f) \in Nat
  BY <1>1, KeysFinite, ZenonT(40)
<1>3. DOMAIN f # 0 .. n - 1
  BY <1>2
<1>4. QED
  BY <1>1, <1>3, StackEmpty, ZenonT(40)

\* A value is removed.
LEMMA SlotsFree ==
  ASSUME NEW K \in SUBSET Nat, NEW V, NEW f, NEW s, Slots(f, s, K, V), NEW k \in DOMAIN f
  PROVE  Slots(Restrict(f, DOMAIN f \ {k}), FreeMany(s, <<k>>), K, V)
<1>1. k \in K /\ k \in Nat /\ s \in Stack(Nat) /\ k \notin Range(s)
  BY ZenonT(40) DEF Slots
<1>2. <<k>> \in Stack(Nat) /\ Range(<<k>>) = {k}
  BY <1>1, StackShort, ZenonT(40)
<1>3. FreeMany(s, <<k>>) \in Stack(Nat) /\ Range(FreeMany(s, <<k>>)) = Range(s) \cup {k}
  BY <1>1, <1>2, StackFree DEF FreeMany
<1> DEFINE g == Restrict(f, DOMAIN f \ {k})
           r == FreeMany(s, <<k>>)
<1>4. DOMAIN g = DOMAIN f \ {k} /\ \A j \in DOMAIN g : g[j] = f[j]
  BY ZenonT(40) DEF Restrict
<1> HIDE DEF g, r
<1>5. Range(r) = K \ DOMAIN g /\ r \in Stack(Nat)
  BY <1>1, <1>3, <1>4, ZenonT(40) DEF Slots, r
<1>6. Slots(g, r, K, V)
  BY <1>4, <1>5, ZenonT(40) DEF Slots
<1>7. QED
  BY <1>6, ZenonT(40) DEF g, r

\* A value is replaced.
LEMMA SlotsChange ==
  ASSUME NEW K, NEW V, NEW f, NEW s, Slots(f, s, K, V), NEW k \in DOMAIN f, NEW x \in V,
         NEW g, Changed(f, g, k, x)
  PROVE  Slots(g, s, K, V)
  BY ZenonT(40) DEF Slots, Changed

\* A value is added.
LEMMA SlotsTake ==
  ASSUME NEW K \in SUBSET Nat, NEW V, NEW f, NEW s, Slots(f, s, K, V), CanAlloc(s, 1),
         NEW x \in V
  PROVE  LET k == AllocMany(s, 1)[1]
         IN  /\ k \in K \ DOMAIN f /\ Slots(Occupy(f, k, x), AfterAlloc(s, 1), K, V)
<1> DEFINE k == AllocMany(s, 1)[1]
           r == AfterAlloc(s, 1)
           g == Occupy(f, k, x)
<1>1. s \in Stack(Nat) /\ Range(s) = K \ DOMAIN f
  BY ZenonT(40) DEF Slots
<1>2. k \in Range(s) /\ r \in Stack(Nat) /\ Range(r) = Range(s) \ {k}
  BY <1>1, StackPop, ZenonT(40)
<1> HIDE DEF k, r
<1>3. DOMAIN g = DOMAIN f \cup {k} /\ g[k] = x /\ \A j \in DOMAIN f \ {k} : g[j] = f[j]
  BY ZenonT(40) DEF Occupy
<1> HIDE DEF g
<1>4. Range(r) = K \ DOMAIN g
  BY <1>1, <1>2, <1>3, ZenonT(40)
<1>5. DOMAIN g \subseteq K /\ \A j \in DOMAIN g : g[j] \in V
  BY <1>1, <1>2, <1>3, ZenonT(40) DEF Slots
<1>6. k \in K \ DOMAIN f /\ Slots(g, r, K, V)
  BY <1>1, <1>2, <1>4, <1>5, ZenonT(40) DEF Slots
<1>7. QED
  BY <1>6, ZenonT(40) DEF g, k, r

\* Indices move between the free list and one owner.
LEMMA PartitionMove ==
  ASSUME NEW f, NEW g, NEW H, NEW K, NEW o, NEW count,
         Partitioned(f, H, count), IsInjective(g),
         DOMAIN K \ {o} = DOMAIN H \ {o},
         \A p \in DOMAIN H \ {o} : K[p] = H[p],
         o \in DOMAIN K => IsInjective(K[o]) /\ Range(K[o]) \cap Range(g) = {},
         Range(g) \cup (IF o \in DOMAIN K THEN Range(K[o]) ELSE {})
           = Range(f) \cup (IF o \in DOMAIN H THEN Range(H[o]) ELSE {})
  PROVE  Partitioned(g, K, count)
<1>1. /\ \A p \in DOMAIN H : IsInjective(H[p]) /\ Range(H[p]) \cap Range(f) = {}
      /\ \A p, q \in DOMAIN H : p # q => Range(H[p]) \cap Range(H[q]) = {}
      /\ \A x : x \in 0 .. count - 1 <=>
            x \in Range(f) \/ \E p \in DOMAIN H : x \in Range(H[p])
  BY DEF Partitioned
<1>2. \A p \in DOMAIN K : p # o => p \in DOMAIN H /\ K[p] = H[p]
  BY ZenonT(40)
<1>3. \A p \in DOMAIN H : p # o => p \in DOMAIN K
  BY ZenonT(40)
<1>4. \A x : (x \in Range(g) \/ (o \in DOMAIN K /\ x \in Range(K[o])))
               <=> (x \in Range(f) \/ (o \in DOMAIN H /\ x \in Range(H[o])))
  BY ZenonT(40)
<1>5. \A p \in DOMAIN K : IsInjective(K[p]) /\ Range(K[p]) \cap Range(g) = {}
  BY <1>1, <1>2, <1>4, ZenonT(40)
<1>6. \A p, q \in DOMAIN K : p # q => Range(K[p]) \cap Range(K[q]) = {}
  <2> SUFFICES ASSUME NEW p \in DOMAIN K, NEW q \in DOMAIN K, p # q, NEW x,
                      x \in Range(K[p]), x \in Range(K[q])
               PROVE  FALSE
    BY ZenonT(40)
  <2>1. CASE p # o /\ q # o
    BY <1>1, <1>2, <2>1, ZenonT(40)
  <2>2. CASE p = o
    BY <1>1, <1>2, <1>4, <2>2, ZenonT(40)
  <2>3. CASE q = o
    BY <1>1, <1>2, <1>4, <2>3, ZenonT(40)
  <2>4. QED
    BY <2>1, <2>2, <2>3, ZenonT(40)
<1>7. \A x : x \in 0 .. count - 1 <=>
          x \in Range(g) \/ \E p \in DOMAIN K : x \in Range(K[p])
  BY <1>1, <1>2, <1>3, <1>4
<1>8. QED
  BY <1>5, <1>6, <1>7 DEF Partitioned

\* A list that is two lists.
LEMMA ConcatIs ==
  ASSUME NEW S, NEW f \in Seq(S), NEW g \in Seq(S)
  PROVE  /\ f \o g \in Seq(S)
         /\ \A x : x \in Range(f \o g) <=> x \in Range(f) \/ x \in Range(g)
         /\ IsInjective(f \o g) <=>
              /\ IsInjective(f) /\ IsInjective(g)
              /\ \A x : ~ (x \in Range(f) /\ x \in Range(g))
<1> DEFINE h == f \o g
           m == Len(f)
           n == Len(g)
<1>1. /\ h \in Seq(S) /\ m \in Nat /\ n \in Nat /\ Len(h) = m + n
      /\ \A i \in 1 .. m : h[i] = f[i]
      /\ \A i \in 1 .. n : h[m + i] = g[i]
  OBVIOUS
<1> HIDE DEF h
<1>2. /\ \A x : x \in Range(f) <=> \E i \in 1 .. m : f[i] = x
      /\ \A x : x \in Range(g) <=> \E i \in 1 .. n : g[i] = x
      /\ \A x : x \in Range(h) <=> \E i \in 1 .. m + n : h[i] = x
      /\ IsInjective(f) <=> \A i, j \in 1 .. m : f[i] = f[j] => i = j
      /\ IsInjective(g) <=> \A i, j \in 1 .. n : g[i] = g[j] => i = j
      /\ IsInjective(h) <=> \A i, j \in 1 .. m + n : h[i] = h[j] => i = j
  <2>1. /\ \A x : x \in Range(f) <=> \E i \in 1 .. m : f[i] = x
        /\ IsInjective(f) <=> \A i, j \in 1 .. m : f[i] = f[j] => i = j
    BY ONLY f \in Seq(S), RangeIs DEF m
  <2>2. /\ \A x : x \in Range(g) <=> \E i \in 1 .. n : g[i] = x
        /\ IsInjective(g) <=> \A i, j \in 1 .. n : g[i] = g[j] => i = j
    BY ONLY g \in Seq(S), RangeIs DEF n
  <2>3. /\ \A x : x \in Range(h) <=> \E i \in 1 .. Len(h) : h[i] = x
        /\ IsInjective(h) <=> \A i, j \in 1 .. Len(h) : h[i] = h[j] => i = j
    BY ONLY <1>1, RangeIs, ZenonT(40)
  <2>4. QED
    BY <1>1, <2>1, <2>2, <2>3, ZenonT(40)
<1> HIDE DEF m, n
<1>3. /\ \A i \in 1 .. m : i \in 1 .. m + n
      /\ \A i \in 1 .. n : m + i \in 1 .. m + n
      /\ \A i \in 1 .. m + n : i \in 1 .. m \/ (i - m \in 1 .. n /\ i = m + (i - m))
      /\ \A i \in 1 .. m, j \in 1 .. n : i # m + j
      /\ \A i, j \in 1 .. n : m + i = m + j => i = j
  BY <1>1
<1>4. \A x : x \in Range(h) <=> x \in Range(f) \/ x \in Range(g)
  <2>1. ASSUME NEW x \in Range(f) PROVE x \in Range(h)
    BY <1>1, <1>2, <1>3
  <2>2. ASSUME NEW x \in Range(g) PROVE x \in Range(h)
    <3>1. PICK i \in 1 .. n : g[i] = x
      BY <1>2, ZenonT(40)
    <3>2. m + i \in 1 .. m + n /\ h[m + i] = x
      BY <1>1, <1>3, <3>1, ZenonT(40)
    <3>3. QED
      BY <1>2, <3>2, ZenonT(40)
  <2>3. ASSUME NEW x \in Range(h) PROVE x \in Range(f) \/ x \in Range(g)
    <3>1. PICK i \in 1 .. m + n : h[i] = x
      BY <1>2, ZenonT(40)
    <3>2. CASE i \in 1 .. m
      BY <1>1, <1>2, <3>1, <3>2, ZenonT(40)
    <3>3. CASE i - m \in 1 .. n /\ i = m + (i - m)
      <4>1. g[i - m] = x
        BY <1>1, <3>1, <3>3, ZenonT(40)
      <4>2. QED
        BY <1>2, <3>3, <4>1, ZenonT(40)
    <3>4. QED
      BY <1>3, <3>2, <3>3, ZenonT(40)
  <2>4. QED
    BY <2>1, <2>2, <2>3, ZenonT(40)
<1>5. ASSUME IsInjective(h)
      PROVE  IsInjective(f) /\ IsInjective(g) /\ \A x : ~ (x \in Range(f) /\ x \in Range(g))
  <2>1. IsInjective(f)
    BY <1>1, <1>2, <1>3, <1>5
  <2>2. ASSUME NEW i \in 1 .. n, NEW j \in 1 .. n, g[i] = g[j] PROVE i = j
    <3>1. h[m + i] = h[m + j] /\ m + i \in 1 .. m + n /\ m + j \in 1 .. m + n
      BY <1>1, <1>3, <2>2, ZenonT(40)
    <3>2. m + i = m + j
      BY <1>2, <1>5, <3>1, ZenonT(40)
    <3>3. QED
      BY <1>3, <3>2, ZenonT(40)
  <2>3. ASSUME NEW x, x \in Range(f), x \in Range(g) PROVE FALSE
    <3>1. PICK i \in 1 .. m : f[i] = x
      BY <1>2, <2>3, ZenonT(40)
    <3>2. PICK j \in 1 .. n : g[j] = x
      BY <1>2, <2>3, ZenonT(40)
    <3>3. h[i] = h[m + j] /\ i \in 1 .. m + n /\ m + j \in 1 .. m + n
      BY <1>1, <1>3, <3>1, <3>2, ZenonT(40)
    <3>4. i = m + j
      BY <1>2, <1>5, <3>3, ZenonT(40)
    <3>5. QED
      BY <1>3, <3>4, ZenonT(40)
  <2>4. QED
    BY <1>2, <2>1, <2>2, <2>3, ZenonT(40)
<1>6. ASSUME IsInjective(f), IsInjective(g), \A x : ~ (x \in Range(f) /\ x \in Range(g))
      PROVE  IsInjective(h)
  <2>1. ASSUME NEW i \in 1 .. m + n, NEW j \in 1 .. m + n, h[i] = h[j] PROVE i = j
    <3>1. CASE i \in 1 .. m /\ j \in 1 .. m
      BY <1>1, <1>2, <1>6, <2>1, <3>1
    <3>2. CASE i \in 1 .. m /\ j - m \in 1 .. n
      <4>1. f[i] = g[j - m] /\ f[i] \in Range(f) /\ g[j - m] \in Range(g)
        BY <1>1, <1>2, <2>1, <3>2
      <4>2. QED
        BY <1>6, <4>1, ZenonT(40)
    <3>3. CASE i - m \in 1 .. n /\ j \in 1 .. m
      <4>1. g[i - m] = f[j] /\ f[j] \in Range(f) /\ g[i - m] \in Range(g)
        BY <1>1, <1>2, <2>1, <3>3
      <4>2. QED
        BY <1>6, <4>1, ZenonT(40)
    <3>4. CASE i - m \in 1 .. n /\ j - m \in 1 .. n
      <4>1. h[i] = g[i - m] /\ h[j] = g[j - m]
        BY <1>1, <3>4
      <4>2. i - m = j - m
        BY <1>2, <1>6, <2>1, <3>4, <4>1, ZenonT(40)
      <4>3. QED
        BY <1>1, <4>2
    <3>5. QED
      BY <1>1, <3>1, <3>2, <3>3, <3>4
  <2>2. QED
    BY <1>2, <2>1, ZenonT(40)
<1>7. QED
  BY <1>1, <1>4, <1>5, <1>6, ZenonT(40) DEF h

\* A connection has its two buffers and those of its chains.
LEMMA PairIs ==
  ASSUME NEW r \in Nat, NEW w \in Nat
  PROVE  /\ <<r, w>> \in Seq(Nat) /\ \A x : x \in Range(<<r, w>>) <=> x = r \/ x = w
         /\ IsInjective(<<r, w>>) <=> r # w
<1> DEFINE q == <<r, w>>
<1>1. q \in Seq(Nat) /\ Len(q) = 2 /\ q[1] = r /\ q[2] = w
  OBVIOUS
<1> HIDE DEF q
<1>2. 1 .. 2 = {1, 2}
  OBVIOUS
<1>3. /\ \A x : x \in Range(q) <=> \E i \in {1, 2} : q[i] = x
      /\ IsInjective(q) <=> \A i, j \in {1, 2} : q[i] = q[j] => i = j
  <2>1. /\ \A x : x \in Range(q) <=> \E i \in 1 .. Len(q) : q[i] = x
        /\ IsInjective(q) <=> \A i, j \in 1 .. Len(q) : q[i] = q[j] => i = j
    BY ONLY <1>1, RangeIs, ZenonT(40)
  <2>2. QED
    BY <1>1, <1>2, <2>1
<1>4. (\A x : x \in Range(q) <=> x = r \/ x = w) /\ (IsInjective(q) <=> r # w)
  BY <1>1, <1>3
<1>5. QED
  BY <1>1, <1>4, ZenonT(40) DEF q

\* The buffers of a connection: read buffer, write buffer and two chains hold no
\* buffer twice exactly if each is apart from the others.
LEMMA OwnIs ==
  ASSUME NEW r \in Nat, NEW w \in Nat, NEW f \in Seq(Nat), NEW g \in Seq(Nat)
  PROVE  LET q == <<r, w>> \o f \o g
         IN  /\ q \in Seq(Nat)
             /\ \A x : x \in Range(q) <=> x = r \/ x = w \/ x \in Range(f) \/ x \in Range(g)
             /\ IsInjective(q) <=>
                  /\ r # w /\ IsInjective(f) /\ IsInjective(g)
                  /\ r \notin Range(f) /\ w \notin Range(f)
                  /\ r \notin Range(g) /\ w \notin Range(g)
                  /\ \A x : ~ (x \in Range(f) /\ x \in Range(g))
<1> DEFINE p == <<r, w>>
           pf == p \o f
           q == pf \o g
<1>1. p \in Seq(Nat) /\ (\A x : x \in Range(p) <=> x = r \/ x = w) /\ (IsInjective(p) <=> r # w)
  BY PairIs, ZenonT(40)
<1> HIDE DEF p
<1>2. /\ pf \in Seq(Nat) /\ \A x : x \in Range(pf) <=> x \in Range(p) \/ x \in Range(f)
      /\ IsInjective(pf) <=>
           IsInjective(p) /\ IsInjective(f) /\ \A x : ~ (x \in Range(p) /\ x \in Range(f))
  BY ONLY <1>1, f \in Seq(Nat), ConcatIs
<1> HIDE DEF pf
<1>3. /\ q \in Seq(Nat) /\ \A x : x \in Range(q) <=> x \in Range(pf) \/ x \in Range(g)
      /\ IsInjective(q) <=>
           IsInjective(pf) /\ IsInjective(g) /\ \A x : ~ (x \in Range(pf) /\ x \in Range(g))
  BY ONLY <1>2, g \in Seq(Nat), ConcatIs
<1> HIDE DEF q
<1>4. /\ q \in Seq(Nat)
      /\ \A x : x \in Range(q) <=> x = r \/ x = w \/ x \in Range(f) \/ x \in Range(g)
  BY <1>1, <1>2, <1>3, ZenonT(40)
<1>5. IsInjective(q) <=>
        /\ r # w /\ IsInjective(f) /\ IsInjective(g)
        /\ r \notin Range(f) /\ w \notin Range(f)
        /\ r \notin Range(g) /\ w \notin Range(g)
        /\ \A x : ~ (x \in Range(f) /\ x \in Range(g))
  <2>1. (\A x : ~ (x \in Range(p) /\ x \in Range(f))) <=> r \notin Range(f) /\ w \notin Range(f)
    BY <1>1, ZenonT(40)
  <2>2. (\A x : ~ (x \in Range(pf) /\ x \in Range(g)))
          <=> /\ r \notin Range(g) /\ w \notin Range(g)
              /\ \A x : ~ (x \in Range(f) /\ x \in Range(g))
    BY <1>1, <1>2, ZenonT(40)
  <2>3. QED
    BY <1>1, <1>2, <1>3, <2>1, <2>2, ZenonT(40)
<1>6. QED
  BY <1>4, <1>5, ZenonT(40) DEF q, pf, p

-----------------------------------------------------------------------------
(* io_slices.                                                              *)

\* The state of the loop of io_slices.
Slicing == [skip : Nat, remaining : Nat, slots : Seq(Nat \ {0})]

\* A turn keeps its type, and the slices that are there.
LEMMA SliceTurnIs ==
  ASSUME NEW acc \in Slicing, NEW b \in Nat \ {0}, NEW size \in Nat \ {0}
  PROVE  /\ SliceTurn(acc, b, size) \in Slicing
         /\ Len(SliceTurn(acc, b, size).slots) >= Len(acc.slots)
         /\ acc.skip = 0 /\ acc.remaining > 0 => Len(SliceTurn(acc, b, size).slots) > 0
<1> DEFINE chunk_len == Min({acc.remaining, size})
           more == [i \in 1 .. chunk_len - acc.skip |-> (b - 1) * size + acc.skip + i]
<1>1. /\ acc.skip \in Nat /\ acc.remaining \in Nat /\ acc.slots \in Seq(Nat \ {0})
      /\ acc = [skip |-> acc.skip, remaining |-> acc.remaining, slots |-> acc.slots]
  BY ZenonT(40) DEF Slicing
<1>2. /\ chunk_len \in Nat /\ chunk_len <= acc.remaining
      /\ acc.remaining > 0 => chunk_len > 0
  <2> DEFINE a == acc.remaining
  <2>1. a \in Nat /\ size \in Nat /\ size > 0
    BY <1>1
  <2> HIDE DEF a
  <2>2. /\ Min({a, size}) \in Nat /\ Min({a, size}) \in {a, size} /\ Min({a, size}) <= a
    BY ONLY <2>1, MinOfTwo
  <2>3. QED
    BY <2>1, <2>2, ZenonT(40) DEF a
<1>3. SliceTurn(acc, b, size) =
        IF acc.skip >= chunk_len THEN [acc EXCEPT !.skip = @ - chunk_len]
        ELSE [skip |-> 0, remaining |-> acc.remaining - chunk_len, slots |-> acc.slots \o more]
  BY ZenonT(40) DEF SliceTurn
<1> HIDE DEF chunk_len
<1>4. CASE acc.skip >= chunk_len
  <2> DEFINE next == [acc EXCEPT !.skip = @ - chunk_len]
  <2>1. next \in Slicing /\ next.slots = acc.slots
    BY <1>1, <1>2, <1>4 DEF Slicing
  <2>2. QED
    BY <1>1, <1>2, <1>3, <1>4, <2>1
<1>5. CASE ~ (acc.skip >= chunk_len)
  <2> DEFINE n == chunk_len - acc.skip
             base == (b - 1) * size + acc.skip
             slots == acc.slots \o more
             next == [skip |-> 0, remaining |-> acc.remaining - chunk_len, slots |-> slots]
  <2>1. n \in Nat \ {0} /\ acc.remaining - chunk_len \in Nat
    BY <1>1, <1>2, <1>5
  <2>2. base \in Nat
    <3>1. b - 1 \in Nat
      OBVIOUS
    <3>2. (b - 1) * size \in Nat
      BY <3>1
    <3>3. QED
      BY <1>1, <3>2
  <2>3. more = [i \in 1 .. n |-> base + i]
    BY ZenonT(40)
  <2> HIDE DEF n, base, more
  <2>4. more \in Seq(Nat \ {0}) /\ Len(more) = n
    BY <2>1, <2>2, <2>3
  <2>5. slots \in Seq(Nat \ {0}) /\ Len(slots) = Len(acc.slots) + n /\ Len(acc.slots) \in Nat
    <3> DEFINE s == acc.slots
    <3>1. s \in Seq(Nat \ {0})
      BY <1>1, ZenonT(40)
    <3> HIDE DEF s
    <3>2. s \o more \in Seq(Nat \ {0}) /\ Len(s \o more) = Len(s) + Len(more) /\ Len(s) \in Nat
      BY ONLY <2>4, <3>1
    <3>3. QED
      BY <2>4, <3>2, ZenonT(40) DEF s
  <2>6. SliceTurn(acc, b, size) = next
    BY <1>3, <1>5, ZenonT(40)
  <2> HIDE DEF slots
  <2>7. next \in Slicing /\ next.slots = slots
    BY <2>1, <2>5, ZenonT(40) DEF Slicing
  <2> HIDE DEF next
  <2>8. QED
    BY <2>1, <2>5, <2>6, <2>7
<1>6. QED
  BY <1>4, <1>5, ZenonT(40)

\* A run of the loop over the first n buffers.
Turns(g, n, first, size) ==
  g = [b \in 0 .. n |-> IF b = 0 THEN first ELSE SliceTurn(g[b - 1], b, size)]

\* There is such a run.
LEMMA TurnsExist ==
  ASSUME NEW first, NEW size
  PROVE  \A n \in Nat : \E g : Turns(g, n, first, size)
<1> DEFINE S == {n \in Nat : \E g : Turns(g, n, first, size)}
<1>1. 0 \in S
  <2> DEFINE g == [b \in 0 .. 0 |-> first]
  <2>1. Turns(g, 0, first, size)
    BY DEF Turns
  <2>2. QED
    BY <2>1, ZenonT(40)
<1>2. ASSUME NEW n \in Nat, n \in S PROVE n + 1 \in S
  <2>1. PICK g : Turns(g, n, first, size)
    BY <1>2, ZenonT(40)
  <2> DEFINE h == [b \in 0 .. n + 1 |-> IF b = n + 1 THEN SliceTurn(g[n], n + 1, size) ELSE g[b]]
             k == [b \in 0 .. n + 1 |-> IF b = 0 THEN first ELSE SliceTurn(h[b - 1], b, size)]
  <2>2. ASSUME NEW b \in 0 .. n + 1 PROVE h[b] = k[b]
    <3>1. CASE b = 0
      <4>1. g[0] = first
        BY <2>1 DEF Turns
      <4>2. QED
        BY <3>1, <4>1
    <3>2. CASE b = n + 1
      <4>1. h[b - 1] = g[n]
        BY <3>2
      <4>2. QED
        BY <3>2, <4>1
    <3>3. CASE b # 0 /\ b # n + 1
      <4>1. b \in 0 .. n /\ b - 1 \in 0 .. n
        BY <3>3
      <4>2. g[b] = SliceTurn(g[b - 1], b, size)
        BY <2>1, <3>3, <4>1, ZenonT(40) DEF Turns
      <4>3. h[b] = g[b] /\ h[b - 1] = g[b - 1]
        BY <3>3, <4>1
      <4>4. QED
        BY <3>3, <4>2, <4>3, ZenonT(40)
    <3>4. QED
      BY <3>1, <3>2, <3>3, ZenonT(40)
  <2>3. h = k
    BY <2>2, ZenonT(40)
  <2> HIDE DEF h
  <2>4. Turns(h, n + 1, first, size)
    BY <2>3, ZenonT(40) DEF Turns
  <2>5. QED
    BY <2>4
<1> HIDE DEF S
<1>3. Nat \subseteq S
  BY <1>1, <1>2, NumberInduction, ZenonT(40)
<1>4. QED
  BY <1>3, ZenonT(40) DEF S

\* io_slices offers positions of bytes, and at least one at the start of a chain
\* that holds bytes.
LEMMA IoSlicesIs ==
  ASSUME NEW count \in Nat, NEW len \in Nat, NEW size \in Nat \ {0}, NEW start_offset \in 0 .. len
  PROVE  /\ IoSlices(count, len, size, start_offset) \in Seq(Nat \ {0})
         /\ start_offset = 0 /\ len > 0 /\ count > 0
              => Len(IoSlices(count, len, size, start_offset)) > 0
<1> DEFINE first == [skip |-> start_offset, remaining |-> len - start_offset, slots |-> <<>>]
           turn == CHOOSE g : Turns(g, count, first, size)
<1>1. IoSlices(count, len, size, start_offset) = turn[count].slots
  BY ZenonT(40) DEF IoSlices, Turns
<1>2. Turns(turn, count, first, size)
  BY TurnsExist, ZenonT(40)
<1>3. first \in Slicing /\ first.skip = start_offset /\ first.remaining = len - start_offset
  BY DEF Slicing
<1> HIDE DEF turn, first
<1>4. /\ turn[0] = first
      /\ \A b \in 1 .. count : turn[b] = SliceTurn(turn[b - 1], b, size)
  BY <1>2 DEF Turns
<1> DEFINE S == {n \in Nat : n <= count =>
                   /\ turn[n] \in Slicing
                   /\ start_offset = 0 /\ len > 0 /\ n > 0 => Len(turn[n].slots) > 0}
<1>5. 0 \in S
  BY <1>3, <1>4
<1>6. ASSUME NEW n \in Nat, n \in S PROVE n + 1 \in S
  <2> DEFINE acc == turn[n]
             next == SliceTurn(acc, n + 1, size)
  <2>1. SUFFICES ASSUME n + 1 <= count
                 PROVE  /\ turn[n + 1] \in Slicing
                        /\ start_offset = 0 /\ len > 0 => Len(turn[n + 1].slots) > 0
    OBVIOUS
  <2>2. acc \in Slicing /\ (start_offset = 0 /\ len > 0 /\ n > 0 => Len(acc.slots) > 0)
    BY <1>6, <2>1
  <2>3. turn[n + 1] = next
    <3>1. n + 1 \in 1 .. count /\ (n + 1) - 1 = n
      BY <2>1
    <3>2. QED
      BY <1>4, <3>1, ZenonT(40)
  <2>4. n = 0 => acc.skip = start_offset /\ acc.remaining = len - start_offset
    BY <1>3, <1>4, ZenonT(40)
  <2> HIDE DEF acc
  <2>5. /\ next \in Slicing /\ Len(next.slots) >= Len(acc.slots)
        /\ acc.skip = 0 /\ acc.remaining > 0 => Len(next.slots) > 0
    <3>1. n + 1 \in Nat \ {0}
      OBVIOUS
    <3>2. QED
      BY <2>2, <3>1, SliceTurnIs, ZenonT(40)
  <2>6. Len(next.slots) \in Nat /\ Len(acc.slots) \in Nat
    BY <2>2, <2>5 DEF Slicing
  <2> HIDE DEF next
  <2>7. QED
    BY <2>2, <2>3, <2>4, <2>5, <2>6
<1> HIDE DEF S
<1>7. Nat \subseteq S
  BY <1>5, <1>6, NumberInduction, ZenonT(40)
<1>8. /\ turn[count] \in Slicing
      /\ start_offset = 0 /\ len > 0 /\ count > 0 => Len(turn[count].slots) > 0
  BY <1>7 DEF S
<1>9. QED
  BY <1>1, <1>8, ZenonT(40) DEF Slicing

-----------------------------------------------------------------------------
(* Sockets.                                                                *)

NetType == net \in [Clients -> Socket] /\ backlog \in Seq(Clients)

\* The fields of a socket.
LEMMA SocketFields ==
  ASSUME NEW s \in Socket
  PROVE  /\ s.server \in {"new", "waiting", "open", "closed"}
         /\ s.peer \in {"open", "shutdown", "reset"} /\ s.sent \in Nat
         /\ s.inbox \in Seq(Nat) /\ s.outbox \in Seq(Nat \X Nat)
         /\ s.got \in Seq(Nat \X Nat)
  BY ZenonT(40) DEF Socket

\* The updates that the program and the clients make.
LEMMA SocketUpdates ==
  ASSUME NEW s \in Socket
  PROVE  /\ \A v \in {"new", "waiting", "open", "closed"} : [s EXCEPT !.server = v] \in Socket
         /\ \A p \in {"open", "shutdown", "reset"}, b \in Seq(Nat) :
              [s EXCEPT !.peer = p, !.inbox = b] \in Socket
         /\ \A n \in Nat, b \in Seq(Nat) : [s EXCEPT !.sent = n, !.inbox = b] \in Socket
         /\ \A b \in Seq(Nat) : [s EXCEPT !.inbox = b] \in Socket
         /\ \A v \in {"new", "waiting", "open", "closed"}, b \in Seq(Nat) :
              [s EXCEPT !.server = v, !.inbox = b] \in Socket
         /\ \A b \in Seq(Nat \X Nat) : [s EXCEPT !.outbox = b] \in Socket
         /\ \A g \in Seq(Nat \X Nat), b \in Seq(Nat \X Nat) :
              [s EXCEPT !.got = g, !.outbox = b] \in Socket
  BY ZenonT(40) DEF Socket

\* A client that connects.
LEMMA ConnectType ==
  ASSUME NetType, NEW c \in Clients, Connect(c)
  PROVE  NetType'
<1>1. net[c] \in Socket
  BY ZenonT(40) DEF NetType
<1>2. [net[c] EXCEPT !.server = "waiting"] \in Socket
  BY <1>1, SocketUpdates, ZenonT(40)
<1>3. QED
  BY <1>2 DEF Connect, NetType

\* A client that sends a part of its script.
LEMMA SendType ==
  ASSUME NetType, NEW c \in Clients, Send(c)
  PROVE  NetType'
<1>1. net[c] \in Socket /\ net[c].sent \in Nat /\ net[c].inbox \in Seq(Nat)
  BY SocketFields, ZenonT(40) DEF NetType
<1> DEFINE more(upto) == [i \in 1 .. upto - net[c].sent |-> net[c].sent + i]
<1>2. PICK upto \in net[c].sent + 1 .. SendLimit(c) :
        /\ net' = [net EXCEPT ![c] = [net[c] EXCEPT !.sent = upto,
                     !.inbox = net[c].inbox \o more(upto)]]
        /\ backlog' = backlog
  BY ZenonT(40) DEF Send, NetType
<1>3. upto \in Nat /\ upto - net[c].sent \in Nat
  BY <1>1, <1>2
<1>4. more(upto) \in Seq(Nat)
  <2>1. \A i \in 1 .. upto - net[c].sent : net[c].sent + i \in Nat
    BY <1>1, <1>3
  <2>2. more(upto) \in [1 .. upto - net[c].sent -> Nat]
    BY <2>1, ZenonT(40)
  <2> HIDE DEF more
  <2>3. QED
    BY <1>3, <2>2, SeqIs, ZenonT(40)
<1> HIDE DEF more
<1>5. net[c].inbox \o more(upto) \in Seq(Nat)
  BY <1>1, <1>4
<1>6. [net[c] EXCEPT !.sent = upto, !.inbox = net[c].inbox \o more(upto)] \in Socket
  BY <1>1, <1>3, <1>5, SocketUpdates, ZenonT(40)
<1>7. QED
  BY <1>2, <1>6, ZenonT(40) DEF NetType

\* A client that shuts its side down or resets the connection.
LEMMA LeaveType ==
  ASSUME NetType, NEW c \in Clients, Leave(c)
  PROVE  NetType'
<1>1. net[c] \in Socket /\ net[c].inbox \in Seq(Nat)
  BY SocketFields, ZenonT(40) DEF NetType
<1>2. PICK how \in Departures[c] :
        /\ net' = [net EXCEPT ![c] = [net[c] EXCEPT !.peer = how,
                     !.inbox = IF how = "reset" THEN <<>> ELSE net[c].inbox]]
        /\ backlog' = backlog
  BY ZenonT(40) DEF Leave, NetType
<1>3. how \in {"shutdown", "reset"}
  BY NetworkAssumption, ZenonT(40)
<1>4. (IF how = "reset" THEN <<>> ELSE net[c].inbox) \in Seq(Nat)
  BY <1>1
<1>5. [net[c] EXCEPT !.peer = how,
         !.inbox = IF how = "reset" THEN <<>> ELSE net[c].inbox] \in Socket
  BY <1>1, <1>3, <1>4, SocketUpdates, ZenonT(40)
<1>6. QED
  BY <1>2, <1>5, ZenonT(40) DEF NetType

\* The two parts of a sequence that is cut.
LEMMA CutType ==
  ASSUME NEW S, NEW q \in Seq(S), NEW n \in 1 .. Len(q)
  PROVE  /\ SubSeq(q, 1, n) \in Seq(S)
         /\ SubSeq(q, n + 1, Len(q)) \in Seq(S)
         /\ Len(SubSeq(q, n + 1, Len(q))) = Len(q) - n
  OBVIOUS

\* A client that takes bytes of its replies.
LEMMA ReceiveType ==
  ASSUME NetType, NEW c \in Clients, Receive(c)
  PROVE  NetType'
<1> DEFINE out == net[c].outbox
           front(n) == net[c].got \o SubSeq(out, 1, n)
           rest(n) == SubSeq(out, n + 1, Len(out))
<1>1. net[c] \in Socket /\ out \in Seq(Nat \X Nat) /\ net[c].got \in Seq(Nat \X Nat)
  BY SocketFields, ZenonT(40) DEF NetType
<1>2. PICK n \in 1 .. Len(out) :
        /\ net' = [net EXCEPT ![c] = [net[c] EXCEPT !.got = front(n), !.outbox = rest(n)]]
        /\ backlog' = backlog
  BY ZenonT(40) DEF Receive, NetType
<1>3. SubSeq(out, 1, n) \in Seq(Nat \X Nat) /\ rest(n) \in Seq(Nat \X Nat)
  BY <1>1, CutType, ZenonT(40)
<1>4. front(n) \in Seq(Nat \X Nat)
  BY <1>1, <1>3
<1> HIDE DEF front, rest
<1>5. [net[c] EXCEPT !.got = front(n), !.outbox = rest(n)] \in Socket
  BY <1>1, <1>3, <1>4, SocketUpdates, ZenonT(40)
<1>6. QED
  BY <1>2, <1>5, ZenonT(40) DEF NetType

-----------------------------------------------------------------------------
(* Request processing.                                                     *)

ProcessResult ==
  {NeedData, Quit, Error}
    \cup [tag : {"NeedChain"}, command_len : Nat, value_len : Nat]
    \cup [tag : {"Response"}, consumed : Nat, reply : Nat]
    \cup [tag : {"LargeResponse"}, consumed : Nat, reply : Nat \ {0}]

\* A response has numbers of bytes.
LEMMA ResponseType ==
  ASSUME NEW m \in Nat, NEW n \in Nat
  PROVE  /\ Response(m, n) \in ProcessResult
         /\ n > 0 => LargeResponse(m, n) \in ProcessResult
         /\ NeedChain(m, n) \in ProcessResult
         /\ Truncated(m, n) \in ProcessResult /\ Whole(m, n) \in ProcessResult
<1>1. /\ Response(m, n) \in ProcessResult /\ NeedChain(m, n) \in ProcessResult
      /\ n > 0 => LargeResponse(m, n) \in ProcessResult
  BY DEF Response, LargeResponse, NeedChain, ProcessResult
<1>2. Min({n, BufferSize}) \in Nat
  <2>1. \E x \in {n, BufferSize} : \A y \in {n, BufferSize} : x <= y
    BY ProcessingAssumption
  <2>2. QED
    BY <2>1, ProcessingAssumption, ZenonT(40) DEF Min
<1>3. Response(m, Min({n, BufferSize})) \in ProcessResult
  BY <1>2, ZenonT(40) DEF Response, ProcessResult
<1>4. n > BufferSize => n > 0
  BY ProcessingAssumption
<1>5. QED
  BY <1>1, <1>3, <1>4, ZenonT(40) DEF Truncated, Whole

\* Processing a request returns a ProcessResult.
LEMMA ProcessedType ==
  ASSUME NEW q \in Request, NEW n \in Nat
  PROVE  Processed(q, n) \in ProcessResult
<1>1. /\ q.kind \in Kinds /\ q.header \in Nat /\ q.value \in Nat /\ q.reply \in Nat
      /\ Length(q) \in Nat /\ q.header + 2 \in Nat /\ ErrorReply \in Nat
  BY DEF Request, Length, ErrorReply
<1>2. NeedData \in ProcessResult /\ Quit \in ProcessResult /\ Error \in ProcessResult
  BY ZenonT(40) DEF ProcessResult
<1>3. Missing(q) \in ProcessResult
  BY <1>1, <1>2, ResponseType, ZenonT(40) DEF Missing
<1>4. \A a, b \in Nat : /\ Response(a, b) \in ProcessResult
                       /\ Truncated(a, b) \in ProcessResult /\ Whole(a, b) \in ProcessResult
  BY ResponseType, ZenonT(40)
<1>5. n < q.header \/ n >= q.header
  BY <1>1
<1> HIDE DEF ProcessResult
<1>6. process_memcached(q, n) \in ProcessResult
  BY <1>1, <1>2, <1>3, <1>4, <1>5, ZenonT(40) DEF process_memcached, Kinds
<1>7. process_resp(q, n) \in ProcessResult
  BY <1>1, <1>2, <1>3, <1>4, <1>5 DEF process_resp, Kinds
<1>8. process_ping(q, n) \in ProcessResult
  BY <1>1, <1>2, <1>3, <1>4, <1>5, ZenonT(40) DEF process_ping, Kinds
<1>9. process_echo(q, n) \in ProcessResult
  BY <1>1, <1>2, <1>3, <1>4, <1>5, ZenonT(40) DEF process_echo, Kinds
<1>10. QED
  BY <1>6, <1>7, <1>8, <1>9, ProcessingAssumption, ZenonT(40) DEF Processed

\* So does processing whatever was received.
LEMMA ProcessType ==
  ASSUME NEW c \in Clients, NEW input \in Seq(Nat), NEW p \in Process(c, input)
  PROVE  p.request \in Nat /\ p.result \in ProcessResult
<1> DEFINE n == Len(input)
           framed == {r \in DOMAIN Script[c] :
                        \A i \in 1 .. n : input[i] = SentLength[c][r - 1] + i}
<1>1. n \in Nat /\ n + 1 \in Nat /\ BufferSize + 1 \in Nat
  BY ProcessingAssumption
<1>2. CASE framed # {}
  <2>1. PICK r \in framed : p = [request |-> r, result |-> Processed(Script[c][r], n)]
    BY <1>2, ZenonT(40) DEF Process
  <2>2. r \in Nat /\ Script[c][r] \in Request
    BY NetworkAssumption
  <2>3. QED
    BY <1>1, <2>1, <2>2, ProcessedType, ZenonT(40)
<1>3. CASE framed = {}
  <2>1. PICK result \in Unframed(n) : p = [request |-> 0, result |-> result]
    BY <1>3, ZenonT(40) DEF Process
  <2> HIDE DEF n, framed
  <2>2. /\ 1 .. n \subseteq Nat /\ 0 .. n \subseteq Nat /\ 0 .. BufferSize \subseteq Nat
        /\ BufferSize + 1 .. MaxValueSize \subseteq Nat
        /\ BufferSize + 1 .. MaxReply \subseteq Nat \ {0}
    BY <1>1, ProcessingAssumption
  <2>3. result \in ProcessResult
    BY <2>1, <2>2, ZenonT(40) DEF Unframed, ProcessResult
  <2>4. QED
    BY <2>1, <2>3, ZenonT(40)
<1>4. QED
  BY <1>2, <1>3, ZenonT(40)
=============================================================================
