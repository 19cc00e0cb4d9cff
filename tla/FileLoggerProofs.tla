-------------------------- MODULE FileLoggerProofs --------------------------
(***************************************************************************)
(* For any tasks, buffers and messages: the buffers of the file logger are *)
(* conserved, and the logger implements LogFile: the file gets the         *)
(* messages whole and in order.  The first invariant says, pair by pair,   *)
(* that no two of the places where a buffer can be hold the same one, and  *)
(* that one of them holds it; the second adds what the characters need.    *)
(***************************************************************************)
EXTENDS FileLogger, Integers, FiniteSetTheorems, SequenceTheorems, WellFoundedInduction, TLAPS

Pointer == Buffers \cup {NoBuffer}

Shapes ==
    /\ emptyQueue \in Seq(Buffers)
    /\ writeQueue \in Seq(Pointer)
    /\ logMsg \in Pointer
    /\ DOMAIN caller = Tasks
    /\ \A t \in Tasks : caller[t].buffer \in Pointer
    /\ \A t \in Tasks : caller[t].at # "handOver" => caller[t].buffer = NoBuffer

InEmpty(b)  == \E i \in DOMAIN emptyQueue : emptyQueue[i] = b
InWrite(b)  == \E i \in DOMAIN writeQueue : writeQueue[i] = b
WithTask(b) == \E t \in Tasks : caller[t].buffer = b

Distinct ==
    /\ \A i, j \in DOMAIN emptyQueue : emptyQueue[i] = emptyQueue[j] => i = j
    /\ \A i, j \in DOMAIN writeQueue :
          writeQueue[i] = writeQueue[j] /\ writeQueue[i] # NoBuffer => i = j
    /\ \A t, u \in Tasks :
          caller[t].buffer = caller[u].buffer /\ caller[t].buffer # NoBuffer => t = u
    /\ \A b \in Buffers : /\ InEmpty(b) => ~ InWrite(b) /\ ~ WithTask(b) /\ logMsg # b
                          /\ InWrite(b) => ~ WithTask(b) /\ logMsg # b
                          /\ WithTask(b) => logMsg # b

Somewhere ==
    IF phase = "off" THEN \A b \in Buffers : ~ InEmpty(b) /\ ~ InWrite(b) /\ ~ WithTask(b)
                                             /\ logMsg # b
    ELSE \A b \in Buffers : InEmpty(b) \/ InWrite(b) \/ WithTask(b) \/ logMsg = b

IInv == Shapes /\ Distinct /\ Somewhere

-----------------------------------------------------------------------------
(***************************************************************************)
(* What taking from and putting into a queue does to its places.           *)
(***************************************************************************)
LEMMA TailHas ==
    ASSUME NEW S, NEW q \in Seq(S), q # << >>
    PROVE  /\ Head(q) \in S /\ Tail(q) \in Seq(S)
           /\ 1 \in DOMAIN q /\ Head(q) = q[1]
           /\ DOMAIN Tail(q) = 1 .. Len(q) - 1
           /\ \A i \in DOMAIN Tail(q) : i + 1 \in DOMAIN q /\ i + 1 # 1 /\ Tail(q)[i] = q[i + 1]
           /\ \A b : (\E i \in DOMAIN q : q[i] = b) <=>
                     b = Head(q) \/ \E i \in DOMAIN Tail(q) : Tail(q)[i] = b
  <1>1. /\ Head(q) \in S /\ Tail(q) \in Seq(S)
        /\ 1 \in DOMAIN q /\ Head(q) = q[1]
        /\ DOMAIN Tail(q) = 1 .. Len(q) - 1
        /\ \A i \in DOMAIN Tail(q) : i + 1 \in DOMAIN q /\ i + 1 # 1 /\ Tail(q)[i] = q[i + 1]
    OBVIOUS
  <1>2. ASSUME NEW i \in DOMAIN q
        PROVE  i = 1 \/ (i - 1 \in DOMAIN Tail(q) /\ Tail(q)[i - 1] = q[i])
    BY <1>1
  <1>3. ASSUME NEW b, NEW i \in DOMAIN q, q[i] = b
        PROVE  b = Head(q) \/ \E j \in DOMAIN Tail(q) : Tail(q)[j] = b
    BY <1>1, <1>2, <1>3
  <1>4. ASSUME NEW b, b = Head(q) \/ \E j \in DOMAIN Tail(q) : Tail(q)[j] = b
        PROVE  \E i \in DOMAIN q : q[i] = b
    BY <1>1, <1>4
  <1> QED
    BY <1>1, <1>3, <1>4

LEMMA AppendHas ==
    ASSUME NEW S, NEW q \in Seq(S), NEW x \in S
    PROVE  /\ Append(q, x) \in Seq(S)
           /\ DOMAIN Append(q, x) = 1 .. Len(q) + 1
           /\ DOMAIN q = 1 .. Len(q) /\ Len(q) \in Nat
           /\ \A i \in DOMAIN q : Append(q, x)[i] = q[i]
           /\ Append(q, x)[Len(q) + 1] = x
           /\ \A b : (\E i \in DOMAIN Append(q, x) : Append(q, x)[i] = b) <=>
                     b = x \/ \E i \in DOMAIN q : q[i] = b
  <1>1. /\ Append(q, x) \in Seq(S)
        /\ DOMAIN Append(q, x) = 1 .. Len(q) + 1
        /\ DOMAIN q = 1 .. Len(q) /\ Len(q) \in Nat
        /\ \A i \in DOMAIN q : Append(q, x)[i] = q[i]
        /\ Append(q, x)[Len(q) + 1] = x
    OBVIOUS
  <1>2. \A i \in DOMAIN Append(q, x) : i \in DOMAIN q \/ i = Len(q) + 1
    BY <1>1
  <1>3. Len(q) + 1 \in DOMAIN Append(q, x) /\ DOMAIN q \subseteq DOMAIN Append(q, x)
    BY <1>1
  <1> QED
    BY <1>1, <1>2, <1>3

\* The sequence of the buffers has each of them once.
LEMMA AllBuffers ==
    /\ SetToSeq(Buffers) \in Seq(Buffers)
    /\ \A i, j \in DOMAIN SetToSeq(Buffers) :
          SetToSeq(Buffers)[i] = SetToSeq(Buffers)[j] => i = j
    /\ \A b \in Buffers : \E i \in DOMAIN SetToSeq(Buffers) : SetToSeq(Buffers)[i] = b
  <1> DEFINE n == Cardinality(Buffers)
             Order(f) == f \in [1 .. n -> Buffers] /\ IsInjective(f)
  <1>1. n \in Nat /\ IsFiniteSet(Buffers)
    BY BuffersAssumption, FS_CardinalityType
  <1>2. PICK g \in Bijection(1 .. n, Buffers) : TRUE
    BY <1>1, FS_NatBijection, FS_CountingElements, FS_CardinalityType DEF ExistsBijection
  <1>3. Order(g)
    BY <1>2 DEF Bijection, Injection, IsInjective
  <1>4. Order(SetToSeq(Buffers))
    BY <1>3 DEF SetToSeq
  <1>5. DOMAIN SetToSeq(Buffers) = 1 .. n /\ SetToSeq(Buffers) \in Seq(Buffers)
    BY <1>1, <1>4
  <1>6. \A i, j \in 1 .. n : SetToSeq(Buffers)[i] = SetToSeq(Buffers)[j] => i = j
    BY <1>4, <1>5 DEF IsInjective
  <1>7. \A b \in Buffers : \E i \in 1 .. n : SetToSeq(Buffers)[i] = b
    <2> DEFINE f == SetToSeq(Buffers)
    <2>1. f \in Injection(1 .. n, Buffers)
      BY <1>4, <1>6 DEF Injection, IsInjective
    <2>2. IsFiniteSet(1 .. n) /\ Cardinality(1 .. n) = n
      BY <1>1, FS_Interval
    <2>3. f \in Surjection(1 .. n, Buffers)
      BY <1>1, <2>1, <2>2, FS_Injection, FS_SurjSameCardinalityImpliesInj DEF ExistsInjection
    <2> QED
      BY <2>3 DEF Surjection
  <1> QED
    BY <1>5, <1>6, <1>7

-----------------------------------------------------------------------------
(***************************************************************************)
(* Folds over sequences.  The library defines a fold by a recursive        *)
(* function on sets of numbers, which has to be shown to exist; induction  *)
(* over its length is by the least number of which something is false.     *)
(***************************************************************************)
Less == OpToRel(<, Nat)

LEMMA LessDef == ASSUME NEW m \in Nat, NEW n \in Nat PROVE <<m, n>> \in Less <=> m < n
  BY DEF Less, OpToRel

\* A set of numbers with 0 and the successor of each has them all: the least that it does
\* not have would be the successor of one that it has.
LEMMA Induct == ASSUME NEW S, 0 \in S, \A n \in Nat : n \in S => n + 1 \in S PROVE Nat \subseteq S
  <1> DEFINE T == Nat \ S
  <1>1. SUFFICES ASSUME T # {} PROVE FALSE
    OBVIOUS
  <1>2. PICK x \in T : \A y \in T : ~ (<<y, x>> \in Less)
    <2>1. IsWellFoundedOn(Less, Nat)
      BY NatLessThanWellFounded DEF Less
    <2> QED
      BY <1>1, <2>1, WFMin
  <1>3. x \in Nat /\ x # 0 /\ x \notin S
    OBVIOUS
  <1>4. x - 1 \in Nat /\ x - 1 < x /\ (x - 1) + 1 = x
    BY <1>3
  <1>5. x - 1 \in T
    BY <1>3, <1>4
  <1>6. <<x - 1, x>> \in Less
    BY <1>3, <1>4, LessDef
  <1> QED
    BY <1>2, <1>5, <1>6

\* The largest of a set of numbers.
LEMMA MaxIs == ASSUME NEW S \in SUBSET Nat, NEW x \in S, \A y \in S : x >= y PROVE Max(S) = x
  <1>1. Max(S) \in S /\ \A y \in S : Max(S) >= y BY DEF Max
  <1>2. Max(S) \in Nat /\ Max(S) >= x /\ x >= Max(S) /\ x \in Nat BY <1>1
  <1> QED BY <1>2

\* What the recursive function of a fold over 1 .. n computes, G being the step.
Iter(n, D, base, G, g) ==
  /\ g \in [SUBSET (1 .. n) -> D] /\ g[{}] = base
  /\ \A s \in SUBSET (1 .. n) : s # {} => Max(s) \in s /\ g[s] = G[<<Max(s), g[s \ {Max(s)}]>>]

LEMMA IterExists ==
  ASSUME NEW n \in Nat, NEW D, NEW base \in D, NEW G \in [(1 .. n) \X D -> D]
  PROVE  \E g : Iter(n, D, base, G, g)
  <1> DEFINE S == {k \in Nat : k <= n => \E g : Iter(k, D, base, G, g)}
  <1>1. 0 \in S
    <2> DEFINE g == [s \in SUBSET (1 .. 0) |-> base]
    <2>1. SUBSET (1 .. 0) = {{}} OBVIOUS
    <2>2. Iter(0, D, base, G, g) BY <2>1 DEF Iter
    <2> QED BY <2>2
  <1>2. ASSUME NEW k \in Nat, k \in S, k + 1 <= n PROVE \E g : Iter(k + 1, D, base, G, g)
    <2>1. PICK f : Iter(k, D, base, G, f) BY <1>2
    <2> DEFINE g == [s \in SUBSET (1 .. k + 1) |-> IF k + 1 \in s THEN G[<<k + 1, f[s \ {k + 1}]>>] ELSE f[s]]
    <2>2. ASSUME NEW s \in SUBSET (1 .. k + 1), k + 1 \in s
          PROVE  /\ s \ {k + 1} \in SUBSET (1 .. k) /\ s \ {k + 1} \in SUBSET (1 .. k + 1)
                 /\ Max(s) = k + 1 /\ g[s] \in D /\ g[s] = G[<<k + 1, g[s \ {k + 1}]>>]
      <3>1. s \ {k + 1} \in SUBSET (1 .. k) BY <2>2
      <3>2. s \ {k + 1} \in SUBSET (1 .. k + 1) /\ k + 1 \notin s \ {k + 1} BY <2>2
      <3>3. Max(s) = k + 1
        <4>1. s \in SUBSET Nat /\ \A y \in s : k + 1 >= y OBVIOUS
        <4> QED BY <4>1, <2>2, MaxIs
      <3>4. f[s \ {k + 1}] \in D BY <2>1, <3>1 DEF Iter
      <3>5. g[s] = G[<<k + 1, f[s \ {k + 1}]>>] /\ g[s \ {k + 1}] = f[s \ {k + 1}] BY <2>2, <3>2
      <3>6. k + 1 \in 1 .. n BY <1>2
      <3>7. <<k + 1, f[s \ {k + 1}]>> \in (1 .. n) \X D BY <3>4, <3>6
      <3> QED BY <3>1, <3>2, <3>3, <3>5, <3>7
    <2>3. ASSUME NEW s \in SUBSET (1 .. k + 1), k + 1 \notin s
          PROVE  /\ s \in SUBSET (1 .. k) /\ g[s] = f[s] /\ g[s] \in D
      <3>1. s \in SUBSET (1 .. k) BY <2>3
      <3> QED BY <2>1, <3>1, <2>3 DEF Iter
    <2>4. g \in [SUBSET (1 .. k + 1) -> D]
      <3>1. \A s \in SUBSET (1 .. k + 1) : g[s] \in D BY <2>2, <2>3
      <3> QED BY <3>1
    <2>5. g[{}] = base
      <3>1. {} \in SUBSET (1 .. k + 1) /\ k + 1 \notin {} OBVIOUS
      <3> QED BY <2>1, <2>3, <3>1 DEF Iter
    <2>6. ASSUME NEW s \in SUBSET (1 .. k + 1), s # {}
          PROVE  Max(s) \in s /\ g[s] = G[<<Max(s), g[s \ {Max(s)}]>>]
      <3> HIDE DEF g
      <3>1. CASE k + 1 \in s BY <2>2, <3>1
      <3>2. CASE k + 1 \notin s
        <4>1. Max(s) \in s /\ f[s] = G[<<Max(s), f[s \ {Max(s)}]>>] /\ g[s] = f[s]
          BY <2>1, <2>3, <2>6, <3>2 DEF Iter
        <4>2. s \ {Max(s)} \in SUBSET (1 .. k + 1) /\ k + 1 \notin s \ {Max(s)} BY <3>2
        <4>3. g[s \ {Max(s)}] = f[s \ {Max(s)}] BY <2>3, <4>2
        <4> QED BY <4>1, <4>3
      <3> QED BY <3>1, <3>2
    <2> HIDE DEF g
    <2>7. Iter(k + 1, D, base, G, g) BY <2>4, <2>5, <2>6 DEF Iter
    <2> QED BY <2>7
  <1>3. \A k \in Nat : k \in S => k + 1 \in S
    <2> SUFFICES ASSUME NEW k \in Nat, k \in S PROVE k + 1 \in S OBVIOUS
    <2>1. k + 1 \in Nat OBVIOUS
    <2> QED BY <1>2, <2>1
  <1> HIDE DEF S
  <1>4. n \in S BY <1>1, <1>3, Induct
  <1> QED BY <1>4 DEF S


\* The recursive function of a fold, on the sets 1 .. k.
Walk(n, D, base, G, h) ==
  /\ h \in [0 .. n -> D] /\ h[0] = base
  /\ \A k \in 1 .. n : h[k] = G[<<k, h[k - 1]>>]

\* Any function with the recursion equation does it on the sets 1 .. k.
Recurs(n, D, base, G, it) ==
  /\ it[{}] = base
  /\ \A s \in SUBSET (1 .. n) :
        s # {} /\ it[s \ {Max(s)}] \in D => it[s] = G[<<Max(s), it[s \ {Max(s)}]>>]

Walks(n, D, base, G, it) == \E h : Walk(n, D, base, G, h) /\ h[n] = it[1 .. n]

LEMMA IterWalks ==
  ASSUME NEW n \in Nat, NEW D, NEW base \in D, NEW G \in [(1 .. n) \X D -> D], NEW it,
         Recurs(n, D, base, G, it)
  PROVE  Walks(n, D, base, G, it)
  <1> DEFINE h == [k \in 0 .. n |-> it[1 .. k]]
             S == {j \in Nat : j <= n => it[1 .. j] \in D}
  <1>1. it[1 .. 0] = base
    <2>1. 1 .. 0 = {} OBVIOUS
    <2> QED BY <2>1 DEF Recurs
  <1>2. ASSUME NEW k \in 1 .. n, it[1 .. k - 1] \in D
        PROVE  it[1 .. k] = G[<<k, it[1 .. k - 1]>>] /\ it[1 .. k] \in D
    <2>1. Max(1 .. k) = k
      <3>1. 1 .. k \in SUBSET Nat /\ k \in 1 .. k /\ \A y \in 1 .. k : k >= y OBVIOUS
      <3> QED BY <3>1, MaxIs
    <2>2. (1 .. k) \ {k} = 1 .. k - 1 /\ k \in 1 .. k
      <3>1. k \in Nat OBVIOUS
      <3> QED BY <3>1
    <2>3. 1 .. k \in SUBSET (1 .. n) OBVIOUS
    <2>4. it[1 .. k] = G[<<k, it[1 .. k - 1]>>] BY <1>2, <2>1, <2>2, <2>3 DEF Recurs
    <2>5. <<k, it[1 .. k - 1]>> \in (1 .. n) \X D BY <1>2
    <2> QED BY <2>4, <2>5
  <1>3. ASSUME NEW k \in 0 .. n PROVE it[1 .. k] \in D
    <2>1. 0 \in S BY <1>1
    <2>2. ASSUME NEW j \in Nat, j \in S PROVE j + 1 \in S
      <3>1. ASSUME j + 1 <= n PROVE it[1 .. j + 1] \in D
        <4>1. j + 1 \in 1 .. n /\ j + 1 - 1 = j /\ j <= n BY <3>1
        <4>2. it[1 .. j] \in D BY <2>2, <4>1
        <4>3. it[1 .. (j + 1) - 1] \in D BY <4>1, <4>2
        <4> QED BY <4>1, <4>3, <1>2
      <3> QED BY <3>1
    <2> HIDE DEF S
    <2>3. k \in S BY <2>1, <2>2, Induct
    <2> QED BY <2>3 DEF S
  <1>4. ASSUME NEW k \in 1 .. n PROVE h[k] = G[<<k, h[k - 1]>>]
    <2>1. k - 1 \in 0 .. n /\ k \in 0 .. n OBVIOUS
    <2>2. it[1 .. k - 1] \in D BY <1>3, <2>1
    <2> QED BY <1>2, <2>1, <2>2
  <1>5. h \in [0 .. n -> D] /\ h[0] = base BY <1>1, <1>3
  <1>6. h[n] = it[1 .. n] OBVIOUS
  <1> HIDE DEF h
  <1>7. Walk(n, D, base, G, h) BY <1>4, <1>5 DEF Walk
  <1> QED BY <1>6, <1>7 DEF Walks

-----------------------------------------------------------------------------
(***************************************************************************)
(* The characters of the messages that wait in the queue.                  *)
(***************************************************************************)
Piece(txt, b) == IF b = NoBuffer THEN << >> ELSE Chars(txt[b])

\* h is the sum of the pieces so far.
Sums(txt, q, C, h) ==
  /\ h \in [0 .. Len(q) -> Seq(C)] /\ h[0] = << >>
  /\ \A i \in 1 .. Len(q) : h[i] = h[i - 1] \o Piece(txt, q[i])

LEMMA PendingSums ==
  ASSUME NEW T, NEW q \in Seq(T), NEW txt, NEW C, \A i \in 1 .. Len(q) : Piece(txt, q[i]) \in Seq(C)
  PROVE  \E h : Sums(txt, q, C, h) /\ PendingOf(txt, q) = h[Len(q)]
  <1> DEFINE n == Len(q)
             D == Seq(C)
             op(s, b) == IF b = NoBuffer THEN s ELSE s \o Chars(txt[b])
             G == [p \in (1 .. n) \X D |-> op(p[2], q[p[1]])]
             F(iter) == [s \in SUBSET (1 .. n) |-> IF s = {} THEN << >> ELSE op(iter[s \ {Max(s)}], q[Max(s)])]
             it == CHOOSE iter : iter = F(iter)
  <1>1. n \in Nat /\ DOMAIN q = 1 .. n OBVIOUS
  <1>2. ASSUME NEW i \in 1 .. n, NEW s \in D PROVE op(s, q[i]) \in D /\ op(s, q[i]) = s \o Piece(txt, q[i])
    BY DEF Piece
  <1>3. G \in [(1 .. n) \X D -> D] BY <1>2
  <1>4. << >> \in D OBVIOUS
  <1>5. PICK g : Iter(n, D, << >>, G, g)
    <2> HIDE DEF D, G, n
    <2> QED BY <1>1, <1>3, <1>4, IterExists
  <1>6. ASSUME NEW s \in SUBSET (1 .. n), s # {}, NEW f, f[s \ {Max(s)}] \in D, Max(s) \in s
        PROVE  op(f[s \ {Max(s)}], q[Max(s)]) = G[<<Max(s), f[s \ {Max(s)}]>>]
    BY <1>6
  <1>7. g = F(g)
    <2>1. ASSUME NEW s \in SUBSET (1 .. n), s # {} PROVE g[s] = op(g[s \ {Max(s)}], q[Max(s)])
      <3>1. Max(s) \in s /\ s \ {Max(s)} \in SUBSET (1 .. n) /\ g[s] = G[<<Max(s), g[s \ {Max(s)}]>>]
        BY <1>5, <2>1 DEF Iter
      <3>2. g[s \ {Max(s)}] \in D BY <1>5, <3>1 DEF Iter
      <3> HIDE DEF op, D, G, n
      <3> QED BY <3>1, <3>2, <1>6, <2>1
    <2> QED BY <1>5, <2>1 DEF Iter
  <1>8. it = F(it) BY <1>7
  <1>9. PendingOf(txt, q) = it[1 .. n]
    BY <1>1 DEF PendingOf, FoldLeft, MapThenFoldSet
  <1> HIDE DEF it
  <1>10. Recurs(n, D, << >>, G, it)
    <2>1. it[{}] = << >> BY <1>8
    <2>2. ASSUME NEW s \in SUBSET (1 .. n), s # {}, it[s \ {Max(s)}] \in D
          PROVE  it[s] = G[<<Max(s), it[s \ {Max(s)}]>>]
      <3>1. it[s] = op(it[s \ {Max(s)}], q[Max(s)]) BY <1>8, <2>2
      <3>2. Max(s) \in s BY <1>5, <2>2 DEF Iter
      <3> HIDE DEF op, D, G, n
      <3> QED BY <3>1, <3>2, <1>6, <2>2
    <2> HIDE DEF D, G, n
    <2> QED BY <2>1, <2>2 DEF Recurs
  <1>11. PICK h : Walk(n, D, << >>, G, h) /\ h[n] = it[1 .. n]
    <2>1. n \in Nat BY <1>1
    <2> DEFINE z == << >>
    <2>2. z \in D /\ Recurs(n, D, z, G, it) BY <1>4, <1>10
    <2> HIDE DEF D, G, n, z
    <2>3. Walks(n, D, z, G, it) BY <2>1, <2>2, <1>3, IterWalks
    <2> QED BY <2>3 DEF z, Walks
  <1>12. Sums(txt, q, C, h)
    <2>1. /\ h \in [0 .. n -> D] /\ h[0] = << >>
          /\ \A k \in 1 .. n : h[k] = G[<<k, h[k - 1]>>]
      <3> HIDE DEF D, G, n
      <3> QED BY <1>11 DEF Walk
    <2>2. ASSUME NEW k \in 1 .. n PROVE h[k] = h[k - 1] \o Piece(txt, q[k])
      <3>1. k - 1 \in 0 .. n BY <1>1
      <3>2. h[k - 1] \in D BY <2>1, <3>1
      <3>3. G[<<k, h[k - 1]>>] = op(h[k - 1], q[k]) BY <3>2
      <3> HIDE DEF op, D, G, n
      <3> QED BY <2>1, <3>2, <3>3, <1>2
    <2> QED BY <2>1, <2>2 DEF Sums
  <1> QED BY <1>9, <1>11, <1>12

LEMMA SumsStep ==
  ASSUME NEW q, NEW txt, NEW C, NEW h, Sums(txt, q, C, h), NEW n \in Nat, Len(q) \in Nat, n + 1 <= Len(q)
  PROVE  h[n + 1] = h[n] \o Piece(txt, q[n + 1]) /\ h[n] \in Seq(C)
  <1> DEFINE k == n + 1
  <1>1. k \in 1 .. Len(q) /\ k - 1 = n /\ n \in 0 .. Len(q) OBVIOUS
  <1> HIDE DEF k
  <1>2. h[k] = h[k - 1] \o Piece(txt, q[k]) /\ h[n] \in Seq(C) BY <1>1 DEF Sums
  <1> QED BY <1>1, <1>2 DEF k

SamePieces(n, txt, p, alt, q) == \A i \in 1 .. n : Piece(txt, p[i]) = Piece(alt, q[i])

\* Two ways to add up the same pieces are one.
LEMMA SumsAgree ==
  ASSUME NEW p, NEW q, NEW txt, NEW alt, NEW C, NEW g, NEW h, Sums(txt, p, C, g), Sums(alt, q, C, h),
         NEW n \in Nat, Len(p) \in Nat, Len(q) \in Nat, n <= Len(p), n <= Len(q),
         SamePieces(n, txt, p, alt, q)
  PROVE  g[n] = h[n]
  <1> DEFINE S == {j \in Nat : j <= n => g[j] = h[j]}
  <1>1. 0 \in S BY DEF Sums
  <1>2. ASSUME NEW j \in Nat, j \in S PROVE j + 1 \in S
    <2>1. ASSUME j + 1 <= n PROVE g[j + 1] = h[j + 1]
      <3>1. j + 1 \in 1 .. n BY <2>1
      <3>5. j + 1 <= Len(p) /\ j + 1 <= Len(q) BY <2>1
      <3>2. g[j] = h[j] BY <1>2, <2>1
      <3>6. /\ Sums(txt, p, C, g) /\ Len(p) \in Nat
            /\ Sums(alt, q, C, h) /\ Len(q) \in Nat
        OBVIOUS
      <3>3. g[j + 1] = g[j] \o Piece(txt, p[j + 1])
        BY ONLY j \in Nat, <3>5, <3>6, SumsStep, ZenonT(60)
      <3>4. h[j + 1] = h[j] \o Piece(alt, q[j + 1])
        BY ONLY j \in Nat, <3>5, <3>6, SumsStep, ZenonT(60)
      <3> QED BY <3>1, <3>2, <3>3, <3>4 DEF SamePieces
    <2> QED BY <2>1
  <1> HIDE DEF S
  <1>3. n \in S BY <1>1, <1>2, Induct
  <1> QED BY <1>3 DEF S

\* Every entry of the queue points to characters.
Readable(txt, q, C) == \A i \in 1 .. Len(q) : Piece(txt, q[i]) \in Seq(C)

LEMMA PendingSame ==
  ASSUME NEW T, NEW q \in Seq(T), NEW txt, NEW alt, NEW C, Readable(txt, q, C),
         SamePieces(Len(q), txt, q, alt, q)
  PROVE  PendingOf(txt, q) = PendingOf(alt, q)
  <1>1. PICK g : Sums(txt, q, C, g) /\ PendingOf(txt, q) = g[Len(q)] BY PendingSums DEF Readable
  <1>2. PICK h : Sums(alt, q, C, h) /\ PendingOf(alt, q) = h[Len(q)]
    <2>1. \A i \in 1 .. Len(q) : Piece(alt, q[i]) \in Seq(C) BY DEF Readable, SamePieces
    <2> QED BY <2>1, PendingSums
  <1>3. Len(q) \in Nat OBVIOUS
  <1> QED BY <1>1, <1>2, <1>3, SumsAgree

LEMMA PendingType ==
  ASSUME NEW T, NEW q \in Seq(T), NEW txt, NEW C, Readable(txt, q, C)
  PROVE  PendingOf(txt, q) \in Seq(C) /\ (q = << >> => PendingOf(txt, q) = << >>)
  <1>1. PICK g : Sums(txt, q, C, g) /\ PendingOf(txt, q) = g[Len(q)] BY PendingSums DEF Readable
  <1>2. Len(q) \in 0 .. Len(q) /\ (q = << >> => Len(q) = 0) OBVIOUS
  <1> QED BY <1>1, <1>2 DEF Sums

\* What is handed over comes last.
LEMMA PendingAppend ==
  ASSUME NEW T, NEW q \in Seq(T), NEW b \in T, NEW txt, NEW C, Readable(txt, q, C), Piece(txt, b) \in Seq(C)
  PROVE  PendingOf(txt, Append(q, b)) = PendingOf(txt, q) \o Piece(txt, b)
  <1> DEFINE r == Append(q, b)
             n == Len(q)
  <1>1. /\ n \in Nat /\ r \in Seq(T) /\ Len(r) = n + 1 /\ r[n + 1] = b
        /\ \A i \in 1 .. n : r[i] = q[i]
    OBVIOUS
  <1> HIDE DEF r
  <1>2. \A i \in 1 .. Len(r) : Piece(txt, r[i]) \in Seq(C)
    <2> SUFFICES ASSUME NEW i \in 1 .. Len(r) PROVE Piece(txt, r[i]) \in Seq(C) OBVIOUS
    <2>1. i \in 1 .. n \/ i = n + 1 BY <1>1
    <2> QED BY <1>1, <2>1 DEF Readable
  <1>3. PICK g : Sums(txt, q, C, g) /\ PendingOf(txt, q) = g[n] BY PendingSums DEF Readable
  <1>4. PICK h : Sums(txt, r, C, h) /\ PendingOf(txt, r) = h[Len(r)] BY <1>1, <1>2, PendingSums
  <1>5. SamePieces(n, txt, r, txt, q) BY <1>1 DEF SamePieces
  <1>6. n <= Len(r) /\ n <= Len(q) BY <1>1
  <1> HIDE DEF n
  <1>7. h[n] = g[n]
    <2>1. Len(q) = n BY DEF n
    <2> QED BY <1>1, <1>3, <1>4, <1>5, <1>6, <2>1, SumsAgree
  <1>8. h[n + 1] = h[n] \o Piece(txt, r[n + 1])
    <2>1. n + 1 <= Len(r) /\ Len(r) \in Nat /\ n \in Nat BY <1>1
    <2>2. Sums(txt, r, C, h) BY <1>4
    <2> QED BY <2>1, <2>2, SumsStep
  <1> QED BY <1>1, <1>3, <1>4, <1>7, <1>8 DEF r

\* What is taken comes first.
LEMMA PendingTail ==
  ASSUME NEW T, NEW q \in Seq(T), q # << >>, NEW txt, NEW C, Readable(txt, q, C)
  PROVE  PendingOf(txt, q) = Piece(txt, Head(q)) \o PendingOf(txt, Tail(q))
  <1> DEFINE r == Tail(q)
             n == Len(r)
             x == Piece(txt, Head(q))
  <1>1. /\ n \in Nat /\ r \in Seq(T) /\ Len(q) = n + 1 /\ Head(q) = q[1]
        /\ \A i \in 1 .. n : r[i] = q[i + 1]
    OBVIOUS
  <1> HIDE DEF r
  <1>2. \A i \in 1 .. Len(r) : Piece(txt, r[i]) \in Seq(C)
    <2> SUFFICES ASSUME NEW i \in 1 .. n PROVE Piece(txt, r[i]) \in Seq(C) OBVIOUS
    <2>1. i + 1 \in 1 .. Len(q) BY <1>1
    <2> QED BY <1>1, <2>1 DEF Readable
  <1>3. PICK g : Sums(txt, q, C, g) /\ PendingOf(txt, q) = g[Len(q)] BY PendingSums DEF Readable
  <1>4. PICK h : Sums(txt, r, C, h) /\ PendingOf(txt, r) = h[Len(r)] BY <1>1, <1>2, PendingSums
  <1>5. x \in Seq(C)
    <2>1. 1 \in 1 .. Len(q) BY <1>1
    <2> QED BY <1>1, <2>1 DEF Readable
  <1>6. ASSUME NEW j \in Nat, j <= n
        PROVE  g[j + 1] = g[j] \o Piece(txt, q[j + 1]) /\ g[j] \in Seq(C)
    <2>1. j + 1 <= Len(q) /\ Len(q) \in Nat BY <1>1, <1>6
    <2>2. Sums(txt, q, C, g) BY <1>3
    <2> QED BY <2>1, <2>2, SumsStep
  <1>7. ASSUME NEW j \in Nat, j + 1 <= n
        PROVE  h[j + 1] = h[j] \o Piece(txt, r[j + 1]) /\ h[j] \in Seq(C)
    <2>1. j + 1 <= Len(r) /\ Len(r) \in Nat BY <1>1, <1>7
    <2>2. Sums(txt, r, C, h) BY <1>4
    <2> QED BY <2>1, <2>2, SumsStep
  <1>8. h \in [0 .. n -> Seq(C)] /\ h[0] = << >> /\ g[0] = << >> BY <1>3, <1>4 DEF Sums
  <1> DEFINE S == {j \in Nat : j <= n => g[j + 1] = x \o h[j]}
  <1>9. 0 \in S
    <2>6. 0 \in Nat /\ 0 <= n BY <1>1
    <2>1. g[0 + 1] = g[0] \o Piece(txt, q[0 + 1]) BY <2>6, <1>6, Zenon
    <2>2. 0 + 1 = 1 OBVIOUS
    <2> HIDE DEF x, n, S
    <2>3. g[0 + 1] = << >> \o x BY <1>1, <1>8, <2>1, <2>2 DEF x
    <2>4. << >> \o x = x /\ x \o << >> = x BY <1>5, ConcatEmptySeq
    <2>5. g[0 + 1] = x \o h[0] BY <2>3, <2>4, <1>8
    <2> QED BY <2>5 DEF S
  <1>10. ASSUME NEW j \in Nat, j \in S PROVE j + 1 \in S
    <2>1. ASSUME j + 1 <= n PROVE g[(j + 1) + 1] = x \o h[j + 1]
      <3>1. g[(j + 1) + 1] = g[j + 1] \o Piece(txt, q[(j + 1) + 1])
        <4>1. j + 1 \in Nat OBVIOUS
        <4> QED BY <4>1, <2>1, <1>6
      <3>2. h[j + 1] = h[j] \o Piece(txt, r[j + 1]) /\ h[j] \in Seq(C) BY <1>7, <2>1
      <3>3. j + 1 \in 1 .. n BY <1>1, <2>1
      <3>4. r[j + 1] = q[(j + 1) + 1] BY <1>1, <3>3
      <3>5. g[j + 1] = x \o h[j]
        <4>1. j <= n BY <1>1, <2>1
        <4> HIDE DEF x, n
        <4> QED BY <1>10, <4>1
      <3>6. Piece(txt, r[j + 1]) \in Seq(C) BY <1>2, <3>3
      <3> DEFINE y == Piece(txt, r[j + 1])
      <3> HIDE DEF x, n, S, y
      <3>7. (x \o h[j]) \o y = x \o (h[j] \o y)
        <4>1. y \in Seq(C) BY <3>6 DEF y
        <4>2. h[j] \in Seq(C) BY <3>2
        <4> DEFINE u == h[j]
        <4> HIDE DEF u
        <4>3. u \in Seq(C) BY <4>2 DEF u
        <4>4. (x \o u) \o y = x \o (u \o y) BY <4>1, <4>3, <1>5, ConcatAssociative
        <4> QED BY <4>4 DEF u
      <3> QED BY <3>1, <3>2, <3>4, <3>5, <3>7 DEF y
    <2> HIDE DEF x, n
    <2>2. j + 1 \in Nat OBVIOUS
    <2> QED BY <2>1, <2>2
  <1> HIDE DEF S, x
  <1>11. n \in S BY <1>1, <1>9, <1>10, Induct
  <1>12. g[n + 1] = x \o h[n]
    <2> HIDE DEF n
    <2> QED BY <1>1, <1>11 DEF S
  <1> QED BY <1>1, <1>3, <1>4, <1>12 DEF r, x

-----------------------------------------------------------------------------
(***************************************************************************)
(* The invariant.                                                          *)
(***************************************************************************)
USE BuffersAssumption DEF Pointer, InEmpty, InWrite, WithTask

LEMMA InitInv == Init => IInv
  BY DEF Init, IInv, Shapes, Distinct, Somewhere, Idle

\* Tasks, queues and the logger's pointer are all the invariant looks at.
LEMMA Unseen == IInv /\ UNCHANGED <<phase, emptyQueue, writeQueue, caller, logMsg>> => IInv'
  BY DEF IInv, Shapes, Distinct, Somewhere

\* The caller's record after a step.
LEMMA CallerAfter ==
    ASSUME Shapes, NEW t \in Tasks, NEW at, NEW b \in Pointer, GoTo(t, at, b),
           at # "handOver" => b = NoBuffer
    PROVE  /\ DOMAIN caller' = Tasks
           /\ caller'[t].at = at /\ caller'[t].buffer = b
           /\ \A u \in Tasks \ {t} : caller'[u] = caller[u]
           /\ \A u \in Tasks : caller'[u].buffer \in Pointer
           /\ \A u \in Tasks : caller'[u].at # "handOver" => caller'[u].buffer = NoBuffer
  BY DEF GoTo, Shapes

LEMMA LoggerInitInv == IInv /\ LoggerInit => IInv'
  <1> SUFFICES ASSUME IInv, LoggerInit PROVE IInv'
    OBVIOUS
  <1> USE DEF IInv
  <1>1. emptyQueue' = SetToSeq(Buffers) /\ phase = "off" /\ phase' = "initialised"
        /\ UNCHANGED <<writeQueue, caller, logMsg>>
    BY DEF LoggerInit
  <1>2. Shapes'
    BY <1>1, AllBuffers DEF Shapes
  <1>3. \A b \in Buffers : ~ InWrite(b)' /\ ~ WithTask(b)' /\ logMsg' # b /\ InEmpty(b)'
    BY <1>1, AllBuffers DEF Somewhere
  <1>4. Distinct'
    BY <1>1, <1>3, AllBuffers DEF Distinct
  <1> QED
    BY <1>1, <1>2, <1>3, <1>4 DEF Somewhere

LEMMA WaitInv == ASSUME IInv, NEW t \in Tasks, Call(t) \/ WaitForBuffer(t) PROVE IInv'
  <1>1. PICK at : at # "handOver" /\ GoTo(t, at, NoBuffer)
    BY DEF Call, WaitForBuffer
  <1>2. /\ DOMAIN caller' = Tasks
        /\ \A u \in Tasks : caller'[u].buffer = caller[u].buffer
        /\ \A u \in Tasks : caller'[u].at # "handOver" => caller'[u].buffer = NoBuffer
    <2>1. caller[t].buffer = NoBuffer
      BY DEF Call, WaitForBuffer, IInv, Shapes
    <2> QED
      BY <1>1, <2>1, CallerAfter DEF IInv
  <1>3. UNCHANGED <<phase, emptyQueue, writeQueue, logMsg>>
    BY DEF Call, WaitForBuffer
  <1>4. Shapes'
    BY <1>2, <1>3 DEF IInv, Shapes
  <1>5. \A b \in Buffers : /\ InEmpty(b)' <=> InEmpty(b)
                           /\ InWrite(b)' <=> InWrite(b)
                           /\ WithTask(b)' <=> WithTask(b)
    BY <1>2, <1>3
  <1>6. Distinct'
    BY <1>2, <1>3, <1>5 DEF IInv, Distinct
  <1>7. Somewhere'
    BY <1>3, <1>5 DEF IInv, Somewhere
  <1> QED
    BY <1>4, <1>6, <1>7 DEF IInv

LEMMA GetBufferInv == ASSUME IInv, NEW t \in Tasks, GetBuffer(t) PROVE IInv'
  <1> DEFINE h == Head(emptyQueue)
  <1>0. phase # "off"
    <2>1. emptyQueue \in Seq(Buffers) /\ emptyQueue # << >>
      BY DEF GetBuffer, IInv, Shapes
    <2>2. h \in Buffers /\ InEmpty(h)
      BY <2>1, TailHas
    <2> QED
      BY <2>2 DEF IInv, Somewhere
  <1>1. /\ emptyQueue \in Seq(Buffers) /\ emptyQueue # << >> /\ emptyQueue' = Tail(emptyQueue)
        /\ GoTo(t, "handOver", h) /\ caller[t].buffer = NoBuffer
        /\ UNCHANGED <<phase, writeQueue, logMsg>>
    BY DEF GetBuffer, IInv, Shapes
  <1>2. h \in Buffers /\ emptyQueue' \in Seq(Buffers)
    BY <1>1, TailHas
  <1>3. /\ DOMAIN caller' = Tasks
        /\ caller'[t].buffer = h
        /\ \A u \in Tasks \ {t} : caller'[u] = caller[u]
        /\ \A u \in Tasks : caller'[u].buffer \in Pointer
        /\ \A u \in Tasks : caller'[u].at # "handOver" => caller'[u].buffer = NoBuffer
    BY <1>1, <1>2, CallerAfter DEF IInv
  <1>4. Shapes'
    BY <1>1, <1>2, <1>3 DEF IInv, Shapes
  <1>5. \A i, j \in DOMAIN emptyQueue' : emptyQueue'[i] = emptyQueue'[j] => i = j
    BY <1>1, TailHas DEF IInv, Distinct
  <1>6. \A b \in Buffers : b = h => ~ InEmpty(b)'
    BY <1>1, TailHas DEF IInv, Distinct
  <1>7. \A b \in Buffers : /\ InEmpty(b)' <=> InEmpty(b) /\ b # h
                           /\ InWrite(b)' <=> InWrite(b)
                           /\ WithTask(b)' <=> WithTask(b) \/ b = h
    <2>1. \A b \in Buffers : InEmpty(b) <=> InEmpty(b)' \/ b = h
      BY <1>1, TailHas
    <2>2. \A b \in Buffers : WithTask(b)' <=> WithTask(b) \/ b = h
      BY <1>1, <1>3
    <2> QED
      BY <1>1, <1>6, <2>1, <2>2
  <1>8. InEmpty(h) /\ ~ InWrite(h) /\ ~ WithTask(h) /\ logMsg # h
    BY <1>1, <1>2, TailHas DEF IInv, Distinct
  <1>9. Distinct'
    <2>1. \A u, v \in Tasks :
             caller'[u].buffer = caller'[v].buffer /\ caller'[u].buffer # NoBuffer => u = v
      BY <1>1, <1>3, <1>8 DEF IInv, Distinct
    <2>2. \A b \in Buffers : /\ InEmpty(b)' => ~ InWrite(b)' /\ ~ WithTask(b)' /\ logMsg' # b
                             /\ InWrite(b)' => ~ WithTask(b)' /\ logMsg' # b
                             /\ WithTask(b)' => logMsg' # b
      <3> HIDE DEF InEmpty, InWrite, WithTask
      <3> QED
        BY <1>1, <1>7, <1>8 DEF IInv, Distinct
    <2> QED
      BY <1>1, <1>5, <2>1, <2>2 DEF IInv, Distinct
  <1>10. Somewhere'
    BY <1>0, <1>1, <1>7 DEF IInv, Somewhere
  <1> QED
    BY <1>4, <1>9, <1>10 DEF IInv

LEMMA HandOverInv == ASSUME IInv, NEW t \in Tasks, HandOver(t) PROVE IInv'
  <1> DEFINE h == caller[t].buffer
  <1>1. /\ writeQueue \in Seq(Pointer) /\ h \in Pointer /\ writeQueue' = Append(writeQueue, h)
        /\ GoTo(t, "idle", NoBuffer) /\ NoBuffer \in Pointer
        /\ UNCHANGED <<phase, emptyQueue, logMsg>>
    BY DEF HandOver, IInv, Shapes
  <1>2. /\ DOMAIN caller' = Tasks
        /\ caller'[t].buffer = NoBuffer
        /\ \A u \in Tasks \ {t} : caller'[u] = caller[u]
        /\ \A u \in Tasks : caller'[u].buffer \in Pointer
        /\ \A u \in Tasks : caller'[u].at # "handOver" => caller'[u].buffer = NoBuffer
    BY <1>1, CallerAfter DEF IInv
  <1>3. Shapes'
    BY <1>1, <1>2, AppendHas DEF IInv, Shapes
  <1>4. \A b \in Buffers : /\ InEmpty(b)' <=> InEmpty(b)
                           /\ InWrite(b)' <=> InWrite(b) \/ b = h
                           /\ WithTask(b)' <=> WithTask(b) /\ b # h
    <2>1. \A b \in Buffers : InWrite(b)' <=> InWrite(b) \/ b = h
      BY <1>1, AppendHas
    <2>2. \A b \in Buffers : WithTask(b)' <=> WithTask(b) /\ b # h
      BY <1>2 DEF IInv, Distinct
    <2> QED
      BY <1>1, <2>1, <2>2
  <1>5. h # NoBuffer => ~ InEmpty(h) /\ ~ InWrite(h) /\ logMsg # h
    BY <1>1 DEF IInv, Distinct
  <1>6. \A i, j \in DOMAIN writeQueue' :
           writeQueue'[i] = writeQueue'[j] /\ writeQueue'[i] # NoBuffer => i = j
    <2>1. \A i \in DOMAIN writeQueue' : i \in DOMAIN writeQueue \/ i = Len(writeQueue) + 1
      BY <1>1, AppendHas
    <2> QED
      BY <1>1, <1>5, <2>1, AppendHas DEF IInv, Distinct
  <1>7. Distinct'
    BY <1>1, <1>2, <1>4, <1>5, <1>6 DEF IInv, Distinct
  <1>8. Somewhere'
    <2>1. phase = "off" => h \notin Buffers
      BY DEF IInv, Somewhere
    <2> QED
      BY <1>1, <1>4, <2>1 DEF IInv, Somewhere
  <1> QED
    BY <1>3, <1>7, <1>8 DEF IInv

LEMMA TakeInv == IInv /\ Take => IInv'
  <1> SUFFICES ASSUME IInv, Take PROVE IInv'
    OBVIOUS
  <1> DEFINE h == Head(writeQueue)
  <1>1. /\ writeQueue \in Seq(Pointer) /\ writeQueue # << >> /\ writeQueue' = Tail(writeQueue)
        /\ logMsg = NoBuffer /\ logMsg' = h /\ phase # "off"
        /\ UNCHANGED <<phase, emptyQueue, caller>>
    BY DEF Take, IInv, Shapes
  <1>2. h \in Pointer /\ writeQueue' \in Seq(Pointer)
    BY <1>1, TailHas
  <1>3. Shapes'
    BY <1>1, <1>2 DEF IInv, Shapes
  <1>4. \A i, j \in DOMAIN writeQueue' :
           writeQueue'[i] = writeQueue'[j] /\ writeQueue'[i] # NoBuffer => i = j
    BY <1>1, TailHas DEF IInv, Distinct
  <1>5. \A b \in Buffers : b = h => ~ InWrite(b)'
    BY <1>1, TailHas DEF IInv, Distinct
  <1>6. \A b \in Buffers : /\ InEmpty(b)' <=> InEmpty(b)
                           /\ InWrite(b)' <=> InWrite(b) /\ b # h
                           /\ WithTask(b)' <=> WithTask(b)
    <2>1. \A b \in Buffers : InWrite(b) <=> InWrite(b)' \/ b = h
      BY <1>1, TailHas
    <2> QED
      BY <1>1, <1>5, <2>1
  <1>7. h # NoBuffer => InWrite(h) /\ ~ InEmpty(h) /\ ~ WithTask(h)
    BY <1>1, <1>2, TailHas DEF IInv, Distinct
  <1>8. Distinct'
    BY <1>1, <1>2, <1>4, <1>6, <1>7 DEF IInv, Distinct
  <1>9. Somewhere'
    BY <1>1, <1>6 DEF IInv, Somewhere
  <1> QED
    BY <1>3, <1>8, <1>9 DEF IInv

LEMMA GiveBackInv == IInv /\ GiveBack => IInv'
  <1> SUFFICES ASSUME IInv, GiveBack PROVE IInv'
    OBVIOUS
  <1> DEFINE h == logMsg
  <1>1. /\ emptyQueue \in Seq(Buffers) /\ h \in Buffers /\ emptyQueue' = Append(emptyQueue, h)
        /\ logMsg' = NoBuffer
        /\ UNCHANGED <<phase, writeQueue, caller>>
    BY DEF GiveBack, IInv, Shapes
  <1>2. Shapes'
    BY <1>1, AppendHas DEF IInv, Shapes
  <1>3. \A b \in Buffers : /\ InEmpty(b)' <=> InEmpty(b) \/ b = h
                           /\ InWrite(b)' <=> InWrite(b)
                           /\ WithTask(b)' <=> WithTask(b)
    <2>1. \A b \in Buffers : InEmpty(b)' <=> InEmpty(b) \/ b = h
      BY <1>1, AppendHas
    <2> QED
      BY <1>1, <2>1
  <1>4. ~ InEmpty(h) /\ ~ InWrite(h) /\ ~ WithTask(h) /\ phase # "off"
    BY <1>1 DEF IInv, Distinct, Somewhere
  <1>5. \A i, j \in DOMAIN emptyQueue' : emptyQueue'[i] = emptyQueue'[j] => i = j
    <2>1. \A i \in DOMAIN emptyQueue' : i \in DOMAIN emptyQueue \/ i = Len(emptyQueue) + 1
      BY <1>1, AppendHas
    <2> QED
      BY <1>1, <1>4, <2>1, AppendHas DEF IInv, Distinct
  <1>6. Distinct'
    BY <1>1, <1>3, <1>4, <1>5 DEF IInv, Distinct
  <1>7. Somewhere'
    BY <1>1, <1>3, <1>4 DEF IInv, Somewhere
  <1> QED
    BY <1>2, <1>6, <1>7 DEF IInv

\* The buffer that was used goes to the end of its queue.
LEMMA LogDirectInv == IInv /\ LogDirect => IInv'
  <1> SUFFICES ASSUME IInv, LogDirect PROVE IInv'
    OBVIOUS
  <1> DEFINE h == Head(emptyQueue)
             r == Tail(emptyQueue)
  <1>1. /\ emptyQueue \in Seq(Buffers) /\ emptyQueue # << >> /\ emptyQueue' = Append(r, h)
        /\ UNCHANGED <<phase, writeQueue, caller, logMsg>>
    BY DEF LogDirect, IInv, Shapes
  <1>2. /\ h \in Buffers /\ r \in Seq(Buffers)
        /\ \A i \in DOMAIN r : r[i] # h
        /\ \A i, j \in DOMAIN r : r[i] = r[j] => i = j
    BY <1>1, TailHas DEF IInv, Distinct
  <1>3. /\ emptyQueue' \in Seq(Buffers)
        /\ \A i \in DOMAIN emptyQueue' : i \in DOMAIN r \/ i = Len(r) + 1
        /\ \A i \in DOMAIN r : emptyQueue'[i] = r[i]
        /\ emptyQueue'[Len(r) + 1] = h
    BY <1>1, <1>2, AppendHas
  <1>4. \A i, j \in DOMAIN emptyQueue' : emptyQueue'[i] = emptyQueue'[j] => i = j
    BY <1>2, <1>3
  <1>5. \A b \in Buffers : InEmpty(b)' <=> InEmpty(b)
    <2>1. \A b \in Buffers : InEmpty(b) <=> b = h \/ \E i \in DOMAIN r : r[i] = b
      BY <1>1, TailHas
    <2>2. \A b \in Buffers : InEmpty(b)' <=> b = h \/ \E i \in DOMAIN r : r[i] = b
      BY <1>1, <1>2, AppendHas
    <2> QED
      BY <2>1, <2>2
  <1>6. Shapes'
    BY <1>1, <1>3 DEF IInv, Shapes
  <1>7. \A b \in Buffers : /\ InWrite(b)' <=> InWrite(b)
                           /\ WithTask(b)' <=> WithTask(b)
    BY <1>1
  <1>8. Distinct'
    BY <1>1, <1>4, <1>5, <1>7 DEF IInv, Distinct
  <1>9. Somewhere'
    BY <1>1, <1>5, <1>7 DEF IInv, Somewhere
  <1> QED
    BY <1>6, <1>8, <1>9 DEF IInv

LEMMA NextInv == IInv /\ [Next]_vars => IInv'
  <1> SUFFICES ASSUME IInv, [Next]_vars PROVE IInv'
    OBVIOUS
  <1>1. CASE LoggerInit
    BY <1>1, LoggerInitInv
  <1>2. CASE StartKernel
    BY <1>2 DEF StartKernel, IInv, Shapes, Distinct, Somewhere
  <1>3. CASE LogDirect
    BY <1>3, LogDirectInv
  <1>4. CASE Take
    BY <1>4, TakeInv
  <1>5. CASE TimeOut
    BY <1>5, Unseen DEF TimeOut
  <1>6. CASE GiveBack
    BY <1>6, GiveBackInv
  <1>7. ASSUME NEW t \in Tasks, Call(t) \/ WaitForBuffer(t) PROVE IInv'
    BY <1>7, WaitInv
  <1>8. ASSUME NEW t \in Tasks, GetBuffer(t) PROVE IInv'
    BY <1>8, GetBufferInv
  <1>9. ASSUME NEW t \in Tasks, HandOver(t) PROVE IInv'
    BY <1>9, HandOverInv
  <1>10. CASE UNCHANGED vars
    BY <1>10, Unseen DEF vars
  <1> QED
    BY <1>1, <1>2, <1>3, <1>4, <1>5, <1>6, <1>7, <1>8, <1>9, <1>10
       DEF Next, LoggerTask, Task

-----------------------------------------------------------------------------
(***************************************************************************)
(* From the invariant to the number of places.                             *)
(***************************************************************************)
LEMMA OnePlace == IInv => BuffersConserved
  <1> SUFFICES ASSUME IInv, phase # "off", NEW b \in Buffers PROVE Cardinality(Places(b)) = 1
    BY DEF BuffersConserved
  <1> DEFINE inEmpty == {<<"empty", i>> : i \in {i \in DOMAIN emptyQueue : emptyQueue[i] = b}}
             inWrite == {<<"write", i>> : i \in {i \in DOMAIN writeQueue : writeQueue[i] = b}}
             inTask  == {<<"task", t>> : t \in {t \in Tasks : caller[t].buffer = b}}
             inLogger == {<<"logger", 0>> : x \in {x \in {b} : logMsg = x}}
  <1>1. Places(b) = inEmpty \cup inWrite \cup inTask \cup inLogger
    BY DEF Places
  <1>2. (~ InEmpty(b) => inEmpty = {}) /\ (~ InWrite(b) => inWrite = {})
        /\ (~ WithTask(b) => inTask = {}) /\ (logMsg # b => inLogger = {})
    OBVIOUS
  <1>3. \E p : Places(b) = {p}
    <2>1. CASE InEmpty(b)
      <3>1. PICK i \in DOMAIN emptyQueue : emptyQueue[i] = b
        BY <2>1
      <3>2. inEmpty = {<<"empty", i>>}
        BY <3>1 DEF IInv, Distinct
      <3> QED
        BY <1>1, <1>2, <2>1, <3>2 DEF IInv, Distinct
    <2>2. CASE InWrite(b)
      <3>1. PICK i \in DOMAIN writeQueue : writeQueue[i] = b
        BY <2>2
      <3>2. inWrite = {<<"write", i>>}
        BY <3>1 DEF IInv, Distinct
      <3> QED
        BY <1>1, <1>2, <2>2, <3>2 DEF IInv, Distinct
    <2>3. CASE WithTask(b)
      <3>1. PICK t \in Tasks : caller[t].buffer = b
        BY <2>3
      <3>2. inTask = {<<"task", t>>}
        BY <3>1 DEF IInv, Distinct
      <3> QED
        BY <1>1, <1>2, <2>3, <3>2 DEF IInv, Distinct
    <2>4. CASE logMsg = b
      <3>1. inLogger = {<<"logger", 0>>}
        BY <2>4
      <3> QED
        BY <1>1, <1>2, <2>4, <3>1 DEF IInv, Distinct
    <2> QED
      BY <2>1, <2>2, <2>3, <2>4 DEF IInv, Somewhere
  <1> QED
    BY <1>3, FS_Singleton

\* Once the logger is initialised every buffer is in one place of one queue,
\* with one task or with the logger task, for any tasks, buffers and messages.
THEOREM PoolConserved == Spec => []BuffersConserved
  <1>1. Init => IInv
    BY InitInv
  <1>2. IInv /\ [Next]_vars => IInv'
    BY NextInv
  <1>3. IInv => BuffersConserved
    BY OnePlace
  <1> QED
    BY <1>1, <1>2, <1>3, PTL DEF Spec

-----------------------------------------------------------------------------
(***************************************************************************)
(* The order of the characters in the file.  Written says what the order   *)
(* needs besides the buffers: a buffer that is handed over has a message   *)
(* in it, the cache is never full, and nothing waits before the kernel     *)
(* runs.                                                                   *)
(***************************************************************************)
Char == Message \X Nat

Written ==
    /\ DOMAIN text = Buffers
    /\ \A b \in Buffers : InWrite(b) \/ WithTask(b) => text[b] \in Message
    /\ cache \in Seq(Char) /\ (cache = << >> \/ Len(cache) < BufferSize)
    /\ file \in Seq(Char)
    /\ phase # "running" => /\ cache = << >> /\ writeQueue = << >>
                            /\ \A t \in Tasks : caller[t].at = "idle"

FInv == IInv /\ Written

\* The two parts of a sequence that is cut after the characters of a.
LEMMA Cut ==
    ASSUME NEW C, NEW a \in Seq(C), NEW r \in Seq(C), NEW k \in 0 .. Len(a)
    PROVE  /\ SubSeq(a \o r, Len(a) + 1, Len(a \o r)) = r
           /\ SubSeq(a \o r, 1, k) = SubSeq(a, 1, k)
           /\ SubSeq(a, 1, k) \in Seq(C)
  <1>1. /\ a \o r \in Seq(C) /\ Len(a) \in Nat /\ Len(r) \in Nat
        /\ Len(a \o r) = Len(a) + Len(r)
        /\ \A i \in 1 .. Len(a) + Len(r) : (a \o r)[i] = IF i <= Len(a) THEN a[i] ELSE r[i - Len(a)]
    BY ConcatProperties
  <1>2. ASSUME NEW s \in Seq(C), NEW m \in Nat \ {0}, NEW n \in Nat, n <= Len(s)
        PROVE  /\ SubSeq(s, m, n) \in Seq(C) /\ Len(SubSeq(s, m, n)) = IF m <= n THEN n - m + 1 ELSE 0
               /\ \A i \in 1 .. n - m + 1 : SubSeq(s, m, n)[i] = s[m + i - 1]
    <2>1. \A i \in m .. n : s[i] \in C BY <1>2
    <2> QED BY <2>1, SubSeqProperties
  <1>3. SubSeq(a \o r, Len(a) + 1, Len(a \o r)) = r
    <2> DEFINE m == Len(a) + 1
               n == Len(a) + Len(r)
               s == SubSeq(a \o r, m, n)
    <2>1. m \in Nat \ {0} /\ n \in Nat /\ n <= Len(a \o r) /\ n - m + 1 = Len(r)
          /\ (m <= n <=> Len(r) > 0)
      BY <1>1
    <2>2. s \in Seq(C) /\ Len(s) = (IF m <= n THEN n - m + 1 ELSE 0)
          /\ \A i \in 1 .. n - m + 1 : s[i] = (a \o r)[m + i - 1]
      BY <1>1, <1>2, <2>1
    <2>3. Len(s) = Len(r) BY <1>1, <2>1, <2>2
    <2>4. ASSUME NEW i \in 1 .. Len(s) PROVE s[i] = r[i]
      <3>1. m + i - 1 = Len(a) + i /\ Len(a) + i \in 1 .. Len(a) + Len(r) /\ ~ (Len(a) + i <= Len(a))
            /\ Len(a) + i - Len(a) = i
        BY <1>1, <2>3
      <3>2. s[i] = (a \o r)[Len(a) + i] BY <2>1, <2>2, <2>3, <3>1
      <3> HIDE DEF s
      <3> QED BY <1>1, <3>1, <3>2
    <2> HIDE DEF s
    <2>5. s = r BY <2>2, <2>3, <2>4, SeqEqual
    <2> QED BY <1>1, <2>5 DEF s
  <1>4. SubSeq(a \o r, 1, k) = SubSeq(a, 1, k)
    <2> DEFINE s == SubSeq(a \o r, 1, k)
               u == SubSeq(a, 1, k)
    <2>1. s \in Seq(C) /\ Len(s) = (IF 1 <= k THEN k - 1 + 1 ELSE 0)
          /\ \A i \in 1 .. k - 1 + 1 : s[i] = (a \o r)[1 + i - 1]
      BY <1>1, <1>2
    <2>2. u \in Seq(C) /\ Len(u) = (IF 1 <= k THEN k - 1 + 1 ELSE 0)
          /\ \A i \in 1 .. k - 1 + 1 : u[i] = a[1 + i - 1]
      BY <1>1, <1>2
    <2>3. Len(s) = k /\ Len(u) = k BY <2>1, <2>2
    <2>4. ASSUME NEW i \in 1 .. Len(s) PROVE s[i] = u[i]
      <3>1. i \in 1 .. k - 1 + 1 /\ 1 + i - 1 = i /\ i \in 1 .. Len(a) + Len(r) /\ i <= Len(a)
        BY <1>1, <2>3
      <3> HIDE DEF s, u
      <3> QED BY <1>1, <2>1, <2>2, <3>1
    <2> HIDE DEF s, u
    <2>5. s = u BY <2>1, <2>2, <2>3, <2>4, SeqEqual
    <2> QED BY <2>5 DEF s, u
  <1> QED BY <1>1, <1>2, <1>3, <1>4

\* The characters of a message fit into the large buffer.
LEMMA CharsType ==
    ASSUME NEW x \in Message
    PROVE  /\ Chars(x) \in Seq(Char) /\ Len(Chars(x)) = Length[x] /\ Length[x] \in 1 .. BufferSize
           /\ BufferSize \in Nat /\ Chars(x) # << >>
  <1>1. Length[x] \in 1 .. BufferSize /\ BufferSize \in Nat BY LengthAssumption
  <1>2. Length[x] \in Nat /\ \A i \in 1 .. Length[x] : <<x, i>> \in Char BY <1>1 DEF Char
  <1>3. Chars(x) \in Seq(Char) /\ Len(Chars(x)) = Length[x] BY <1>2 DEF Chars
  <1>4. Len(Chars(x)) # 0 BY <1>1, <1>3
  <1> QED BY <1>1, <1>3, <1>4

\* What waits in the queue can be read.
LEMMA QueueReadable ==
    ASSUME FInv
    PROVE  /\ writeQueue \in Seq(Pointer) /\ Readable(text, writeQueue, Char)
           /\ Pending = PendingOf(text, writeQueue) /\ Pending \in Seq(Char)
           /\ (writeQueue = << >> => Pending = << >>)
  <1>1. writeQueue \in Seq(Pointer) BY DEF FInv, IInv, Shapes
  <1>2. ASSUME NEW i \in 1 .. Len(writeQueue) PROVE Piece(text, writeQueue[i]) \in Seq(Char)
    <2>1. writeQueue[i] \in Pointer /\ i \in DOMAIN writeQueue BY <1>1
    <2>2. CASE writeQueue[i] = NoBuffer BY <2>2 DEF Piece
    <2>3. CASE writeQueue[i] # NoBuffer
      <3>1. text[writeQueue[i]] \in Message BY <2>1, <2>3 DEF FInv, Written, Pointer
      <3> QED BY <2>3, <3>1, CharsType DEF Piece
    <2> QED BY <2>2, <2>3
  <1>3. Readable(text, writeQueue, Char) BY <1>2 DEF Readable
  <1>4. Pending = PendingOf(text, writeQueue) BY DEF Pending
  <1> QED BY <1>1, <1>3, <1>4, PendingType

LEMMA Associate ==
    ASSUME NEW s \in Seq(Char), NEW t \in Seq(Char), NEW u \in Seq(Char)
    PROVE  (s \o t) \o u = s \o (t \o u)
  <1> DEFINE C == Char
  <1>1. s \in Seq(C) /\ t \in Seq(C) /\ u \in Seq(C) OBVIOUS
  <1> HIDE DEF C
  <1> QED BY <1>1, ConcatAssociative

\* The backlog of the log after a step.
LEMMA BacklogAfter == (cache \o Pending)' = cache' \o PendingOf(text', writeQueue')
  BY DEF Pending

\* Characters that are written at the front of the backlog leave it; the write may
\* fail after the first k.
LEMMA WriteStep ==
    ASSUME NEW a \in Seq(Char), NEW r \in Seq(Char), a # << >>, cache \o Pending = a \o r,
           (cache \o Pending)' = r, WriteToFile(a)
    PROVE  L!Write
  <1>1. Len(a) \in Nat /\ Len(a) # 0 /\ Len(a \o r) = Len(a) + Len(r) /\ Len(r) \in Nat
    BY ConcatProperties
  <1>2. PICK k \in 0 .. Len(a) : file' = file \o SubSeq(a, 1, k)
    <2>1. CASE file' = file \o a
      <3>1. a = SubSeq(a, 1, Len(a)) /\ Len(a) \in 0 .. Len(a) BY <1>1, SubSeqFull
      <3>2. file' = file \o SubSeq(a, 1, Len(a)) BY <2>1, <3>1, Zenon
      <3> QED BY <3>1, <3>2, Zenon
    <2>2. CASE \E k \in 0 .. Len(a) - 1 : file' = file \o SubSeq(a, 1, k)
      <3>1. PICK k \in 0 .. Len(a) - 1 : file' = file \o SubSeq(a, 1, k) BY <2>2, Zenon
      <3>2. k \in 0 .. Len(a) BY <1>1
      <3> QED BY <3>1, <3>2, Zenon
    <2> QED BY <2>1, <2>2 DEF WriteToFile
  <1>3. /\ SubSeq(a \o r, Len(a) + 1, Len(a \o r)) = r
        /\ SubSeq(a \o r, 1, k) = SubSeq(a, 1, k)
    <2> DEFINE C == Char
    <2>1. a \in Seq(C) /\ r \in Seq(C) OBVIOUS
    <2> HIDE DEF C
    <2>2. SubSeq(a \o r, Len(a) + 1, Len(a \o r)) = r BY <2>1, Cut, ZenonT(60)
    <2>3. SubSeq(a \o r, 1, k) = SubSeq(a, 1, k) BY <2>1, Cut
    <2> QED BY <2>2, <2>3
  <1>4. Len(a) \in 1 .. Len(cache \o Pending) BY <1>1
  <1> QED BY <1>2, <1>3, <1>4 DEF L!Write

\* What is written is characters.
LEMMA WriteType ==
    ASSUME NEW a \in Seq(Char), WriteToFile(a), file \in Seq(Char)
    PROVE  file' \in Seq(Char)
  <1>1. CASE file' = file \o a BY <1>1, ConcatProperties
  <1>2. ASSUME NEW k \in 0 .. Len(a) - 1, file' = file \o SubSeq(a, 1, k) PROVE file' \in Seq(Char)
    <2>1. << >> \in Seq(Char) /\ k \in 0 .. Len(a) OBVIOUS
    <2>2. SubSeq(a, 1, k) \in Seq(Char) BY <2>1, Cut
    <2> QED BY <1>2, <2>2, ConcatProperties
  <1> QED BY <1>1, <1>2 DEF WriteToFile

Quiet == UNCHANGED <<cache \o Pending, file>>
Step  == L!Log \/ L!Write \/ L!LogDirect \/ Quiet

\* A step that leaves the messages that wait as they are.
LEMMA NothingHandedOver ==
    ASSUME FInv, UNCHANGED <<writeQueue, cache, file>>,
           \A b \in Buffers : InWrite(b) => text'[b] = text[b]
    PROVE  Quiet
  <1>1. writeQueue \in Seq(Pointer) /\ Readable(text, writeQueue, Char)
        /\ Pending = PendingOf(text, writeQueue)
    BY QueueReadable
  <1>2. ASSUME NEW i \in 1 .. Len(writeQueue)
        PROVE  Piece(text, writeQueue[i]) = Piece(text', writeQueue[i])
    <2>1. writeQueue[i] \in Pointer /\ i \in DOMAIN writeQueue BY <1>1
    <2>2. writeQueue[i] # NoBuffer => text'[writeQueue[i]] = text[writeQueue[i]] BY <2>1 DEF Pointer
    <2> QED BY <2>2 DEF Piece, Chars
  <1>3. SamePieces(Len(writeQueue), text, writeQueue, text', writeQueue) BY <1>2 DEF SamePieces
  <1>4. PICK alt : alt = text' OBVIOUS
  <1>5. PendingOf(text, writeQueue) = PendingOf(alt, writeQueue) BY <1>1, <1>3, <1>4, PendingSame
  <1>6. (cache \o Pending)' = cache \o PendingOf(alt, writeQueue) BY <1>4, BacklogAfter
  <1> QED BY <1>1, <1>5, <1>6 DEF Quiet

LEMMA HandOverLogs == ASSUME FInv, NEW t \in Tasks, HandOver(t) PROVE Step
  <1> DEFINE b == caller[t].buffer
  <1>1. /\ writeQueue \in Seq(Pointer) /\ Readable(text, writeQueue, Char)
        /\ Pending = PendingOf(text, writeQueue) /\ Pending \in Seq(Char)
    BY QueueReadable
  <1>2. b \in Pointer /\ cache \in Seq(Char) BY DEF FInv, IInv, Shapes, Written
  <1>3. writeQueue' = Append(writeQueue, b) /\ UNCHANGED <<text, cache, file>> BY DEF HandOver
  <1>4. b # NoBuffer => \E x \in Message : Piece(text, b) = Chars(x)
    BY <1>2 DEF FInv, Written, Pointer, Piece
  <1>5. Piece(text, b) \in Seq(Char)
    BY <1>4, CharsType DEF Piece
  <1> HIDE DEF b
  <1>6. PendingOf(text, Append(writeQueue, b)) = Pending \o Piece(text, b)
    BY <1>1, <1>2, <1>5, PendingAppend
  <1>7. (cache \o Pending)' = cache \o (Pending \o Piece(text, b))
    BY <1>3, <1>6, BacklogAfter
  <1>8. (cache \o Pending)' = (cache \o Pending) \o Piece(text, b)
    BY <1>1, <1>2, <1>5, <1>7, ConcatAssociative, SMTT(40)
  <1>9. CASE b = NoBuffer
    <2>1. Piece(text, b) = << >> BY <1>9 DEF Piece
    <2>2. cache \o Pending \in Seq(Char) BY <1>1, <1>2, ConcatProperties
    <2>3. (cache \o Pending)' = cache \o Pending BY <1>8, <2>1, <2>2, ConcatEmptySeq
    <2> QED BY <1>3, <2>3 DEF Step, Quiet
  <1>10. CASE b # NoBuffer
    <2>1. PICK x \in Message : Piece(text, b) = Chars(x) BY <1>4, <1>10 DEF b
    <2>2. L!Log BY <1>3, <1>8, <2>1 DEF L!Log
    <2> QED BY <2>2 DEF Step
  <1> QED BY <1>9, <1>10

\* All of the cache is written.
LEMMA FlushWrites ==
    ASSUME FInv, Flush, NEW p \in Seq(Char), Pending = p, (cache \o Pending)' = cache' \o p
    PROVE  Step
  <1>1. cache \in Seq(Char) /\ cache' = << >> /\ WriteToFile(cache) BY DEF FInv, Written, Flush
  <1>2. (cache \o Pending)' = p BY <1>1, ConcatEmptySeq
  <1>3. CASE cache = << >>
    <2>1. cache \o Pending = p BY <1>3, ConcatEmptySeq
    <2>2. file' = file
      <3>1. Len(cache) = 0 BY <1>3
      <3>2. file \in Seq(Char) BY DEF FInv, Written
      <3>3. file' = file \o << >> BY <1>1, <1>3, <3>1 DEF WriteToFile
      <3> QED BY <3>2, <3>3, ConcatEmptySeq
    <2> QED BY <1>2, <2>1, <2>2 DEF Step, Quiet
  <1>4. CASE cache # << >>
    <2>1. L!Write BY <1>1, <1>2, <1>4, WriteStep
    <2> QED BY <2>1 DEF Step
  <1> QED BY <1>3, <1>4

\* The logger task takes a message into its cache, and writes what fills it.
LEMMA TakeWrites == ASSUME FInv, Take PROVE Step /\ Written'
  <1> DEFINE h == Head(writeQueue)
             rest == PendingOf(text, Tail(writeQueue))
             chars == Chars(text[h])
  <1>1. /\ writeQueue \in Seq(Pointer) /\ Readable(text, writeQueue, Char)
        /\ Pending = PendingOf(text, writeQueue)
    BY QueueReadable
  <1>2. /\ phase = "running" /\ writeQueue # << >> /\ writeQueue' = Tail(writeQueue)
        /\ UNCHANGED <<phase, text, caller>>
    BY DEF Take
  <1>3. h \in Pointer /\ h = writeQueue[1] /\ 1 \in DOMAIN writeQueue /\ Tail(writeQueue) \in Seq(Pointer)
        /\ \A i \in DOMAIN Tail(writeQueue) : i + 1 \in DOMAIN writeQueue
                                              /\ Tail(writeQueue)[i] = writeQueue[i + 1]
    BY <1>1, <1>2, TailHas
  <1>4. Readable(text, Tail(writeQueue), Char)
    <2>1. ASSUME NEW i \in 1 .. Len(Tail(writeQueue)) PROVE Piece(text, Tail(writeQueue)[i]) \in Seq(Char)
      <3>1. i \in DOMAIN Tail(writeQueue) BY <1>3
      <3>2. i + 1 \in 1 .. Len(writeQueue) /\ Tail(writeQueue)[i] = writeQueue[i + 1] BY <1>1, <1>3, <3>1
      <3> QED BY <1>1, <3>2 DEF Readable
    <2> QED BY <2>1 DEF Readable
  <1>5. rest \in Seq(Char) BY <1>3, <1>4, PendingType
  <1>6. Pending = Piece(text, h) \o rest BY <1>1, <1>2, PendingTail
  <1>7. (cache \o Pending)' = cache' \o rest BY <1>2, BacklogAfter
  <1>8. \A b \in Buffers : InWrite(b)' => InWrite(b) BY <1>2, <1>3
  <1>9. /\ DOMAIN text' = Buffers /\ phase' = "running"
        /\ \A b \in Buffers : InWrite(b)' \/ WithTask(b)' => text'[b] \in Message
    BY <1>2, <1>8 DEF FInv, Written
  <1>10. cache \in Seq(Char) /\ file \in Seq(Char) /\ (cache = << >> \/ Len(cache) < BufferSize)
    BY DEF FInv, Written
  <1> HIDE DEF rest
  <1>11. CASE h = NoBuffer
    <2>1. Flush BY <1>11 DEF Take
    <2>2. Pending = rest
      <3>1. Piece(text, h) = << >> BY <1>11 DEF Piece
      <3> QED BY <1>5, <1>6, <3>1, ConcatEmptySeq
    <2>3. Step BY <1>5, <1>7, <2>1, <2>2, FlushWrites
    <2>4. cache' = << >> /\ file' \in Seq(Char) BY <1>10, <2>1, WriteType DEF Flush
    <2>5. cache' \in Seq(Char) BY <2>4
    <2> QED BY <1>9, <2>3, <2>4, <2>5 DEF Written
  <1>12. CASE h # NoBuffer
    <2>1. text[h] \in Message /\ Piece(text, h) = chars
      <3>1. h \in Buffers /\ InWrite(h) BY <1>3, <1>12 DEF Pointer
      <3> QED BY <1>12, <3>1 DEF FInv, Written, Piece
    <2>2. chars \in Seq(Char) /\ chars # << >> /\ Len(chars) \in 1 .. BufferSize /\ BufferSize \in Nat
      BY <2>1, CharsType
    <2>3. IF Full(chars) THEN WriteToFile(Fit(chars)) /\ cache' = Rest(chars)
          ELSE cache' = cache \o chars /\ UNCHANGED <<file, faults>>
      BY <1>12 DEF Take
    <2>4. cache \o Pending = cache \o (chars \o rest) BY <1>6, <2>1
    <2> HIDE DEF chars, h
    <2>5. CASE ~ Full(chars)
      <3>1. cache' = cache \o chars /\ file' = file BY <2>3, <2>5
      <3>2. cache' \in Seq(Char) /\ Len(cache') = Len(cache) + Len(chars)
        BY <1>10, <2>2, <3>1, ConcatProperties
      <3>3. Len(cache) \in Nat /\ Len(cache') < BufferSize BY <1>10, <2>2, <2>5, <3>2 DEF Full
      <3>4. (cache \o Pending)' = cache \o Pending
        <4>1. (cache \o chars) \o rest = cache \o (chars \o rest)
          BY <1>5, <1>10, <2>2, Associate
        <4> QED BY <1>7, <2>4, <3>1, <4>1
      <3>5. Step BY <3>1, <3>4 DEF Step, Quiet
      <3> QED BY <1>9, <1>10, <3>1, <3>2, <3>3, <3>5 DEF Written
    <2>6. CASE Full(chars)
      <3> DEFINE k == BufferSize - Len(cache)
                 s == SubSeq(chars, 1, k)
                 u == SubSeq(chars, k + 1, Len(chars))
                 a == cache \o s
      <3>1. /\ Len(cache) \in Nat /\ k \in 0 .. Len(chars) /\ Len(chars) \in Nat
            /\ Len(chars) <= BufferSize /\ 1 <= BufferSize
            /\ (cache = << >> => Len(cache) = 0)
        <4>1. Len(cache) \in Nat /\ (cache = << >> => Len(cache) = 0) BY <1>10
        <4> QED BY <1>10, <2>2, <2>6, <4>1 DEF Full
      <3>2. WriteToFile(a) /\ cache' = u
        <4>1. Fit(chars) = a BY DEF Fit
        <4>2. Rest(chars) = u BY DEF Rest
        <4> QED BY <2>3, <2>6, <4>1, <4>2
      <3> HIDE DEF k
      <3>3. s \in Seq(Char) /\ u \in Seq(Char)
            /\ Len(u) = (IF k + 1 <= Len(chars) THEN Len(chars) - (k + 1) + 1 ELSE 0)
            /\ Len(s) = (IF 1 <= k THEN k - 1 + 1 ELSE 0)
        <4>1. \A i \in 1 .. k : chars[i] \in Char BY <2>2, <3>1
        <4>2. \A i \in k + 1 .. Len(chars) : chars[i] \in Char BY <2>2, <3>1
        <4>3. k \in Int /\ 1 \in Int /\ k + 1 \in Int /\ Len(chars) \in Int BY <3>1
        <4>4. s \in Seq(Char) /\ Len(s) = (IF 1 <= k THEN k - 1 + 1 ELSE 0)
          BY <4>1, <4>3, SubSeqProperties
        <4> QED BY <4>2, <4>3, <4>4, SubSeqProperties
      <3>4. chars = s \o u
        <4> DEFINE one == 1
        <4>1. one \in 1 .. Len(chars) + 1 /\ k \in one - 1 .. Len(chars) /\ Len(chars) \in k .. Len(chars)
          BY <3>1
        <4>2. SubSeq(chars, 1, k) \o SubSeq(chars, k + 1, Len(chars)) = SubSeq(chars, 1, Len(chars))
          BY <2>2, <4>1, ConcatAdjacentSubSeq
        <4> QED BY <2>2, <4>2, SubSeqFull
      <3> HIDE DEF s, u
      <3>5. a \in Seq(Char) /\ Len(a) = BufferSize
        <4>1. a \in Seq(Char) /\ Len(a) = Len(cache) + Len(s) BY <1>10, <3>3, ConcatProperties
        <4>2. Len(s) = k BY <3>1, <3>3
        <4>3. Len(cache) + k = BufferSize BY <2>2, <3>1 DEF k
        <4> QED BY <4>1, <4>2, <4>3
      <3>6. a # << >>
        <4>1. Len(a) # 0 BY <3>1, <3>5
        <4> HIDE DEF a
        <4> QED BY <4>1
      <3>7. cache \o Pending = a \o (u \o rest)
        <4>1. (s \o u) \o rest = s \o (u \o rest) BY <1>5, <3>3, ConcatAssociative, SMTT(40)
        <4>2. u \o rest \in Seq(Char) BY <1>5, <3>3, ConcatProperties
        <4>3. cache \o (s \o (u \o rest)) = (cache \o s) \o (u \o rest)
          <5> DEFINE v == u \o rest
          <5>1. v \in Seq(Char) BY <4>2
          <5> HIDE DEF v
          <5>2. (cache \o s) \o v = cache \o (s \o v) BY <1>10, <3>3, <5>1, Associate
          <5> QED BY <5>2 DEF v
        <4> QED BY <2>4, <3>4, <4>1, <4>3
      <3>8. (cache \o Pending)' = u \o rest /\ u \o rest \in Seq(Char)
        BY <1>5, <1>7, <3>2, <3>3, ConcatProperties
      <3> HIDE DEF a
      <3>9. Step
        <4> DEFINE r == u \o rest
        <4>1. r \in Seq(Char) /\ cache \o Pending = a \o r /\ (cache \o Pending)' = r BY <3>7, <3>8
        <4> HIDE DEF r
        <4>2. L!Write BY <3>2, <3>5, <3>6, <4>1, WriteStep
        <4> QED BY <4>2 DEF Step
      <3>10. file' \in Seq(Char) BY <1>10, <3>2, <3>5, WriteType
      <3>11. cache' = << >> \/ Len(cache') < BufferSize
        <4>1. Len(u) = Len(chars) - k BY <3>1, <3>3
        <4>2. Len(u) = Len(chars) + Len(cache) - BufferSize BY <2>2, <3>1, <4>1 DEF k
        <4>3. CASE cache = << >>
          <5>1. Len(u) = 0 BY <2>2, <3>1, <3>3, <4>2, <4>3
          <5>2. u = << >> BY <3>3, <5>1
          <5> QED BY <3>2, <5>2
        <4>4. CASE Len(cache) < BufferSize BY <2>2, <3>1, <3>2, <4>2, <4>4
        <4> QED BY <1>10, <4>3, <4>4
      <3> QED BY <1>9, <3>2, <3>3, <3>9, <3>10, <3>11 DEF Written
    <2> QED BY <2>5, <2>6
  <1> QED BY <1>11, <1>12

\* Without a message for long the cache is written.
LEMMA TimeOutWrites == ASSUME FInv, TimeOut PROVE Step /\ Written'
  <1>1. /\ writeQueue = << >> /\ Pending = << >> /\ Pending \in Seq(Char)
        /\ Pending = PendingOf(text, writeQueue)
    BY QueueReadable DEF TimeOut
  <1>2. UNCHANGED <<phase, writeQueue, text, caller>> /\ Flush BY DEF TimeOut
  <1>3. (cache \o Pending)' = cache' \o Pending BY <1>1, <1>2, BacklogAfter
  <1>4. Step BY <1>1, <1>2, <1>3, FlushWrites
  <1>5. cache' = << >> /\ file' \in Seq(Char)
    BY <1>2, WriteType DEF Flush, FInv, Written
  <1>6. phase = "running" BY DEF TimeOut
  <1> QED BY <1>2, <1>4, <1>5, <1>6 DEF FInv, Written

\* Before the kernel runs the message goes to the file at once.
LEMMA LogDirectWrites == ASSUME FInv, LogDirect PROVE Step /\ Written'
  <1>1. PICK x \in Message : /\ text' = [text EXCEPT ![Head(emptyQueue)] = x]
                             /\ WriteToFile(Chars(x))
    BY DEF LogDirect
  <1>2. /\ phase = "initialised" /\ emptyQueue # << >>
        /\ UNCHANGED <<phase, writeQueue, caller, cache>>
    BY DEF LogDirect
  <1>3. cache = << >> /\ writeQueue = << >> /\ (\A t \in Tasks : caller[t].at = "idle")
    BY <1>2 DEF FInv, Written
  <1>4. Pending = << >> BY <1>3, QueueReadable
  <1>5. PICK alt : alt = text' OBVIOUS
  <1>6. PendingOf(alt, writeQueue) = << >>
    <2>1. writeQueue \in Seq(Pointer) /\ Readable(alt, writeQueue, Char) BY <1>3 DEF Readable
    <2> QED BY <1>3, <2>1, PendingType
  <1>7. cache \o Pending = << >> /\ (cache \o Pending)' = << >>
    <2>1. << >> \in Seq(Char) OBVIOUS
    <2>2. << >> \o << >> = << >> BY <2>1, ConcatEmptySeq
    <2> QED BY <1>2, <1>3, <1>4, <1>5, <1>6, <2>2, BacklogAfter
  <1>8. Chars(x) \in Seq(Char) /\ Len(Chars(x)) \in Nat BY CharsType
  <1>9. PICK k \in 0 .. Len(Chars(x)) : file' = file \o SubSeq(Chars(x), 1, k)
    <2>1. CASE file' = file \o Chars(x)
      <3>1. Chars(x) = SubSeq(Chars(x), 1, Len(Chars(x))) /\ Len(Chars(x)) \in 0 .. Len(Chars(x))
        BY <1>8, SubSeqFull
      <3>2. file' = file \o SubSeq(Chars(x), 1, Len(Chars(x))) BY <2>1, <3>1, Zenon
      <3> QED BY <3>1, <3>2, Zenon
    <2>2. CASE \E k \in 0 .. Len(Chars(x)) - 1 : file' = file \o SubSeq(Chars(x), 1, k)
      <3>1. PICK k \in 0 .. Len(Chars(x)) - 1 : file' = file \o SubSeq(Chars(x), 1, k) BY <2>2, Zenon
      <3>2. k \in 0 .. Len(Chars(x)) BY <1>8
      <3> QED BY <3>1, <3>2, Zenon
    <2> QED BY <1>1, <2>1, <2>2 DEF WriteToFile
  <1>10. L!LogDirect BY <1>7, <1>9 DEF L!LogDirect
  <1>11. file' \in Seq(Char) BY <1>1, <1>8, WriteType DEF FInv, Written
  <1>12. \A t \in Tasks : caller[t].buffer = NoBuffer
    BY <1>3 DEF FInv, IInv, Shapes
  <1>13. \A b \in Buffers : ~ InWrite(b)' /\ ~ WithTask(b)'
    <2>1. \A b \in Buffers : b # NoBuffer BY BuffersAssumption
    <2> QED BY <1>2, <1>3, <1>12, <2>1
  <1>14. DOMAIN text' = Buffers BY <1>1 DEF FInv, Written
  <1> QED BY <1>2, <1>3, <1>10, <1>11, <1>13, <1>14 DEF Step, Written

\* The buffer that a task takes and fills is in no queue.
LEMMA GetBufferLogs == ASSUME FInv, NEW t \in Tasks, GetBuffer(t) PROVE Step /\ Written'
  <1> DEFINE h == Head(emptyQueue)
  <1>1. PICK x \in Message : text' = [text EXCEPT ![h] = x] BY DEF GetBuffer
  <1>2. /\ caller[t].at # "idle" /\ GoTo(t, "handOver", h) /\ emptyQueue # << >>
        /\ UNCHANGED <<phase, writeQueue, cache, file>>
    BY DEF GetBuffer
  <1>3. emptyQueue \in Seq(Buffers) /\ phase = "running"
    BY <1>2 DEF FInv, IInv, Shapes, Written
  <1>4. h \in Buffers /\ InEmpty(h) BY <1>2, <1>3, TailHas
  <1>5. ~ InWrite(h) BY <1>4 DEF FInv, IInv, Distinct
  <1>6. Quiet
    <2>1. \A b \in Buffers : InWrite(b) => text'[b] = text[b]
      <3> HIDE DEF InWrite, h
      <3> QED BY <1>1, <1>5 DEF FInv, Written
    <2> QED BY <1>2, <2>1, NothingHandedOver
  <1>7. /\ caller'[t].buffer = h
        /\ \A u \in Tasks \ {t} : caller'[u] = caller[u]
    <2>1. Shapes /\ h \in Pointer BY <1>4 DEF FInv, IInv, Pointer
    <2> QED BY <1>2, <2>1, CallerAfter
  <1>8. DOMAIN text' = Buffers /\ text'[h] = x /\ \A b \in Buffers \ {h} : text'[b] = text[b]
    BY <1>1, <1>4 DEF FInv, Written
  <1>9. \A b \in Buffers : InWrite(b)' \/ WithTask(b)' => text'[b] \in Message
    <2>1. \A b \in Buffers \ {h} : WithTask(b)' => WithTask(b) BY <1>7
    <2>2. \A b \in Buffers : InWrite(b)' <=> InWrite(b) BY <1>2
    <2> HIDE DEF InWrite, WithTask, h
    <2> QED BY <1>8, <2>1, <2>2 DEF FInv, Written
  <1> QED BY <1>2, <1>3, <1>6, <1>8, <1>9 DEF FInv, Written, Step

LEMMA HandOverWritten == ASSUME FInv, NEW t \in Tasks, HandOver(t) PROVE Written'
  <1>1. /\ writeQueue \in Seq(Pointer) /\ caller[t].buffer \in Pointer /\ NoBuffer \in Pointer
        /\ writeQueue' = Append(writeQueue, caller[t].buffer) /\ GoTo(t, "idle", NoBuffer)
        /\ UNCHANGED <<phase, text, cache, file>> /\ caller[t].at # "idle"
    BY DEF HandOver, FInv, IInv, Shapes, Pointer
  <1>2. /\ caller'[t].buffer = NoBuffer
        /\ \A u \in Tasks \ {t} : caller'[u] = caller[u]
    BY <1>1, CallerAfter DEF FInv, IInv
  <1>3. \A b \in Buffers : /\ InWrite(b)' => InWrite(b) \/ b = caller[t].buffer
                           /\ WithTask(b)' => WithTask(b)
    <2>1. \A b \in Buffers : InWrite(b)' => InWrite(b) \/ b = caller[t].buffer BY <1>1, AppendHas
    <2>2. \A b \in Buffers : b # NoBuffer BY BuffersAssumption
    <2> QED BY <1>2, <2>1, <2>2
  <1>4. phase = "running" BY <1>1 DEF FInv, Written
  <1> QED BY <1>1, <1>3, <1>4 DEF FInv, Written

\* Steps that touch neither the texts nor the cache nor the queue.
LEMMA OthersWritten ==
    ASSUME FInv, UNCHANGED <<writeQueue, text, cache, file>>,
           \A b \in Buffers : WithTask(b)' => WithTask(b),
           phase' # "running" => phase # "running" /\ UNCHANGED caller
    PROVE  Step /\ Written'
  <1>1. Quiet BY NothingHandedOver
  <1>2. \A b \in Buffers : InWrite(b)' <=> InWrite(b) OBVIOUS
  <1> QED BY <1>1, <1>2 DEF Step, FInv, Written

LEMMA NextWrites == FInv /\ [Next]_vars => FInv' /\ Step
  <1> SUFFICES ASSUME FInv, [Next]_vars PROVE Written' /\ Step
    BY NextInv DEF FInv
  <1>1. CASE LoggerInit \/ StartKernel \/ GiveBack \/ UNCHANGED vars
    <2>1. UNCHANGED <<writeQueue, text, cache, file, caller>>
          /\ (phase' # "running" => phase # "running")
      BY <1>1 DEF LoggerInit, StartKernel, GiveBack, vars
    <2> QED BY <2>1, OthersWritten
  <1>2. CASE LogDirect BY <1>2, LogDirectWrites
  <1>3. CASE Take BY <1>3, TakeWrites
  <1>4. CASE TimeOut BY <1>4, TimeOutWrites
  <1>5. ASSUME NEW t \in Tasks, Call(t) \/ WaitForBuffer(t) PROVE Written' /\ Step
    <2>1. PICK at : at # "handOver" /\ GoTo(t, at, NoBuffer) BY <1>5 DEF Call, WaitForBuffer
    <2>2. NoBuffer \in Pointer /\ UNCHANGED <<phase, writeQueue, text, cache, file>>
          /\ (Call(t) => phase = "running") /\ (WaitForBuffer(t) => caller[t].at # "idle")
      BY <1>5 DEF Call, WaitForBuffer, Pointer
    <2>3. caller'[t].buffer = NoBuffer /\ \A u \in Tasks \ {t} : caller'[u] = caller[u]
      BY <2>1, <2>2, CallerAfter DEF FInv, IInv
    <2>4. \A b \in Buffers : WithTask(b)' => WithTask(b)
      <3>1. \A b \in Buffers : b # NoBuffer BY BuffersAssumption
      <3> QED BY <2>3, <3>1
    <2>5. phase = "running" BY <1>5, <2>2 DEF FInv, Written
    <2> QED BY <2>2, <2>4, <2>5, OthersWritten
  <1>6. ASSUME NEW t \in Tasks, GetBuffer(t) PROVE Written' /\ Step
    BY <1>6, GetBufferLogs
  <1>7. ASSUME NEW t \in Tasks, HandOver(t) PROVE Written' /\ Step
    BY <1>7, HandOverWritten, HandOverLogs
  <1> QED BY <1>1, <1>2, <1>3, <1>4, <1>5, <1>6, <1>7 DEF Next, LoggerTask, Task

LEMMA InitWrites == Init => FInv /\ L!Init
  <1> SUFFICES ASSUME Init PROVE FInv /\ L!Init
    OBVIOUS
  <1>1. IInv BY InitInv
  <1>2. /\ phase = "off" /\ writeQueue = << >> /\ cache = << >> /\ file = << >>
        /\ DOMAIN text = Buffers /\ \A t \in Tasks : caller[t] = Idle
    BY DEF Init
  <1>3. Written
    <2>1. \A b \in Buffers : b # NoBuffer BY BuffersAssumption
    <2>2. \A b \in Buffers : ~ InWrite(b) /\ ~ WithTask(b) BY <1>2, <2>1 DEF Idle
    <2>3. << >> \in Seq(Char) /\ \A t \in Tasks : caller[t].at = "idle" BY <1>2 DEF Idle
    <2> QED BY <1>2, <2>2, <2>3 DEF Written
  <1>4. FInv BY <1>1, <1>3 DEF FInv
  <1>5. Pending = << >> BY <1>2, <1>4, QueueReadable
  <1>6. cache \o Pending = << >>
    <2>1. << >> \in Seq(Char) OBVIOUS
    <2> QED BY <1>2, <1>5, <2>1, ConcatEmptySeq
  <1> QED BY <1>2, <1>4, <1>6 DEF L!Init

\* The logger implements the log file: whatever the tasks, the pool, the messages and
\* the size of the large buffer are, the characters reach the file in the order in
\* which the messages were handed over, and only a failed write leaves some out.
THEOREM LogIsInOrder == Spec => WritesInOrder
  <1>1. Init => FInv /\ L!Init
    BY InitWrites
  <1>2. FInv /\ [Next]_vars => FInv' /\ [L!Log \/ L!Write \/ L!LogDirect]_<<cache \o Pending, file>>
    BY NextWrites DEF Step, Quiet
  <1> QED
    BY <1>1, <1>2, PTL DEF Spec, WritesInOrder, L!Spec
=============================================================================
