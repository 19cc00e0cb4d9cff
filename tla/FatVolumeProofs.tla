-------------------------- MODULE FatVolumeProofs --------------------------
(***************************************************************************)
(* The volume of the file system: no two files ever share a cluster on the *)
(* disk.  The disk is always a view of the volume that the calls went      *)
(* through, so the invariant says that every view on the way of the call   *)
(* that has the lock is sane (Runs), what it leads to included: links are  *)
(* injective, and files start at clusters of their own that nothing links  *)
(* to.                                                                     *)
(*                                                                         *)
(* Then what f_sync() and f_close() have made permanent stays readable on  *)
(* the disk.  Every volume on the way of the call is safe as well: what is *)
(* saved, and the text of each open file but for its buffer, is in the     *)
(* clusters that a walk along the links goes through (Holds, Fine), and    *)
(* each step leaves what is saved where it is (Leads).  The disk has the   *)
(* same walks in its own table (StoredOf), whichever of these volumes it   *)
(* shows.                                                                  *)
(***************************************************************************)
EXTENDS FatVolume, FiniteSetTheorems, SequenceTheorems, WellFoundedInduction, TLAPS

-----------------------------------------------------------------------------
(* Lists of steps.                                                         *)

IsList(q) == \E Z : q \in Seq(Z)

LEMMA NoList == IsList(<< >>) /\ Len(<< >>) = 0
  <1>1. << >> \in Seq({}) OBVIOUS
  <1> QED BY <1>1 DEF IsList

LEMMA OneList == ASSUME NEW e PROVE IsList(<<e>>) /\ Len(<<e>>) = 1 /\ <<e>>[1] = e
  <1>1. <<e>> \in Seq({e}) OBVIOUS
  <1> QED BY <1>1 DEF IsList

LEMMA ListLength == ASSUME NEW q, IsList(q) PROVE Len(q) \in Nat /\ (q = << >> <=> Len(q) = 0)
  BY DEF IsList

LEMMA TailList ==
  ASSUME NEW q, IsList(q), q # << >>
  PROVE  /\ IsList(Tail(q)) /\ Len(q) \in Nat \ {0} /\ Len(Tail(q)) = Len(q) - 1 /\ Head(q) = q[1]
         /\ \A i \in 1 .. Len(q) - 1 : Tail(q)[i] = q[i + 1]
  <1>1. PICK Z : q \in Seq(Z) BY DEF IsList
  <1>2. Tail(q) \in Seq(Z) /\ Len(q) \in Nat \ {0} /\ Len(Tail(q)) = Len(q) - 1 /\ Head(q) = q[1]
    BY <1>1
  <1>3. \A i \in 1 .. Len(q) - 1 : Tail(q)[i] = q[i + 1] BY <1>1
  <1> QED BY <1>2, <1>3 DEF IsList

LEMMA JoinList ==
  ASSUME NEW q, NEW r, IsList(q), IsList(r)
  PROVE  /\ IsList(q \o r) /\ Len(q) \in Nat /\ Len(r) \in Nat /\ Len(q \o r) = Len(q) + Len(r)
         /\ \A i \in 1 .. Len(q) : (q \o r)[i] = q[i]
         /\ \A i \in 1 .. Len(q) + Len(r) : i > Len(q) => (q \o r)[i] = r[i - Len(q)]
  <1>1. PICK Y : q \in Seq(Y) BY DEF IsList
  <1>2. PICK Z : r \in Seq(Z) BY DEF IsList
  <1>3. q \in Seq(Y \cup Z) /\ r \in Seq(Y \cup Z) BY <1>1, <1>2
  <1>4. q \o r \in Seq(Y \cup Z) BY <1>3
  <1>5. /\ Len(q) \in Nat /\ Len(r) \in Nat /\ Len(q \o r) = Len(q) + Len(r) BY <1>3
  <1>6. \A i \in 1 .. Len(q) : (q \o r)[i] = q[i] BY <1>3
  <1>7. \A i \in 1 .. Len(q) + Len(r) : i > Len(q) => (q \o r)[i] = r[i - Len(q)] BY <1>3
  <1> QED BY <1>4, <1>5, <1>6, <1>7 DEF IsList

\* A sequence written as a function.
LEMMA FunctionList ==
  ASSUME NEW q, NEW n \in Nat, q = [i \in 1 .. n |-> q[i]]
  PROVE  IsList(q) /\ Len(q) = n
  <1> DEFINE Z == {q[i] : i \in 1 .. n}
  <1>1. q \in [1 .. n -> Z] BY ONLY q = [i \in 1 .. n |-> q[i]]
  <1>2. q \in Seq(Z) BY <1>1
  <1>3. Len(q) = n BY <1>1, <1>2
  <1> QED BY <1>2, <1>3 DEF IsList

-----------------------------------------------------------------------------
(* The volume as the tasks see it, and what a step of a call does to it.   *)

Starts == {0} \cup Clusters
Owners == Names \cup {None}

FileOK(f) ==
    /\ DOMAIN f = DOMAIN Closed
    /\ f.name \in Owners /\ f.sclust \in Starts /\ f.clust \in Starts
    /\ f.fptr # 0 => f.sclust # 0

Shape(v) ==
    /\ v = [fat |-> v.fat, dir |-> v.dir, fil |-> v.fil]
    /\ v.fat \in [Clusters -> 0 .. EndOfChain]
    /\ DOMAIN v.dir = Names
    /\ \A n \in Names : v.dir[n] # None => v.dir[n].clust \in Starts
    /\ DOMAIN v.fil = Tasks
    /\ \A t \in Tasks : FileOK(v.fil[t])

\* A file's entry or an open file of that name starts at the cluster s.
Claims(v, n, s) ==
    \/ n \in Names /\ v.dir[n] # None /\ v.dir[n].clust = s
    \/ \E t \in Tasks : v.fil[t].name = n /\ v.fil[t].sclust = s

\* Files start at clusters in use that nothing links to, and at different ones.
Apart(v) ==
    \A s \in Clusters : \A n \in Owners : Claims(v, n, s) =>
        Alone(v.fat, s) /\ \A m \in Owners : Claims(v, m, s) => m = n

Sane(v) == Shape(v) /\ Linked(v.fat) /\ Apart(v)

view == [fat |-> fat, dir |-> dir, fil |-> fil]

Exec(v, s) ==
    [fat |-> IF s.do = "fat" THEN [v.fat EXCEPT ![s.clst] = s.val] ELSE v.fat,
     dir |-> IF s.do = "dir" THEN [v.dir EXCEPT ![s.name] = s.entry] ELSE v.dir,
     fil |-> IF s.do = "fil" THEN [v.fil EXCEPT ![s.task] = s.file] ELSE v.fil]

\* The steps of a list lead from the view v to w, through sane views only when all.
Traces(tr, list, v, w, all) ==
    /\ tr[0] = v /\ tr[Len(list)] = w
    /\ \A i \in 1 .. Len(list) : tr[i] = Exec(tr[i - 1], list[i])
    /\ all => \A i \in 0 .. Len(list) : Sane(tr[i])
Runs(list, v, w, all) == IsList(list) /\ \E tr : Traces(tr, list, v, w, all)

LEMMA RunsNone == ASSUME NEW v, Sane(v), NEW all PROVE Runs(<< >>, v, v, all)
  <1> DEFINE tr == [i \in {0} |-> v]
  <1>1. tr[0] = v OBVIOUS
  <1> HIDE DEF tr
  <1>2. Traces(tr, << >>, v, v, all) BY <1>1, NoList DEF Traces
  <1> QED BY <1>2, NoList DEF Runs

LEMMA RunsOne ==
  ASSUME NEW v, Sane(v), NEW s, NEW w, w = Exec(v, s), NEW all, all => Sane(w)
  PROVE  Runs(<<s>>, v, w, all)
  <1> DEFINE tr == [i \in {0, 1} |-> IF i = 0 THEN v ELSE w]
  <1>1. tr[0] = v /\ tr[1] = w OBVIOUS
  <1> HIDE DEF tr
  <1>2. \A i \in 1 .. 1 : i = 1 /\ i - 1 = 0 OBVIOUS
  <1>3. \A i \in 0 .. 1 : i = 0 \/ i = 1 OBVIOUS
  <1>4. Traces(tr, <<s>>, v, w, all) BY <1>1, <1>2, <1>3, OneList DEF Traces
  <1> QED BY <1>4, OneList DEF Runs

LEMMA RunsJoin ==
  ASSUME NEW q, NEW r, NEW u, NEW v, NEW w, NEW all, Runs(q, u, v, all), Runs(r, v, w, all)
  PROVE  Runs(q \o r, u, w, all)
  <1>1. PICK a : Traces(a, q, u, v, all) BY DEF Runs
  <1>2. PICK b : Traces(b, r, v, w, all) BY DEF Runs
  <1> DEFINE m == Len(q)
             n == Len(r)
             tr == [i \in 0 .. m + n |-> IF i <= m THEN a[i] ELSE b[i - m]]
  <1>3. IsList(q) /\ IsList(r) BY DEF Runs
  <1>4. /\ IsList(q \o r) /\ m \in Nat /\ n \in Nat /\ Len(q \o r) = m + n
        /\ \A i \in 1 .. m : (q \o r)[i] = q[i]
        /\ \A i \in 1 .. m + n : i > m => (q \o r)[i] = r[i - m]
    BY <1>3, JoinList
  <1> HIDE DEF m, n
  <1>5. /\ \A i \in 0 .. m + n : i <= m => tr[i] = a[i]
        /\ \A i \in 0 .. m + n : i >= m => tr[i] = b[i - m]
    <2>1. a[m] = v /\ b[0] = v BY <1>1, <1>2 DEF Traces, m
    <2>2. \A i \in 0 .. m + n : i <= m => tr[i] = a[i] BY <1>4
    <2>3. ASSUME NEW i \in 0 .. m + n, i > m PROVE tr[i] = b[i - m] BY <1>4, <2>3
    <2>4. m - m = 0 BY <1>4
    <2> HIDE DEF tr
    <2>5. ASSUME NEW i \in 0 .. m + n, i >= m PROVE tr[i] = b[i - m]
      <3>1. CASE i > m BY <2>3, <3>1
      <3>2. CASE i = m BY <2>1, <2>2, <2>4, <3>2, <1>4
      <3> QED BY <3>1, <3>2, <2>5, <1>4
    <2> QED BY <2>2, <2>5
  <1> HIDE DEF tr
  <1>6. tr[0] = u
    <2>1. 0 \in 0 .. m + n /\ 0 <= m BY <1>4
    <2> QED BY <1>1, <1>5, <2>1 DEF Traces
  <1>7. tr[m + n] = w
    <2>1. m + n \in 0 .. m + n /\ m + n >= m /\ (m + n) - m = n BY <1>4
    <2> QED BY <1>2, <1>5, <2>1 DEF Traces, n
  <1>8. ASSUME NEW i \in 1 .. m + n PROVE tr[i] = Exec(tr[i - 1], (q \o r)[i])
    <2>0. i \in 0 .. m + n /\ i - 1 \in 0 .. m + n BY <1>4
    <2>1. CASE i <= m
      <3>1. i \in 1 .. m /\ i - 1 <= m BY <1>4, <2>1
      <3> QED BY <1>1, <1>4, <1>5, <2>0, <2>1, <3>1 DEF Traces, m
    <2>2. CASE i > m
      <3>1. i - m \in 1 .. n /\ i - 1 >= m /\ (i - 1) - m = (i - m) - 1 /\ i >= m BY <1>4, <2>2
      <3>2. b[i - m] = Exec(b[(i - m) - 1], r[i - m]) BY <1>2, <3>1 DEF Traces, n
      <3>3. tr[i] = b[i - m] /\ tr[i - 1] = b[(i - m) - 1] BY <1>5, <2>0, <3>1
      <3> QED BY <1>4, <2>2, <3>2, <3>3
    <2> QED BY <1>4, <2>1, <2>2
  <1>9. ASSUME all, NEW i \in 0 .. m + n PROVE Sane(tr[i])
    <2>1. CASE i <= m
      <3>1. i \in 0 .. m BY <1>4, <2>1
      <3> QED BY <1>1, <1>5, <1>9, <2>1, <3>1 DEF Traces, m
    <2>2. CASE i > m
      <3>1. i - m \in 0 .. n /\ i >= m BY <1>4, <2>2
      <3> QED BY <1>2, <1>5, <1>9, <3>1 DEF Traces, n
    <2> QED BY <1>4, <2>1, <2>2
  <1>10. Traces(tr, q \o r, u, w, all)
    BY <1>4, <1>6, <1>7, <1>8, <1>9 DEF Traces
  <1> QED BY <1>4, <1>10 DEF Runs

LEMMA RunsTail ==
  ASSUME NEW q, NEW v, NEW w, NEW all, Runs(q, v, w, all), q # << >>
  PROVE  Runs(Tail(q), Exec(v, Head(q)), w, all)
  <1>1. PICK a : Traces(a, q, v, w, all) BY DEF Runs
  <1>2. IsList(q) BY DEF Runs
  <1> DEFINE n == Len(q) - 1
             tr == [i \in 0 .. n |-> a[i + 1]]
  <1>3. /\ IsList(Tail(q)) /\ n \in Nat /\ Len(q) = n + 1 /\ Len(Tail(q)) = n /\ Head(q) = q[1]
        /\ \A i \in 1 .. n : Tail(q)[i] = q[i + 1]
    BY <1>2, TailList
  <1>4. \A i \in 0 .. n : tr[i] = a[i + 1] OBVIOUS
  <1> HIDE DEF n, tr
  <1>5. tr[0] = Exec(v, Head(q))
    <2>1. 0 \in 0 .. n /\ 1 \in 1 .. n + 1 /\ 1 - 1 = 0 /\ 0 + 1 = 1 BY <1>3
    <2>2. a[1] = Exec(a[0], q[1]) BY <1>1, <1>3, <2>1 DEF Traces
    <2> QED BY <1>1, <1>3, <1>4, <2>1, <2>2 DEF Traces
  <1>6. tr[n] = w
    <2>1. n \in 0 .. n BY <1>3
    <2> QED BY <1>1, <1>3, <1>4, <2>1 DEF Traces
  <1>7. ASSUME NEW i \in 1 .. n PROVE tr[i] = Exec(tr[i - 1], Tail(q)[i])
    <2>1. i \in 0 .. n /\ i - 1 \in 0 .. n /\ i + 1 \in 1 .. n + 1 /\ (i + 1) - 1 = i /\ (i - 1) + 1 = i
      BY <1>3
    <2>2. a[i + 1] = Exec(a[(i + 1) - 1], q[i + 1]) BY <1>1, <1>3, <2>1 DEF Traces
    <2>3. tr[i] = a[i + 1] /\ tr[i - 1] = a[i] BY <1>4, <2>1
    <2> QED BY <1>3, <2>1, <2>2, <2>3
  <1>8. ASSUME all, NEW i \in 0 .. n PROVE Sane(tr[i])
    <2>1. i + 1 \in 0 .. n + 1 BY <1>3
    <2> QED BY <1>1, <1>3, <1>4, <1>8, <2>1 DEF Traces
  <1>9. Traces(tr, Tail(q), Exec(v, Head(q)), w, all)
    BY <1>3, <1>5, <1>6, <1>7, <1>8 DEF Traces
  <1> QED BY <1>3, <1>9 DEF Runs

LEMMA RunsStart ==
  ASSUME NEW q, NEW v, NEW w, NEW all, Runs(q, v, w, all)
  PROVE  /\ all => Sane(v) /\ Sane(w)
         /\ q = << >> => v = w
  <1>1. PICK a : Traces(a, q, v, w, all) BY DEF Runs
  <1>2. Len(q) \in Nat /\ (q = << >> <=> Len(q) = 0) BY ListLength DEF Runs
  <1>3. 0 \in 0 .. Len(q) /\ Len(q) \in 0 .. Len(q) BY <1>2
  <1> QED BY <1>1, <1>2, <1>3 DEF Traces

\* Steps that change no view.
Quiet(s) == s.do \notin {"fat", "dir", "fil"}

LEMMA QuietStep == ASSUME NEW v, Shape(v), NEW s, Quiet(s) PROVE Exec(v, s) = v
  BY DEF Quiet, Exec, Shape

LEMMA RunsQuiet ==
  ASSUME NEW q, IsList(q), \A i \in 1 .. Len(q) : Quiet(q[i]), NEW v, Sane(v), NEW all
  PROVE  Runs(q, v, v, all)
  <1> DEFINE tr == [i \in 0 .. Len(q) |-> v]
  <1>1. Len(q) \in Nat BY ListLength
  <1>2. \A i \in 0 .. Len(q) : tr[i] = v OBVIOUS
  <1> HIDE DEF tr
  <1>3. tr[0] = v /\ tr[Len(q)] = v BY <1>1, <1>2
  <1>4. ASSUME NEW i \in 1 .. Len(q) PROVE tr[i] = Exec(tr[i - 1], q[i])
    <2>1. tr[i] = v /\ tr[i - 1] = v BY <1>1, <1>2
    <2>2. Exec(v, q[i]) = v BY QuietStep DEF Sane
    <2> QED BY <2>1, <2>2
  <1>5. Traces(tr, q, v, v, all) BY <1>1, <1>2, <1>3, <1>4 DEF Traces
  <1> QED BY <1>5 DEF Runs

-----------------------------------------------------------------------------
(* Induction, and the least of a set of numbers.                           *)

Below == OpToRel(<, Nat)

LEMMA BelowDef == ASSUME NEW m \in Nat, NEW n \in Nat PROVE <<m, n>> \in Below <=> m < n
  BY DEF Below, OpToRel

LEMMA LeastNumber ==
  ASSUME NEW S, S \subseteq Nat, S # {}
  PROVE  \E i \in S : \A j \in S : i <= j
  <1>1. IsWellFoundedOn(Below, Nat)
    BY NatLessThanWellFounded DEF Below
  <1>2. PICK i \in S : \A j \in S : ~ (<<j, i>> \in Below)
    BY <1>1, WFMin
  <1>3. ASSUME NEW j \in S PROVE i <= j
    <2>1. i \in Nat /\ j \in Nat OBVIOUS
    <2>2. ~ (j < i) BY <1>2, <2>1, BelowDef
    <2> QED BY <2>1, <2>2
  <1> QED BY <1>3

LEMMA FatInduct ==
  ASSUME NEW S, 0 \in S, \A n \in Nat : n \in S => n + 1 \in S PROVE Nat \subseteq S
  <1> DEFINE T == Nat \ S
  <1> SUFFICES ASSUME T # {} PROVE FALSE
    OBVIOUS
  <1>1. PICK x \in T : \A y \in T : x <= y
    <2>1. T \subseteq Nat OBVIOUS
    <2> HIDE DEF T
    <2> QED BY <2>1, LeastNumber
  <1>2. x - 1 \in Nat /\ (x - 1) + 1 = x /\ ~ (x <= x - 1)
    <2>1. x \in Nat /\ x # 0 OBVIOUS
    <2> QED BY <2>1
  <1>3. x - 1 \in T BY <1>2
  <1> QED BY <1>1, <1>2, <1>3

-----------------------------------------------------------------------------
(* Chains of clusters.                                                     *)

\* What Chain returns: it starts at c, and each cluster links to the next.
Path(table, c, q) ==
    /\ q \in Seq(Clusters)
    /\ q = << >> <=> c \notin Clusters
    /\ q # << >> => q[1] = c
    /\ \A i \in 1 .. Len(q) - 1 : table[q[i]] = q[i + 1]

Base(c) == IF c \in Clusters THEN <<c>> ELSE << >>
Walked(table, c, n, g) ==
    g = [i \in 0 .. n |-> IF i = 0 THEN Base(c) ELSE Longer(table, g[i - 1], i)]

LEMMA WalkExists == ASSUME NEW table, NEW c, NEW n \in Nat PROVE \E g : Walked(table, c, n, g)
  <1> DEFINE S == {k \in Nat : \E g : Walked(table, c, k, g)}
  <1>1. 0 \in S
    <2> DEFINE g == [i \in 0 .. 0 |-> Base(c)]
    <2>1. \A i \in 0 .. 0 : i = 0 OBVIOUS
    <2>2. g = [i \in 0 .. 0 |-> IF i = 0 THEN Base(c) ELSE Longer(table, g[i - 1], i)] BY <2>1
    <2> QED BY <2>2 DEF Walked
  <1>2. ASSUME NEW k \in Nat, k \in S PROVE k + 1 \in S
    <2>1. PICK f : Walked(table, c, k, f) BY <1>2
    <2> DEFINE g == [i \in 0 .. k + 1 |-> IF i <= k THEN f[i] ELSE Longer(table, f[k], k + 1)]
    <2>2. \A i \in 0 .. k : g[i] = f[i] OBVIOUS
    <2>3. g[k + 1] = Longer(table, g[k], k + 1)
      <3>1. k + 1 \in 0 .. k + 1 /\ ~ (k + 1 <= k) /\ k \in 0 .. k OBVIOUS
      <3> QED BY <2>2, <3>1
    <2>4. DOMAIN g = 0 .. k + 1 /\ g = [i \in 0 .. k + 1 |-> g[i]] OBVIOUS
    <2> HIDE DEF g
    <2>5. ASSUME NEW i \in 0 .. k + 1 PROVE g[i] = IF i = 0 THEN Base(c) ELSE Longer(table, g[i - 1], i)
      <3>1. CASE i = k + 1
        <4>1. i - 1 = k /\ i # 0 BY <3>1
        <4> QED BY <2>3, <3>1, <4>1
      <3>2. CASE i # k + 1
        <4>1. i \in 0 .. k BY <3>2
        <4>2. f[i] = IF i = 0 THEN Base(c) ELSE Longer(table, f[i - 1], i) BY <2>1, <4>1 DEF Walked
        <4>3. CASE i = 0 BY <2>2, <4>1, <4>2, <4>3
        <4>4. CASE i # 0
          <5>1. i - 1 \in 0 .. k BY <4>1, <4>4
          <5> QED BY <2>2, <4>1, <4>2, <4>4, <5>1
        <4> QED BY <4>3, <4>4
      <3> QED BY <3>1, <3>2
    <2>6. g = [i \in 0 .. k + 1 |-> IF i = 0 THEN Base(c) ELSE Longer(table, g[i - 1], i)]
      BY <2>4, <2>5
    <2> QED BY <2>6 DEF Walked
  <1> HIDE DEF S
  <1>3. n \in S BY <1>1, <1>2, FatInduct
  <1> QED BY <1>3 DEF S

LEMMA LongerPath ==
  ASSUME NEW table, NEW c, NEW q, Path(table, c, q), NEW i \in Nat
  PROVE  Path(table, c, Longer(table, q, i))
  <1> DEFINE next == IF q = << >> THEN 0 ELSE table[Last(q)]
  <1>1. CASE next \in Clusters /\ Len(q) = i /\ q # << >>
    <2>1. Longer(table, q, i) = Append(q, next) BY <1>1 DEF Longer
    <2>2. q \in Seq(Clusters) /\ Len(q) \in Nat \ {0} BY <1>1 DEF Path
    <2>3. table[q[Len(q)]] = next BY <1>1 DEF Last
    <2> HIDE DEF next
    <2>4. /\ Append(q, next) \in Seq(Clusters) /\ Len(Append(q, next)) = Len(q) + 1
          /\ \A j \in 1 .. Len(q) : Append(q, next)[j] = q[j]
          /\ Append(q, next)[Len(q) + 1] = next
      BY <1>1, <2>2
    <2>5. ASSUME NEW j \in 1 .. (Len(q) + 1) - 1 PROVE table[Append(q, next)[j]] = Append(q, next)[j + 1]
      <3>1. CASE j = Len(q) BY <2>2, <2>3, <2>4, <3>1
      <3>2. CASE j # Len(q)
        <4>1. j \in 1 .. Len(q) - 1 /\ j + 1 \in 1 .. Len(q) /\ j \in 1 .. Len(q) BY <2>2, <3>2
        <4> QED BY <2>4, <4>1 DEF Path
      <3> QED BY <3>1, <3>2
    <2>6. Append(q, next) # << >> /\ Append(q, next)[1] = q[1]
      <3>1. 1 \in 1 .. Len(q) BY <2>2
      <3> QED BY <2>2, <2>4, <3>1
    <2> QED BY <1>1, <2>1, <2>4, <2>5, <2>6 DEF Path
  <1>2. CASE ~ (next \in Clusters /\ Len(q) = i /\ q # << >>)
    <2>1. 0 \notin Clusters BY FatAssumption DEF Clusters
    <2>2. Longer(table, q, i) = q BY <1>2, <2>1 DEF Longer
    <2> QED BY <2>2
  <1> QED BY <1>1, <1>2

LEMMA ChainPath == ASSUME NEW table, NEW c PROVE Path(table, c, Chain(table, c))
  <1>0. Size \in Nat BY FatAssumption
  <1> DEFINE walk == CHOOSE g : g = [i \in 0 .. Size |->
                        IF i = 0 THEN IF c \in Clusters THEN <<c>> ELSE << >>
                        ELSE Longer(table, g[i - 1], i)]
  <1>1. \E g : Walked(table, c, Size, g) BY <1>0, WalkExists
  <1>2. walk = [i \in 0 .. Size |-> IF i = 0 THEN IF c \in Clusters THEN <<c>> ELSE << >>
                                    ELSE Longer(table, walk[i - 1], i)]
    BY <1>1 DEF Walked, Base
  <1>3. Chain(table, c) = walk[Size]
    BY DEF Chain
  <1> HIDE DEF walk
  <1> DEFINE S == {k \in Nat : k <= Size => Path(table, c, walk[k])}
  <1>4. 0 \in S
    <2>1. walk[0] = IF c \in Clusters THEN <<c>> ELSE << >> BY <1>0, <1>2
    <2>2. CASE c \in Clusters
      <3>1. PICK y : y = <<c>> OBVIOUS
      <3>2. y \in Seq(Clusters) /\ Len(y) = 1 /\ y[1] = c /\ y # << >> BY <2>2, <3>1
      <3>3. \A i \in 1 .. Len(y) - 1 : FALSE BY <3>2
      <3>4. Path(table, c, y) BY <2>2, <3>2, <3>3 DEF Path
      <3> QED BY <2>1, <2>2, <3>1, <3>4
    <2>3. CASE c \notin Clusters
      <3>1. PICK y : y = << >> OBVIOUS
      <3>2. y \in Seq(Clusters) /\ Len(y) = 0 BY <3>1
      <3>3. \A i \in 1 .. Len(y) - 1 : FALSE BY <3>2
      <3>4. Path(table, c, y) BY <2>3, <3>1, <3>2, <3>3 DEF Path
      <3> QED BY <2>1, <2>3, <3>1, <3>4
    <2> QED BY <2>2, <2>3
  <1>5. ASSUME NEW k \in Nat, k \in S PROVE k + 1 \in S
    <2>1. CASE k + 1 <= Size
      <3>1. k + 1 \in 0 .. Size /\ k + 1 # 0 /\ (k + 1) - 1 = k /\ k <= Size BY <1>0, <2>1
      <3>2. walk[k + 1] = Longer(table, walk[k], k + 1) BY <1>2, <3>1
      <3>3. Path(table, c, walk[k]) BY <1>5, <3>1
      <3>4. Path(table, c, walk[k + 1]) BY <3>2, <3>3, LongerPath
      <3> QED BY <3>4
    <2>2. CASE ~ (k + 1 <= Size) BY <2>2
    <2> QED BY <2>1, <2>2
  <1> HIDE DEF S
  <1>6. Size \in S BY <1>0, <1>4, <1>5, FatInduct
  <1> QED BY <1>0, <1>3, <1>6 DEF S

\* The clusters of a file are in use, and two files have none in common.
LEMMA ChainUsed ==
  ASSUME NEW table, Linked(table), NEW s \in Clusters, Alone(table, s),
         NEW q, Path(table, s, q), NEW i \in 1 .. Len(q)
  PROVE  table[q[i]] # 0
  <1>1. \A j \in 1 .. Len(q) : q[j] \in Clusters BY DEF Path
  <1>2. CASE i = 1
    BY <1>2 DEF Path, Alone
  <1>3. CASE i # 1
    <2>1. i - 1 \in 1 .. Len(q) - 1 /\ i - 1 \in 1 .. Len(q) /\ (i - 1) + 1 = i BY <1>3
    <2>2. table[q[i - 1]] = q[i] BY <2>1 DEF Path
    <2> QED BY <1>1, <2>1, <2>2 DEF Linked
  <1> QED BY <1>2, <1>3

LEMMA ChainsDisjoint ==
  ASSUME NEW table, Linked(table), NEW s \in Clusters, Alone(table, s),
         NEW r \in Clusters, Alone(table, r), s # r,
         NEW p, Path(table, s, p), NEW q, Path(table, r, q)
  PROVE  \A i \in 1 .. Len(p), j \in 1 .. Len(q) : p[i] # q[j]
  <1>0. /\ \A j \in 1 .. Len(p) : p[j] \in Clusters /\ (j # 1 => j - 1 \in 1 .. Len(p) /\ table[p[j - 1]] = p[j])
        /\ \A j \in 1 .. Len(q) : q[j] \in Clusters /\ (j # 1 => j - 1 \in 1 .. Len(q) /\ table[q[j - 1]] = q[j])
        /\ Len(p) # 0 => p[1] = s
        /\ Len(q) # 0 => q[1] = r
    <2>1. p \in Seq(Clusters) /\ q \in Seq(Clusters) BY DEF Path
    <2>2. ASSUME NEW j \in 1 .. Len(p), j # 1 PROVE j - 1 \in 1 .. Len(p) /\ table[p[j - 1]] = p[j]
      <3>1. j - 1 \in 1 .. Len(p) - 1 /\ j - 1 \in 1 .. Len(p) /\ (j - 1) + 1 = j BY <2>1, <2>2
      <3> QED BY <3>1 DEF Path
    <2>3. ASSUME NEW j \in 1 .. Len(q), j # 1 PROVE j - 1 \in 1 .. Len(q) /\ table[q[j - 1]] = q[j]
      <3>1. j - 1 \in 1 .. Len(q) - 1 /\ j - 1 \in 1 .. Len(q) /\ (j - 1) + 1 = j BY <2>1, <2>3
      <3> QED BY <3>1 DEF Path
    <2> QED BY <2>1, <2>2, <2>3 DEF Path
  <1> DEFINE S == {k \in Nat : k + 1 \in 1 .. Len(p) => \A j \in 1 .. Len(q) : p[k + 1] # q[j]}
  <1>1. 0 \in S
    <2>1. ASSUME 0 + 1 \in 1 .. Len(p), NEW j \in 1 .. Len(q) PROVE p[0 + 1] # q[j]
      <3>1. p[0 + 1] = s BY <1>0, <2>1
      <3>2. CASE j = 1 BY <1>0, <3>1, <3>2
      <3>3. CASE j # 1 BY <1>0, <3>1, <3>3 DEF Alone
      <3> QED BY <3>2, <3>3
    <2> QED BY <2>1
  <1>2. ASSUME NEW k \in Nat, k \in S PROVE k + 1 \in S
    <2>1. ASSUME (k + 1) + 1 \in 1 .. Len(p), NEW j \in 1 .. Len(q) PROVE p[(k + 1) + 1] # q[j]
      <3>1. (k + 1) + 1 # 1 /\ ((k + 1) + 1) - 1 = k + 1 OBVIOUS
      <3>2. k + 1 \in 1 .. Len(p) /\ table[p[k + 1]] = p[(k + 1) + 1] /\ p[k + 1] \in Clusters /\ p[(k + 1) + 1] \in Clusters
        BY <1>0, <2>1, <3>1
      <3>3. CASE j = 1 BY <1>0, <3>2, <3>3 DEF Alone
      <3>4. CASE j # 1
        <4>1. j - 1 \in 1 .. Len(q) /\ table[q[j - 1]] = q[j] /\ q[j - 1] \in Clusters BY <1>0, <3>4
        <4>2. p[k + 1] # q[j - 1] BY <1>2, <3>2, <4>1
        <4> QED BY <3>2, <4>1, <4>2 DEF Linked
      <3> QED BY <3>3, <3>4
    <2> QED BY <2>1
  <1> HIDE DEF S
  <1>3. Nat \subseteq S BY <1>1, <1>2, FatInduct
  <1>4. ASSUME NEW i \in 1 .. Len(p) PROVE \A j \in 1 .. Len(q) : p[i] # q[j]
    <2>1. i - 1 \in Nat /\ (i - 1) + 1 = i OBVIOUS
    <2>2. i - 1 \in S BY <1>3, <2>1
    <2> QED BY <2>1, <2>2 DEF S
  <1> QED BY <1>4

-----------------------------------------------------------------------------
(* What the steps of the calls do to a sane view.                          *)

Unclaimed(v, s) == \A n \in Owners : ~ Claims(v, n, s)
Claimable(v, n, s) == s # 0 => Alone(v.fat, s) /\ \A m \in Owners : Claims(v, m, s) => m = n

LEMMA ClusterNumbers == /\ Clusters \subseteq Nat /\ 0 \notin Clusters /\ 1 \notin Clusters
                 /\ EndOfChain \in Nat /\ EndOfChain # 0 /\ EndOfChain \notin Clusters
                 /\ Clusters \subseteq 0 .. EndOfChain
                 /\ \A c \in Clusters : c # 0 /\ c # 1
  BY FatAssumption DEF Clusters, EndOfChain

LEMMA ClaimedClaimable ==
  ASSUME NEW v, Sane(v), NEW n \in Owners, NEW s \in Starts, s # 0 => Claims(v, n, s)
  PROVE  Claimable(v, n, s)
  BY DEF Sane, Apart, Claimable, Starts

LEMMA FilRuns ==
  ASSUME NEW v, Sane(v), NEW t \in Tasks, NEW f, FileOK(f), Claimable(v, f.name, f.sclust), NEW all
  PROVE  \E w : /\ Runs(<<FilStep(t, f)>>, v, w, all) /\ Sane(w)
                /\ w.fat = v.fat /\ w.dir = v.dir /\ w.fil = [v.fil EXCEPT ![t] = f]
  <1> DEFINE s == FilStep(t, f)
  <1>1. PICK w : w = Exec(v, s) OBVIOUS
  <1>2. s.do = "fil" /\ s.task = t /\ s.file = f BY DEF FilStep
  <1>3. /\ w.fat = v.fat /\ w.dir = v.dir /\ w.fil = [v.fil EXCEPT ![t] = f]
        /\ w = [fat |-> w.fat, dir |-> w.dir, fil |-> w.fil]
    BY <1>1, <1>2 DEF Exec
  <1>4. Shape(w)
    <2>1. DOMAIN v.fil = Tasks /\ \A u \in Tasks : FileOK(v.fil[u]) BY DEF Sane, Shape
    <2>2. DOMAIN w.fil = Tasks /\ \A u \in Tasks : FileOK(w.fil[u]) BY <1>3, <2>1
    <2> QED BY <1>3, <2>2 DEF Sane, Shape
  <1>5. ASSUME NEW n \in Owners, NEW c \in Clusters, Claims(w, n, c)
        PROVE  Claims(v, n, c) \/ (n = f.name /\ c = f.sclust)
    <2>1. DOMAIN v.fil = Tasks BY DEF Sane, Shape
    <2> QED BY <1>3, <1>5, <2>1 DEF Claims
  <1>6. Apart(w)
    <2>1. ASSUME NEW c \in Clusters, NEW n \in Owners, Claims(w, n, c)
          PROVE  Alone(v.fat, c) /\ \A m \in Owners : Claims(v, m, c) => m = n
      BY <1>5, <2>1, ClusterNumbers DEF Sane, Apart, Claimable
    <2>2. ASSUME NEW c \in Clusters, NEW n \in Owners, Claims(w, n, c), NEW m \in Owners, Claims(w, m, c)
          PROVE  m = n
      <3>1. CASE Claims(v, m, c) BY <2>1, <2>2, <3>1
      <3>2. CASE m = f.name /\ c = f.sclust
        <4>1. CASE Claims(v, n, c) BY <2>1, <2>2, <4>1
        <4>2. CASE n = f.name BY <3>2, <4>2
        <4> QED BY <1>5, <2>2, <4>1, <4>2
      <3> QED BY <1>5, <2>2, <3>1, <3>2
    <2> QED BY <1>3, <2>1, <2>2 DEF Apart
  <1>7. Sane(w) BY <1>3, <1>4, <1>6 DEF Sane
  <1>8. Runs(<<s>>, v, w, all) BY <1>1, <1>7, RunsOne
  <1> QED BY <1>3, <1>7, <1>8

LEMMA DirRuns ==
  ASSUME NEW v, Sane(v), NEW n \in Names, NEW e,
         e # None => e.clust \in Starts /\ Claimable(v, n, e.clust), NEW all
  PROVE  \E w : /\ Runs(<<DirStep(n, e)>>, v, w, all) /\ Sane(w)
                /\ w.fat = v.fat /\ w.dir = [v.dir EXCEPT ![n] = e] /\ w.fil = v.fil
  <1> DEFINE s == DirStep(n, e)
  <1>1. PICK w : w = Exec(v, s) OBVIOUS
  <1>2. s.do = "dir" /\ s.name = n /\ s.entry = e BY DEF DirStep
  <1>3. /\ w.fat = v.fat /\ w.dir = [v.dir EXCEPT ![n] = e] /\ w.fil = v.fil
        /\ w = [fat |-> w.fat, dir |-> w.dir, fil |-> w.fil]
    BY <1>1, <1>2 DEF Exec
  <1>d. DOMAIN v.dir = Names BY DEF Sane, Shape
  <1>4. Shape(w)
    <2>1. \A m \in Names : v.dir[m] # None => v.dir[m].clust \in Starts BY DEF Sane, Shape
    <2>2. DOMAIN w.dir = Names /\ \A m \in Names : w.dir[m] # None => w.dir[m].clust \in Starts
      BY <1>3, <1>d, <2>1
    <2> QED BY <1>3, <2>2 DEF Sane, Shape
  <1>5. ASSUME NEW m \in Owners, NEW c \in Clusters, Claims(w, m, c)
        PROVE  Claims(v, m, c) \/ (m = n /\ e # None /\ c = e.clust)
    BY <1>3, <1>5, <1>d DEF Claims
  <1>6. Apart(w)
    <2>0. n \in Owners BY DEF Owners
    <2>1. ASSUME NEW c \in Clusters, NEW m \in Owners, Claims(w, m, c)
          PROVE  Alone(v.fat, c) /\ \A k \in Owners : Claims(v, k, c) => k = m
      BY <1>5, <2>1, ClusterNumbers DEF Sane, Apart, Claimable
    <2>2. ASSUME NEW c \in Clusters, NEW m \in Owners, Claims(w, m, c), NEW k \in Owners, Claims(w, k, c)
          PROVE  k = m
      <3>1. CASE Claims(v, k, c) BY <2>1, <2>2, <3>1
      <3>2. CASE k = n /\ e # None /\ c = e.clust
        <4>1. CASE Claims(v, m, c) BY <2>1, <2>2, <4>1
        <4>2. CASE m = n BY <3>2, <4>2
        <4> QED BY <1>5, <2>2, <4>1, <4>2
      <3> QED BY <1>5, <2>2, <3>1, <3>2
    <2> QED BY <1>3, <2>1, <2>2 DEF Apart
  <1>7. Sane(w) BY <1>3, <1>4, <1>6 DEF Sane
  <1>8. Runs(<<s>>, v, w, all) BY <1>1, <1>7, RunsOne
  <1> QED BY <1>3, <1>7, <1>8

\* The view with another table.
Retabled(v, table) == [fat |-> table, dir |-> v.dir, fil |-> v.fil]

LEMMA RetabledClaims ==
  ASSUME NEW v, NEW table, NEW n, NEW s PROVE Claims(Retabled(v, table), n, s) <=> Claims(v, n, s)
  BY DEF Retabled, Claims

LEMMA RetabledSane ==
  ASSUME NEW v, Sane(v), NEW table \in [Clusters -> 0 .. EndOfChain], Linked(table),
         \A s \in Clusters : Alone(v.fat, s) /\ ~ Unclaimed(v, s) => Alone(table, s)
  PROVE  Sane(Retabled(v, table))
  <1>1. Retabled(v, table).fat = table /\ Retabled(v, table).dir = v.dir /\ Retabled(v, table).fil = v.fil
    BY DEF Retabled
  <1>2. Shape(Retabled(v, table)) BY DEF Retabled, Sane, Shape
  <1>3. Apart(Retabled(v, table))
    <2>1. ASSUME NEW s \in Clusters, NEW n \in Owners, Claims(Retabled(v, table), n, s)
          PROVE  Alone(table, s) /\ \A m \in Owners : Claims(Retabled(v, table), m, s) => m = n
      <3>1. Claims(v, n, s) BY <2>1, RetabledClaims
      <3>2. Alone(v.fat, s) /\ \A m \in Owners : Claims(v, m, s) => m = n BY <3>1 DEF Sane, Apart
      <3>3. Alone(table, s) BY <3>1, <3>2 DEF Unclaimed
      <3> QED BY <3>2, <3>3, RetabledClaims
    <2> QED BY <1>1, <2>1 DEF Apart
  <1> QED BY <1>1, <1>2, <1>3 DEF Sane

LEMMA FatExec ==
  ASSUME NEW v, Shape(v), NEW c, NEW x
  PROVE  Exec(v, FatStep(c, x)) = Retabled(v, [v.fat EXCEPT ![c] = x])
  BY DEF Exec, FatStep, Retabled

\* A free cluster is marked as the end of a chain.
LEMMA AllocRuns ==
  ASSUME NEW v, Sane(v), NEW c \in Clusters, v.fat[c] = 0, NEW all
  PROVE  \E w : /\ Runs(<<FatStep(c, EndOfChain)>>, v, w, all) /\ Sane(w)
                /\ w.fat = [v.fat EXCEPT ![c] = EndOfChain] /\ w.dir = v.dir /\ w.fil = v.fil
                /\ Alone(w.fat, c) /\ Unclaimed(w, c)
  <1>1. PICK table : table = [v.fat EXCEPT ![c] = EndOfChain] OBVIOUS
  <1>2. PICK w : w = Retabled(v, table) OBVIOUS
  <1>3. v.fat \in [Clusters -> 0 .. EndOfChain] /\ Linked(v.fat) BY DEF Sane, Shape
  <1>4. /\ table \in [Clusters -> 0 .. EndOfChain] /\ table[c] = EndOfChain
        /\ \A d \in Clusters \ {c} : table[d] = v.fat[d]
    BY <1>1, <1>3, ClusterNumbers
  <1>5. Linked(table) BY <1>3, <1>4, ClusterNumbers DEF Linked
  <1>6. Alone(table, c) BY <1>3, <1>4, ClusterNumbers DEF Linked, Alone
  <1>7. ASSUME NEW s \in Clusters, Alone(v.fat, s) PROVE Alone(table, s)
    BY <1>4, <1>6, <1>7, ClusterNumbers DEF Alone
  <1>8. Sane(w) BY <1>2, <1>4, <1>5, <1>7, RetabledSane
  <1>9. Unclaimed(v, c) BY DEF Unclaimed, Sane, Apart, Alone
  <1>10. Unclaimed(w, c) BY <1>2, <1>9, RetabledClaims DEF Unclaimed
  <1>11. w = Exec(v, FatStep(c, EndOfChain)) BY <1>1, <1>2, FatExec DEF Sane
  <1>12. Runs(<<FatStep(c, EndOfChain)>>, v, w, all) BY <1>8, <1>11, RunsOne
  <1> QED BY <1>1, <1>2, <1>6, <1>8, <1>10, <1>12 DEF Retabled

\* The end of a chain is linked to a cluster that no chain and no file has.
LEMMA LinkRuns ==
  ASSUME NEW v, Sane(v), NEW c \in Clusters, v.fat[c] \notin Clusters, NEW d \in Clusters,
         Alone(v.fat, d), Unclaimed(v, d), NEW all
  PROVE  \E w : /\ Runs(<<FatStep(c, d)>>, v, w, all) /\ Sane(w)
                /\ w.dir = v.dir /\ w.fil = v.fil
  <1>1. PICK table : table = [v.fat EXCEPT ![c] = d] OBVIOUS
  <1>2. PICK w : w = Retabled(v, table) OBVIOUS
  <1>3. v.fat \in [Clusters -> 0 .. EndOfChain] /\ Linked(v.fat) BY DEF Sane, Shape
  <1>4. /\ table \in [Clusters -> 0 .. EndOfChain] /\ table[c] = d
        /\ \A x \in Clusters \ {c} : table[x] = v.fat[x]
    BY <1>1, <1>3, ClusterNumbers
  <1>5. Linked(table)
    <2>1. ASSUME NEW x \in Clusters, NEW y \in Clusters, table[x] = table[y], table[x] \in Clusters PROVE x = y
      BY <1>3, <1>4, <2>1 DEF Linked, Alone
    <2>2. ASSUME NEW x \in Clusters, NEW y \in Clusters, table[x] = y PROVE table[y] # 0
      BY <1>3, <1>4, <2>2, ClusterNumbers DEF Linked, Alone
    <2> QED BY <2>1, <2>2 DEF Linked
  <1>6. ASSUME NEW s \in Clusters, Alone(v.fat, s), ~ Unclaimed(v, s) PROVE Alone(table, s)
    BY <1>4, <1>6, ClusterNumbers DEF Alone
  <1>7. Sane(w) BY <1>2, <1>4, <1>5, <1>6, RetabledSane
  <1>8. w = Exec(v, FatStep(c, d)) BY <1>1, <1>2, FatExec DEF Sane
  <1>9. Runs(<<FatStep(c, d)>>, v, w, all) BY <1>7, <1>8, RunsOne
  <1> QED BY <1>2, <1>7, <1>9 DEF Retabled

-----------------------------------------------------------------------------
(* The lists of steps that free a chain and that make one longer.          *)

\* The table when the first clusters of a chain are free.
Freed(table, q, i) == [d \in Clusters |-> IF \E j \in 1 .. i : q[j] = d THEN 0 ELSE table[d]]

LEMMA FreedSane ==
  ASSUME NEW v, Sane(v), NEW c, c \in Clusters => Alone(v.fat, c) /\ Unclaimed(v, c),
         NEW q, Path(v.fat, c, q), NEW i \in 0 .. Len(q)
  PROVE  Sane(Retabled(v, Freed(v.fat, q, i)))
  <1>1. PICK table : table = Freed(v.fat, q, i) OBVIOUS
  <1>2. v.fat \in [Clusters -> 0 .. EndOfChain] /\ Linked(v.fat) BY DEF Sane, Shape
  <1>3. /\ \A d \in Clusters : table[d] = 0 \/ table[d] = v.fat[d]
        /\ \A d \in Clusters : (\A j \in 1 .. i : q[j] # d) => table[d] = v.fat[d]
        /\ \A d \in Clusters : (\E j \in 1 .. i : q[j] = d) => table[d] = 0
    BY <1>1 DEF Freed
  <1>4. table \in [Clusters -> 0 .. EndOfChain] BY <1>1, <1>2, ClusterNumbers DEF Freed
  <1>5. Len(q) \in Nat BY DEF Path
  <1>6. ASSUME NEW j \in 1 .. i
        PROVE  /\ q[j] \in Clusters
               /\ j = 1 => q[j] = c
               /\ j # 1 => j - 1 \in 1 .. i /\ q[j - 1] \in Clusters /\ v.fat[q[j - 1]] = q[j]
    <2>1. j \in 1 .. Len(q) /\ Len(q) # 0 BY <1>5
    <2>2. q[j] \in Clusters /\ (j = 1 => q[j] = c) BY <2>1 DEF Path
    <2>3. CASE j # 1
      <3>1. j - 1 \in 1 .. Len(q) - 1 /\ j - 1 \in 1 .. Len(q) /\ (j - 1) + 1 = j /\ j - 1 \in 1 .. i BY <1>5, <2>1, <2>3
      <3> QED BY <2>2, <3>1 DEF Path
    <2> QED BY <2>2, <2>3
  <1>7. Linked(table)
    <2>1. ASSUME NEW x \in Clusters, NEW y \in Clusters, table[x] = table[y], table[x] \in Clusters PROVE x = y
      BY <1>2, <1>3, <2>1, ClusterNumbers DEF Linked
    <2>2. ASSUME NEW x \in Clusters, NEW y \in Clusters, table[x] = y PROVE table[y] # 0
      <3>1. v.fat[x] = y BY <1>3, <2>2, ClusterNumbers
      <3>2. ASSUME NEW j \in 1 .. i, q[j] = y PROVE FALSE
        <4>1. CASE j = 1 BY <1>6, <3>1, <3>2, <4>1 DEF Alone
        <4>2. CASE j # 1
          <5>1. x = q[j - 1] BY <1>2, <1>6, <3>1, <3>2, <4>2 DEF Linked
          <5>2. table[x] = 0 BY <1>3, <1>6, <4>2, <5>1
          <5> QED BY <2>2, <5>2, ClusterNumbers
        <4> QED BY <4>1, <4>2
      <3> QED BY <1>2, <1>3, <3>1, <3>2 DEF Linked
    <2> QED BY <2>1, <2>2 DEF Linked
  <1>8. ASSUME NEW s \in Clusters, Alone(v.fat, s), ~ Unclaimed(v, s) PROVE Alone(table, s)
    <2>1. ASSUME NEW j \in 1 .. i, q[j] = s PROVE FALSE
      <3>1. CASE j = 1 BY <1>6, <1>8, <2>1, <3>1
      <3>2. CASE j # 1 BY <1>6, <1>8, <2>1, <3>2 DEF Alone
      <3> QED BY <3>1, <3>2
    <2> QED BY <1>3, <1>8, <2>1, ClusterNumbers DEF Alone
  <1> QED BY <1>1, <1>4, <1>7, <1>8, RetabledSane

LEMMA RemoveRuns ==
  ASSUME NEW v, Sane(v), v.fat = fat, NEW c, c \in Clusters => Alone(v.fat, c) /\ Unclaimed(v, c), NEW all
  PROVE  \E w : /\ Runs(RemoveChain(c), v, w, all) /\ Sane(w)
                /\ w.dir = v.dir /\ w.fil = v.fil
  <1>1. PICK q : q = Chain(fat, c) OBVIOUS
  <1>2. Path(v.fat, c, q) BY <1>1, ChainPath
  <1>3. PICK n : n = Len(q) OBVIOUS
  <1>4. n \in Nat /\ DOMAIN q = 1 .. n /\ \A i \in 1 .. n : q[i] \in Clusters BY <1>2, <1>3 DEF Path
  <1>5. PICK list : list = RemoveChain(c) OBVIOUS
  <1>6. list = [i \in 1 .. n |-> FatStep(q[i], 0)] BY <1>1, <1>4, <1>5 DEF RemoveChain
  <1>7. list = [i \in 1 .. n |-> list[i]] /\ \A i \in 1 .. n : list[i] = FatStep(q[i], 0) BY <1>6
  <1>8. IsList(list) /\ Len(list) = n BY <1>4, <1>7, FunctionList
  <1> DEFINE tr == [i \in 0 .. n |-> Retabled(v, Freed(v.fat, q, i))]
  <1>9. \A i \in 0 .. n : tr[i] = Retabled(v, Freed(v.fat, q, i)) OBVIOUS
  <1> HIDE DEF tr
  <1>10. Shape(v) /\ v.fat \in [Clusters -> 0 .. EndOfChain] BY DEF Sane, Shape
  <1>11. tr[0] = v
    <2>1. Freed(v.fat, q, 0) = v.fat
      <3>1. \A j \in 1 .. 0 : FALSE OBVIOUS
      <3> QED BY <1>10, <3>1 DEF Freed
    <2>2. Retabled(v, v.fat) = v BY <1>10 DEF Retabled, Shape
    <2>3. 0 \in 0 .. n BY <1>4
    <2> QED BY <1>9, <2>1, <2>2, <2>3
  <1>12. ASSUME NEW i \in 1 .. n PROVE tr[i] = Exec(tr[i - 1], list[i])
    <2>0. i - 1 \in 0 .. n /\ i \in 0 .. n /\ i \in Nat /\ i - 1 \in Nat BY <1>4
    <2>1. PICK a : a = Freed(v.fat, q, i - 1) OBVIOUS
    <2>2. PICK b : b = Freed(v.fat, q, i) OBVIOUS
    <2>3. b = [a EXCEPT ![q[i]] = 0]
      <3>1. a = [d \in Clusters |-> IF \E j \in 1 .. i - 1 : q[j] = d THEN 0 ELSE v.fat[d]] BY <2>1 DEF Freed
      <3>2. b = [d \in Clusters |-> IF \E j \in 1 .. i : q[j] = d THEN 0 ELSE v.fat[d]] BY <2>2 DEF Freed
      <3>3. ASSUME NEW d \in Clusters PROVE b[d] = IF d = q[i] THEN 0 ELSE a[d]
        <4>1. \A j \in 1 .. i : j = i \/ j \in 1 .. i - 1 BY <2>0
        <4>2. \A j \in 1 .. i - 1 : j \in 1 .. i BY <2>0
        <4>3. i \in 1 .. i BY <2>0
        <4>4. CASE d = q[i] BY <3>2, <4>3, <4>4
        <4>5. CASE d # q[i]
          <5>1. (\E j \in 1 .. i : q[j] = d) <=> (\E j \in 1 .. i - 1 : q[j] = d) BY <4>1, <4>2, <4>5
          <5> QED BY <3>1, <3>2, <4>5, <5>1
        <4> QED BY <4>4, <4>5
      <3>4. DOMAIN a = Clusters /\ DOMAIN b = Clusters /\ b = [d \in Clusters |-> b[d]] BY <3>1, <3>2
      <3> QED BY <3>3, <3>4
    <2>4. PICK u : u = Retabled(v, a) OBVIOUS
    <2>5. u.fat = a /\ Retabled(u, b) = Retabled(v, b) BY <2>4 DEF Retabled
    <2>6. tr[i - 1] = u /\ tr[i] = Retabled(v, b) BY <1>9, <2>0, <2>1, <2>2, <2>4
    <2>7. i - 1 \in 0 .. Len(q) BY <1>3, <2>0
    <2>8. Sane(u) BY <1>2, <2>1, <2>4, <2>7, FreedSane
    <2>9. Exec(u, FatStep(q[i], 0)) = Retabled(u, [u.fat EXCEPT ![q[i]] = 0]) BY <2>8, FatExec DEF Sane
    <2> QED BY <1>7, <2>3, <2>5, <2>6, <2>9
  <1>13. ASSUME NEW i \in 0 .. n PROVE Sane(tr[i])
    <2>1. i \in 0 .. Len(q) BY <1>3
    <2> QED BY <1>2, <1>9, <2>1, FreedSane
  <1>14. PICK w : w = tr[n] OBVIOUS
  <1>15. Traces(tr, list, v, w, all) BY <1>8, <1>11, <1>12, <1>13, <1>14 DEF Traces
  <1>16. n \in 0 .. n BY <1>4
  <1>17. w.dir = v.dir /\ w.fil = v.fil
    <2>1. PICK table : table = Freed(v.fat, q, n) OBVIOUS
    <2>2. w = Retabled(v, table) BY <1>9, <1>14, <1>16, <2>1
    <2> QED BY <2>2 DEF Retabled
  <1>18. Runs(RemoveChain(c), v, w, all) BY <1>5, <1>8, <1>15 DEF Runs
  <1> QED BY <1>13, <1>14, <1>16, <1>17, <1>18

LEMMA Remainder == ASSUME NEW m \in Nat, NEW n \in Nat \ {0} PROVE (m % n) \in 0 .. n - 1
  BY SMTT(30)

\* Steps that change neither a view nor the data.
Still(s) == s.do \notin {"fat", "dir", "fil", "data", "saved"}
StillList(q) == IsList(q) /\ \A i \in 1 .. Len(q) : Still(q[i])

LEMMA StillQuiet == ASSUME NEW s, Still(s) PROVE Quiet(s)
  BY DEF Still, Quiet

LEMMA StillJoin == ASSUME NEW q, NEW r, StillList(q), StillList(r) PROVE StillList(q \o r)
  <1>1. /\ IsList(q \o r) /\ Len(q) \in Nat /\ Len(r) \in Nat /\ Len(q \o r) = Len(q) + Len(r)
        /\ \A i \in 1 .. Len(q) : (q \o r)[i] = q[i]
        /\ \A i \in 1 .. Len(q) + Len(r) : i > Len(q) => (q \o r)[i] = r[i - Len(q)]
    BY JoinList DEF StillList
  <1>2. ASSUME NEW i \in 1 .. Len(q) + Len(r) PROVE Still((q \o r)[i])
    <2>1. CASE i <= Len(q)
      <3>1. i \in 1 .. Len(q) BY <1>1, <2>1
      <3> QED BY <1>1, <3>1 DEF StillList
    <2>2. CASE i > Len(q)
      <3>1. i - Len(q) \in 1 .. Len(r) BY <1>1, <2>2
      <3> QED BY <1>1, <2>2, <3>1 DEF StillList
    <2> QED BY <1>1, <2>1, <2>2
  <1> QED BY <1>1, <1>2 DEF StillList

LEMMA StillNone == StillList(<< >>)
  <1>1. \A i \in 1 .. Len(<< >>) : FALSE BY NoList
  <1> QED BY <1>1, NoList DEF StillList

LEMMA StillOne == ASSUME NEW s, Still(s) PROVE StillList(<<s>>)
  <1>1. \A i \in 1 .. 1 : i = 1 OBVIOUS
  <1> QED BY <1>1, OneList DEF StillList

LEMMA RunsStill ==
  ASSUME NEW v, Sane(v), NEW q, StillList(q), NEW all PROVE Runs(q, v, v, all)
  BY StillQuiet, RunsQuiet DEF StillList

LEMMA StillLooks ==
  ASSUME NEW f, NEW n \in Nat, f = [i \in 1 .. n |-> f[i]], \A i \in 1 .. n : \E x : f[i] = LookStep(x)
  PROVE  StillList(f)
  <1>1. IsList(f) /\ Len(f) = n BY FunctionList
  <1>2. ASSUME NEW i \in 1 .. n PROVE Still(f[i])
    <2>1. PICK x : f[i] = LookStep(x) OBVIOUS
    <2> QED BY <2>1 DEF LookStep, Still
  <1> QED BY <1>1, <1>2 DEF StillList

LEMMA StillSteps == /\ \A x : Still(LookStep(x))
                    /\ Still(FlushStep)
                    /\ \A x : Still(LastStep(x))
  BY DEF Still, LookStep, FlushStep, LastStep

LEMMA QuietSteps == /\ \A x : Quiet(LookStep(x))
                    /\ \A x, y : Quiet(DataStep(x, y))
                    /\ Quiet(FlushStep)
                    /\ \A x : Quiet(LastStep(x))
                    /\ \A x, y : Quiet(SavedStep(x, y))
  BY DEF Quiet, LookStep, DataStep, FlushStep, LastStep, SavedStep

\* create_chain() returns no cluster, the next of the chain, or a free cluster; only
\* then does it change the table.
Grown(c, clst, steps) ==
    \E looks : /\ StillList(looks)
              /\ steps = looks \o <<FatStep(clst, EndOfChain)>>
                          \o (IF c = 0 THEN << >> ELSE <<FatStep(c, clst)>>) \o <<LastStep(clst)>>

LEMMA CreateCases ==
  ASSUME fat \in [Clusters -> 0 .. EndOfChain], NEW c \in Starts
  PROVE  LET r == CreateChain(c)
         IN  \/ /\ StillList(r.steps) /\ r.clst \in {0, 1} \cup Clusters
                /\ c = 0 => r.clst = 0
                /\ r.clst \in Clusters => fat[c] = r.clst
             \/ /\ r.clst \in Clusters /\ fat[r.clst] = 0 /\ Grown(c, r.clst, r.steps)
                /\ c # 0 => c \in Clusters /\ fat[c] \notin Clusters /\ c # r.clst
  <1> DEFINE scl == IF c # 0 THEN c ELSE IF last_clust \in Clusters THEN last_clust ELSE 1
             order == [i \in 1 .. Size |-> ((scl + i - 2) % Size) + 2]
             free == {i \in 1 .. Size : fat[order[i]] = 0}
             first == CHOOSE i \in free : \A j \in free : i <= j
             look == IF c = 0 THEN << >> ELSE <<LookStep(FatSector(c))>>
             all == [i \in 1 .. Size |-> LookStep(FatSector(order[i]))]
             some == [i \in 1 .. first |-> LookStep(FatSector(order[i]))]
  <1>1. PICK r : r = CreateChain(c) OBVIOUS
  <1>2. StillList(look)
    <2>1. CASE c = 0 BY <2>1, StillNone
    <2>2. CASE c # 0 BY <2>2, StillOne, StillSteps
    <2> QED BY <2>1, <2>2
  <1>3. c # 0 => c \in Clusters BY DEF Starts
  <1>4. CASE c # 0 /\ fat[c] < 2
    <2>1. r = [clst |-> 1, steps |-> look] BY <1>1, <1>4 DEF CreateChain
    <2>2. r.clst = 1 /\ r.steps = look BY <2>1
    <2> HIDE DEF look
    <2> QED BY <1>1, <1>2, <1>4, <2>2, ClusterNumbers
  <1>5. CASE c # 0 /\ ~ (fat[c] < 2) /\ fat[c] \in Clusters
    <2>1. r = [clst |-> fat[c], steps |-> look] BY <1>1, <1>5 DEF CreateChain
    <2>2. r.clst = fat[c] /\ r.steps = look BY <2>1
    <2> HIDE DEF look
    <2> QED BY <1>1, <1>2, <1>5, <2>2
  <1>6. CASE ~ (c # 0 /\ fat[c] < 2) /\ ~ (c # 0 /\ fat[c] \in Clusters) /\ free = {}
    <2>1. r = [clst |-> 0, steps |-> look \o all] BY <1>1, <1>6 DEF CreateChain
    <2>2. r.clst = 0 /\ r.steps = look \o all BY <2>1
    <2>3. StillList(all)
      <3>1. Size \in Nat BY FatAssumption
      <3>2. \A i \in 1 .. Size : \E x : all[i] = LookStep(x) OBVIOUS
      <3>3. all = [i \in 1 .. Size |-> all[i]] OBVIOUS
      <3> HIDE DEF all
      <3> QED BY <3>1, <3>2, <3>3, StillLooks
    <2> HIDE DEF look, all
    <2>4. StillList(look \o all) BY <1>2, <2>3, StillJoin
    <2> QED BY <1>1, <2>2, <2>4, ClusterNumbers
  <1>7. CASE ~ (c # 0 /\ fat[c] < 2) /\ ~ (c # 0 /\ fat[c] \in Clusters) /\ free # {}
    <2>1. r = [clst |-> order[first],
               steps |-> look \o some \o <<FatStep(order[first], EndOfChain)>>
                         \o (IF c = 0 THEN << >> ELSE <<FatStep(c, order[first])>>)
                         \o <<LastStep(order[first])>>]
      BY <1>1, <1>7 DEF CreateChain
    <2>2. first \in free
      <3>1. free \subseteq Nat OBVIOUS
      <3> HIDE DEF free
      <3>2. \E i \in free : \A j \in free : i <= j BY <1>7, <3>1, LeastNumber
      <3> QED BY <3>2
    <2>3. first \in 1 .. Size /\ fat[order[first]] = 0 BY <2>2
    <2>4. scl \in Nat /\ scl >= 1 BY <1>3, ClusterNumbers DEF Clusters
    <2>5. order[first] \in Clusters
      <3> HIDE DEF scl, first
      <3>1. scl + first - 2 \in Nat BY <2>3, <2>4
      <3>2. Size \in Nat \ {0} BY FatAssumption
      <3>3. ((scl + first - 2) % Size) \in 0 .. Size - 1 BY <3>1, <3>2, Remainder
      <3>4. ((scl + first - 2) % Size) + 2 \in 2 .. Size + 1 BY <3>2, <3>3
      <3> QED BY <2>3, <3>4 DEF Clusters
    <2>6. StillList(some)
      <3>1. first \in Nat BY <2>3
      <3>2. \A i \in 1 .. first : \E x : some[i] = LookStep(x) OBVIOUS
      <3>3. some = [i \in 1 .. first |-> some[i]] OBVIOUS
      <3> HIDE DEF some, first
      <3> QED BY <3>1, <3>2, <3>3, StillLooks
    <2> HIDE DEF scl, order, free, first, look, some
    <2>7. PICK new : new = order[first] OBVIOUS
    <2>8. /\ r.clst = new
          /\ r.steps = look \o some \o <<FatStep(new, EndOfChain)>>
                       \o (IF c = 0 THEN << >> ELSE <<FatStep(c, new)>>) \o <<LastStep(new)>>
          /\ new \in Clusters /\ fat[new] = 0
      BY <2>1, <2>3, <2>5, <2>7
    <2>9. StillList(look \o some) BY <1>2, <2>6, StillJoin
    <2>10. Grown(c, new, r.steps) BY <2>8, <2>9 DEF Grown
    <2>11. c # 0 => c # new
      BY <1>7, <2>8
    <2> QED BY <1>1, <1>3, <1>7, <2>8, <2>10, <2>11
  <1> QED BY <1>4, <1>5, <1>6, <1>7

LEMMA CreateRuns ==
  ASSUME Sane(view), NEW c \in Starts, NEW all
  PROVE  LET r == CreateChain(c)
         IN  /\ r.clst \in {0, 1} \cup Clusters
             /\ \E w : /\ Runs(r.steps, view, w, all) /\ Sane(w)
                       /\ w.dir = dir /\ w.fil = fil
                       /\ c = 0 /\ r.clst # 0 =>
                             r.clst \in Clusters /\ Alone(w.fat, r.clst) /\ Unclaimed(w, r.clst)
  <1>1. PICK r : r = CreateChain(c) OBVIOUS
  <1>2. view.fat = fat /\ view.dir = dir /\ view.fil = fil BY DEF view
  <1>3. fat \in [Clusters -> 0 .. EndOfChain] BY <1>2 DEF Sane, Shape
  <1>4. CASE StillList(r.steps) /\ r.clst \in {0, 1} \cup Clusters /\ (c = 0 => r.clst = 0)
    <2>1. Runs(r.steps, view, view, all) BY <1>4, RunsStill
    <2> QED BY <1>1, <1>2, <1>4, <2>1
  <1>5. CASE /\ r.clst \in Clusters /\ fat[r.clst] = 0 /\ Grown(c, r.clst, r.steps)
             /\ c # 0 => c \in Clusters /\ fat[c] \notin Clusters /\ c # r.clst
    <2>1. PICK new : new = r.clst OBVIOUS
    <2>2. PICK looks : /\ StillList(looks)
                       /\ r.steps = looks \o <<FatStep(new, EndOfChain)>>
                                    \o (IF c = 0 THEN << >> ELSE <<FatStep(c, new)>>) \o <<LastStep(new)>>
      BY <1>5, <2>1 DEF Grown
    <2>3. Runs(looks, view, view, all) BY <2>2, RunsStill
    <2>4. PICK u : /\ Runs(<<FatStep(new, EndOfChain)>>, view, u, all) /\ Sane(u)
                   /\ u.fat = [fat EXCEPT ![new] = EndOfChain] /\ u.dir = dir /\ u.fil = fil
                   /\ Alone(u.fat, new) /\ Unclaimed(u, new)
      BY <1>2, <1>5, <2>1, AllocRuns
    <2>5. PICK q : q = looks \o <<FatStep(new, EndOfChain)>> OBVIOUS
    <2>6. Runs(q, view, u, all) BY <2>3, <2>4, <2>5, RunsJoin
    <2>7. PICK link : link = IF c = 0 THEN << >> ELSE <<FatStep(c, new)>> OBVIOUS
    <2>8. PICK w : /\ Runs(link, u, w, all) /\ Sane(w)
                   /\ w.dir = dir /\ w.fil = fil
                   /\ c = 0 => w = u
      <3>1. CASE c = 0 BY <2>4, <2>7, <3>1, RunsNone
      <3>2. CASE c # 0
        <4>1. c \in Clusters /\ u.fat[c] \notin Clusters BY <1>3, <1>5, <2>1, <2>4, <3>2
        <4>2. new \in Clusters BY <1>5, <2>1
        <4>3. link = <<FatStep(c, new)>> BY <2>7, <3>2
        <4> QED BY <2>4, <3>2, <4>1, <4>2, <4>3, LinkRuns
      <3> QED BY <3>1, <3>2
    <2>9. Runs(q \o link, view, w, all) BY <2>6, <2>8, RunsJoin
    <2>10. StillList(<<LastStep(new)>>) BY StillOne, StillSteps
    <2>11. Runs(<<LastStep(new)>>, w, w, all) BY <2>8, <2>10, RunsStill
    <2>12. Runs((q \o link) \o <<LastStep(new)>>, view, w, all) BY <2>9, <2>11, RunsJoin
    <2>13. r.steps = (q \o link) \o <<LastStep(new)>> BY <2>2, <2>5, <2>7
    <2> QED BY <1>1, <1>5, <2>1, <2>4, <2>8, <2>12, <2>13
  <1> QED BY <1>1, <1>3, <1>4, <1>5, CreateCases

-----------------------------------------------------------------------------
(* The inductive invariant.                                                *)

\* The volume as the next mount would find it.
onDisk == [fat |-> disk.fat, dir |-> disk.dir, fil |-> [t \in Tasks |-> Closed]]

\* A seek that still has clusters to go through has its first one.
SeekStarted(o, w) == o.kind = "seek" /\ o.left # 0 => w.fil[o.task].sclust # 0

\* The call that has the lock leads to a sane view, a rename by views that are not.
Pending == \E w : Runs(todo, view, w, op.kind # "rename") /\ Sane(w) /\ SeekStarted(op, w)

\* A rename ends with what it changed on the disk.
FlushLast(q, flag) ==
    \E i \in 0 .. Len(q) :
        /\ i = 0 => ~ flag
        /\ i # 0 => q[i].do = "flush"
        /\ \A j \in i + 1 .. Len(q) : q[j].do \notin {"fat", "dir"}

FatIInv ==
    /\ DOMAIN disk = {"fat", "dir", "data"} /\ DOMAIN op = {"task", "kind", "left"}
    /\ ~ renameCut =>
        /\ Pending
        /\ ~ wflag => disk.fat = fat /\ disk.dir = dir
        /\ op.kind # "rename" => Sane(onDisk)
        /\ op.kind = "rename" => FlushLast(todo, wflag)

LEMMA RunsAny ==
  ASSUME NEW q, NEW v, NEW w, Runs(q, v, w, TRUE), NEW all PROVE Runs(q, v, w, all)
  BY DEF Runs, Traces

LEMMA ViewSane == ASSUME FatIInv, ~ renameCut, op.kind # "rename" PROVE Sane(view)
  BY RunsStart DEF FatIInv, Pending

LEMMA ClosedFile == FileOK(Closed) /\ Closed.sclust = 0 /\ Closed.name = None
  BY DEF FileOK, Closed, Owners, Starts

\* A mount forgets the open files.
Mounted(v) == [fat |-> v.fat, dir |-> v.dir, fil |-> [t \in Tasks |-> Closed]]

LEMMA MountedSane == ASSUME NEW v, Sane(v) PROVE Sane(Mounted(v))
  <1>1. PICK w : w = Mounted(v) OBVIOUS
  <1>2. /\ w.fat = v.fat /\ w.dir = v.dir /\ w = [fat |-> w.fat, dir |-> w.dir, fil |-> w.fil]
        /\ DOMAIN w.fil = Tasks /\ \A t \in Tasks : w.fil[t] = Closed
    BY <1>1 DEF Mounted
  <1>3. Shape(w) BY <1>2, ClosedFile DEF Sane, Shape
  <1>4. ASSUME NEW n \in Owners, NEW s \in Clusters, Claims(w, n, s) PROVE Claims(v, n, s)
    BY <1>2, <1>4, ClosedFile, ClusterNumbers DEF Claims
  <1>5. Apart(w) BY <1>2, <1>4 DEF Sane, Apart
  <1> QED BY <1>1, <1>2, <1>3, <1>5 DEF Sane

\* An error marks a file.
Marked(v, t) == [fat |-> v.fat, dir |-> v.dir, fil |-> [v.fil EXCEPT ![t].err = TRUE]]

LEMMA MarkedSane == ASSUME NEW v, Sane(v), NEW t PROVE Sane(Marked(v, t))
  <1>1. PICK w : w = Marked(v, t) OBVIOUS
  <1>2. PICK f : f = [v.fil[t] EXCEPT !.err = TRUE] OBVIOUS
  <1>3. /\ w.fat = v.fat /\ w.dir = v.dir /\ w = [fat |-> w.fat, dir |-> w.dir, fil |-> w.fil]
        /\ w.fil = [v.fil EXCEPT ![t] = f]
    BY <1>1, <1>2 DEF Marked
  <1>4. DOMAIN v.fil = Tasks /\ \A u \in Tasks : FileOK(v.fil[u]) BY DEF Sane, Shape
  <1>5. ASSUME t \in Tasks PROVE FileOK(f) /\ f.name = v.fil[t].name /\ f.sclust = v.fil[t].sclust
    BY <1>2, <1>4, <1>5 DEF FileOK, Closed
  <1>6. DOMAIN w.fil = Tasks /\ \A u \in Tasks : w.fil[u] = IF u = t THEN f ELSE v.fil[u]
    BY <1>3, <1>4
  <1>7. \A u \in Tasks : FileOK(w.fil[u]) /\ w.fil[u].name = v.fil[u].name /\ w.fil[u].sclust = v.fil[u].sclust
    BY <1>4, <1>5, <1>6
  <1>8. Shape(w) BY <1>3, <1>6, <1>7 DEF Sane, Shape
  <1>9. ASSUME NEW n, NEW s PROVE Claims(w, n, s) <=> Claims(v, n, s)
    BY <1>3, <1>7 DEF Claims
  <1>10. Apart(w) BY <1>3, <1>9 DEF Sane, Apart
  <1> QED BY <1>1, <1>3, <1>8, <1>10 DEF Sane

LEMMA WriteBackInv == ASSUME FatIInv, WriteBack PROVE FatIInv'
  <1>1. disk' = [disk EXCEPT !.fat = fat, !.dir = dir] /\ wflag' = FALSE
    BY DEF WriteBack
  <1>2. view' = view /\ todo' = todo /\ op' = op /\ renameCut' = renameCut /\ fat' = fat /\ dir' = dir
    BY DEF WriteBack, view
  <1>3. DOMAIN disk = {"fat", "dir", "data"} BY DEF FatIInv
  <1>4. DOMAIN disk' = {"fat", "dir", "data"} /\ disk'.fat = fat /\ disk'.dir = dir
    BY <1>1, <1>3
  <1>5. ASSUME ~ renameCut, op.kind # "rename" PROVE Sane(onDisk')
    <2>1. Sane(view) BY <1>5, ViewSane
    <2>2. onDisk' = Mounted(view) BY <1>4 DEF onDisk, Mounted, view
    <2> QED BY <2>1, <2>2, MountedSane
  <1>6. ASSUME FlushLast(todo, wflag) PROVE FlushLast(todo, FALSE) BY <1>6 DEF FlushLast
  <1> QED BY <1>1, <1>2, <1>4, <1>5, <1>6 DEF FatIInv, Pending

LEMMA TakeStepInv == ASSUME FatIInv, TakeStep PROVE FatIInv'
  <1>1. PICK s : s = Head(todo) OBVIOUS
  <1>2. /\ todo # << >> /\ todo' = Tail(todo) /\ op' = op /\ renameCut' = renameCut
        /\ s.do = "flush" => ~ wflag
        /\ wflag' = (wflag \/ s.do \in {"fat", "dir"})
    BY <1>1 DEF TakeStep, Step
  <1>3. view' = Exec(view, s)
    BY <1>1 DEF TakeStep, Step, view, Exec
  <1>4. DOMAIN disk' = {"fat", "dir", "data"} /\ disk'.fat = disk.fat /\ disk'.dir = disk.dir
    BY <1>1 DEF TakeStep, Step, FatIInv
  <1>5. s.do \notin {"fat", "dir"} => fat' = fat /\ dir' = dir
    BY <1>1 DEF TakeStep, Step
  <1>6. onDisk' = onDisk BY <1>4 DEF onDisk
  <1>7. ASSUME ~ renameCut PROVE Pending'
    <2>1. PICK w : Runs(todo, view, w, op.kind # "rename") /\ Sane(w) /\ SeekStarted(op, w)
      BY <1>7 DEF FatIInv, Pending
    <2>2. Runs(Tail(todo), Exec(view, s), w, op.kind # "rename") BY <1>1, <1>2, <2>1, RunsTail
    <2>3. Runs(todo', view', w, op'.kind # "rename") BY <1>2, <1>3, <2>2
    <2>4. SeekStarted(op', w) BY <1>2, <2>1
    <2> QED BY <2>1, <2>3, <2>4 DEF Pending
  <1>8. ASSUME ~ renameCut, op.kind = "rename" PROVE FlushLast(todo', wflag')
    <2>1. IsList(todo) BY <1>8 DEF FatIInv, Pending, Runs
    <2>2. /\ Len(todo) \in Nat \ {0} /\ Len(todo') = Len(todo) - 1 /\ s = todo[1]
          /\ \A i \in 1 .. Len(todo) - 1 : todo'[i] = todo[i + 1]
      BY <1>1, <1>2, <2>1, TailList
    <2>3. PICK i \in 0 .. Len(todo) :
             /\ i = 0 => ~ wflag
             /\ i # 0 => todo[i].do = "flush"
             /\ \A j \in i + 1 .. Len(todo) : todo[j].do \notin {"fat", "dir"}
      BY <1>8 DEF FatIInv, FlushLast
    <2>4. CASE i = 0
      <3>1. 1 \in i + 1 .. Len(todo) BY <2>2, <2>4
      <3>2. ~ wflag' BY <1>2, <2>2, <2>3, <2>4, <3>1
      <3>3. 0 \in 0 .. Len(todo') BY <2>2
      <3>4. ASSUME NEW j \in 0 + 1 .. Len(todo') PROVE todo'[j].do \notin {"fat", "dir"}
        <4>1. j \in 1 .. Len(todo) - 1 /\ j + 1 \in i + 1 .. Len(todo) BY <2>2, <2>4
        <4> QED BY <2>2, <2>3, <4>1
      <3> QED BY <3>2, <3>3, <3>4 DEF FlushLast
    <2>5. CASE i = 1
      <3>0. s.do = "flush" /\ s.do \notin {"fat", "dir"} BY <2>2, <2>3, <2>5
      <3>1. ~ wflag' BY <1>2, <3>0
      <3>2. 0 \in 0 .. Len(todo') BY <2>2
      <3>3. ASSUME NEW j \in 0 + 1 .. Len(todo') PROVE todo'[j].do \notin {"fat", "dir"}
        <4>1. j \in 1 .. Len(todo) - 1 /\ j + 1 \in i + 1 .. Len(todo) BY <2>2, <2>5
        <4> QED BY <2>2, <2>3, <4>1
      <3> QED BY <3>1, <3>2, <3>3 DEF FlushLast
    <2>6. CASE i > 1
      <3>1. i - 1 \in 0 .. Len(todo') /\ i - 1 # 0 /\ i - 1 \in 1 .. Len(todo) - 1 /\ (i - 1) + 1 = i
        BY <2>2, <2>6
      <3>2. todo'[i - 1].do = "flush" BY <2>2, <2>3, <2>6, <3>1
      <3>3. ASSUME NEW j \in (i - 1) + 1 .. Len(todo') PROVE todo'[j].do \notin {"fat", "dir"}
        <4>1. j \in 1 .. Len(todo) - 1 /\ j + 1 \in i + 1 .. Len(todo) BY <2>2, <2>6
        <4> QED BY <2>2, <2>3, <4>1
      <3> QED BY <3>1, <3>2, <3>3 DEF FlushLast
    <2> QED BY <2>4, <2>5, <2>6
  <1>9. ~ renameCut /\ ~ wflag' => disk'.fat = fat' /\ disk'.dir = dir'
    BY <1>2, <1>4, <1>5 DEF FatIInv
  <1> QED BY <1>2, <1>4, <1>6, <1>7, <1>8, <1>9 DEF FatIInv

LEMMA LeaveInv == ASSUME FatIInv, Leave PROVE FatIInv'
  <1>1. /\ todo = << >> /\ todo' = todo /\ op' = NoOp /\ view' = view /\ onDisk' = onDisk
        /\ UNCHANGED <<disk, fat, dir, wflag, renameCut>>
    BY DEF Leave, window, view, onDisk
  <1>2. DOMAIN NoOp = {"task", "kind", "left"} /\ NoOp.kind = "none" BY DEF NoOp
  <1>3. ASSUME ~ renameCut PROVE Sane(view)
    BY <1>1, <1>3, RunsStart DEF FatIInv, Pending
  <1>4. ASSUME ~ renameCut PROVE Pending'
    <2>1. Runs(todo', view', view, op'.kind # "rename") BY <1>1, <1>3, <1>4, RunsNone
    <2>2. SeekStarted(op', view) BY <1>1, <1>2 DEF SeekStarted
    <2> QED BY <1>3, <1>4, <2>1, <2>2 DEF Pending
  <1>5. ASSUME ~ renameCut PROVE Sane(onDisk')
    <2>1. CASE op.kind # "rename" BY <1>1, <1>5, <2>1 DEF FatIInv
    <2>2. CASE op.kind = "rename"
      <3>1. \A i \in 0 .. Len(todo) : i = 0 BY <1>1, NoList
      <3>2. ~ wflag BY <1>5, <2>2, <3>1 DEF FatIInv, FlushLast
      <3>3. onDisk' = Mounted(view) BY <1>1, <1>5, <3>2 DEF FatIInv, onDisk, Mounted, view
      <3> QED BY <1>3, <1>5, <3>3, MountedSane
    <2> QED BY <2>1, <2>2
  <1> QED BY <1>1, <1>2, <1>4, <1>5 DEF FatIInv

LEMMA DiskErrorInv == ASSUME FatIInv, DiskError PROVE FatIInv'
  <1>1. /\ todo' = << >> /\ op' = [op EXCEPT !.kind = "end"] /\ onDisk' = onDisk
        /\ UNCHANGED <<disk, fat, dir>> /\ (wflag => wflag')
        /\ ~ renameCut' => ~ renameCut /\ op.kind # "rename"
    BY DEF DiskError, onDisk
  <1>2. DOMAIN op' = {"task", "kind", "left"} /\ op'.kind = "end" BY <1>1 DEF FatIInv
  <1>3. view' = view \/ view' = Marked(view, op.task)
    BY DEF DiskError, view, Marked
  <1>4. ASSUME ~ renameCut' PROVE Pending'
    <2>1. Sane(view') BY <1>1, <1>3, <1>4, ViewSane, MarkedSane
    <2>2. Runs(todo', view', view', op'.kind # "rename") BY <1>1, <2>1, RunsNone
    <2>3. SeekStarted(op', view') BY <1>2 DEF SeekStarted
    <2> QED BY <2>1, <2>2, <2>3 DEF Pending
  <1> QED BY <1>1, <1>2, <1>4 DEF FatIInv

LEMMA PowerLossInv == ASSUME FatIInv, PowerLoss PROVE FatIInv'
  <1>1. /\ todo' = << >> /\ op' = NoOp /\ view' = onDisk /\ onDisk' = onDisk
        /\ UNCHANGED disk /\ fat' = disk.fat /\ dir' = disk.dir
        /\ ~ renameCut' => ~ renameCut /\ op.kind # "rename"
    BY DEF PowerLoss, onDisk, view
  <1>2. DOMAIN NoOp = {"task", "kind", "left"} /\ NoOp.kind = "none" BY DEF NoOp
  <1>3. ASSUME ~ renameCut' PROVE Pending'
    <2>1. Sane(onDisk) BY <1>1, <1>3 DEF FatIInv
    <2>2. Runs(todo', view', onDisk, op'.kind # "rename") BY <1>1, <2>1, RunsNone
    <2>3. SeekStarted(op', onDisk) BY <1>1, <1>2 DEF SeekStarted
    <2> QED BY <2>1, <2>2, <2>3 DEF Pending
  <1> QED BY <1>1, <1>2, <1>3 DEF FatIInv

-----------------------------------------------------------------------------
(* The calls.                                                              *)

\* A call that only decides on its steps keeps the invariant when they lead to a sane view.
LEMMA CallInv ==
  ASSUME FatIInv, op.kind # "rename", UNCHANGED <<disk, fat, dir, fil, wflag, renameCut>>,
         DOMAIN op' = DOMAIN op, op'.kind # "rename",
         ~ renameCut => \E w : Runs(todo', view, w, TRUE) /\ Sane(w) /\ SeekStarted(op', w)
  PROVE  FatIInv'
  <1>1. view' = view /\ onDisk' = onDisk BY DEF view, onDisk
  <1>2. ASSUME ~ renameCut PROVE Pending'
    <2>1. PICK w : Runs(todo', view, w, TRUE) /\ Sane(w) /\ SeekStarted(op', w) BY <1>2
    <2>2. Runs(todo', view', w, op'.kind # "rename") BY <1>1, <2>1, RunsAny
    <2> QED BY <2>1, <2>2 DEF Pending
  <1> QED BY <1>1, <1>2 DEF FatIInv

LEMMA EnterInv ==
  ASSUME FatIInv, NEW t, NEW kind, NEW left, NEW steps, Enter(t, kind, left, steps), UNCHANGED fil,
         kind # "rename",
         ~ renameCut /\ Sane(view) =>
             \E w : Runs(steps, view, w, TRUE) /\ Sane(w) /\ (kind = "seek" /\ left # 0 => w.fil[t].sclust # 0)
  PROVE  FatIInv'
  <1>1. /\ op = NoOp /\ op' = [task |-> t, kind |-> kind, left |-> left] /\ todo' = steps
        /\ UNCHANGED <<disk, fat, dir, fil, wflag, renameCut>>
    BY DEF Enter, window
  <1>2. op.kind # "rename" /\ DOMAIN op' = DOMAIN op /\ op'.kind # "rename"
    BY <1>1 DEF NoOp
  <1>3. ASSUME ~ renameCut PROVE \E w : Runs(todo', view, w, TRUE) /\ Sane(w) /\ SeekStarted(op', w)
    <2>1. Sane(view) BY <1>2, <1>3, ViewSane
    <2>2. PICK w : Runs(steps, view, w, TRUE) /\ Sane(w) /\ (kind = "seek" /\ left # 0 => w.fil[t].sclust # 0)
      BY <1>3, <2>1
    <2> QED BY <1>1, <2>2 DEF SeekStarted
  <1> QED BY <1>1, <1>2, <1>3, CallInv

\* A file as another one, but for its flags, its buffer and its ends.
Alike(f, g) == /\ DOMAIN f = DOMAIN g
               /\ f.name = g.name /\ f.sclust = g.sclust

\* In the view v the file f can be the open file of a task.
Fits(v, f) == Sane(v) /\ FileOK(f) /\ Claimable(v, f.name, f.sclust)

LEMMA FileFits ==
  ASSUME NEW v, Sane(v), NEW t \in Tasks PROVE Fits(v, v.fil[t])
  <1>1. FileOK(v.fil[t]) BY DEF Sane, Shape
  <1>2. v.fil[t].name \in Owners /\ v.fil[t].sclust \in Starts BY <1>1 DEF FileOK
  <1>3. v.fil[t].sclust # 0 => Claims(v, v.fil[t].name, v.fil[t].sclust) BY DEF Claims
  <1>4. Claimable(v, v.fil[t].name, v.fil[t].sclust) BY <1>2, <1>3, ClaimedClaimable
  <1> QED BY <1>1, <1>4 DEF Fits

Has(w, t, f) == w.fil[t] = f

\* The step that changes an open file, and any file like it may follow.
LEMMA FilFits ==
  ASSUME NEW v, NEW t \in Tasks, NEW f, Fits(v, f), NEW all
  PROVE  \E w : /\ Runs(<<FilStep(t, f)>>, v, w, all) /\ Sane(w)
                /\ w.fat = v.fat /\ w.dir = v.dir /\ w.fil = [v.fil EXCEPT ![t] = f]
                /\ Has(w, t, f) /\ Fits(w, f)
  <1>1. PICK w : /\ Runs(<<FilStep(t, f)>>, v, w, all) /\ Sane(w)
                 /\ w.fat = v.fat /\ w.dir = v.dir /\ w.fil = [v.fil EXCEPT ![t] = f]
    BY FilRuns DEF Fits
  <1>2. w.fil[t] = f BY <1>1 DEF Fits, Sane, Shape
  <1>3. Fits(w, f) BY <1>1, <1>2, FileFits
  <1> QED BY <1>1, <1>2, <1>3 DEF Has

LEMMA AlikeFits ==
  ASSUME NEW v, NEW f, NEW g, Fits(v, f), Alike(g, f), g.clust \in Starts,
         f.sclust # 0 \/ g.fptr = 0 \/ g.fptr = f.fptr
  PROVE  Fits(v, g)
  BY DEF Fits, Alike, FileOK

LEMMA TwoSteps == ASSUME NEW a, NEW b PROVE <<a, b>> = <<a>> \o <<b>>
  <1> DEFINE Z == {a, b}
  <1>1. <<a, b>> \in Seq(Z) /\ <<a>> \in Seq(Z) /\ <<b>> \in Seq(Z) OBVIOUS
  <1>2. PICK y : y = <<a>> \o <<b>> OBVIOUS
  <1>3. y \in Seq(Z) /\ Len(y) = 2 /\ y[1] = a /\ y[2] = b BY <1>1, <1>2
  <1>4. Len(<<a, b>>) = 2 /\ \A i \in 1 .. 2 : <<a, b>>[i] = y[i]
    <2>1. \A i \in 1 .. 2 : i = 1 \/ i = 2 OBVIOUS
    <2> QED BY <1>3, <2>1
  <1> HIDE DEF Z
  <1> QED BY <1>1, <1>2, <1>3, <1>4, SeqEqual

LEMMA ThreeSteps == ASSUME NEW a, NEW b, NEW c PROVE <<a, b, c>> = <<a, b>> \o <<c>>
  <1> DEFINE Z == {a, b, c}
  <1>1. <<a, b, c>> \in Seq(Z) /\ <<a, b>> \in Seq(Z) /\ <<c>> \in Seq(Z) OBVIOUS
  <1>2. PICK y : y = <<a, b>> \o <<c>> OBVIOUS
  <1>3. y \in Seq(Z) /\ Len(y) = 3 /\ y[1] = a /\ y[2] = b /\ y[3] = c BY <1>1, <1>2
  <1>4. Len(<<a, b, c>>) = 3 /\ \A i \in 1 .. 3 : <<a, b, c>>[i] = y[i]
    <2>1. \A i \in 1 .. 3 : i = 1 \/ i = 2 \/ i = 3 OBVIOUS
    <2> QED BY <1>3, <2>1
  <1> HIDE DEF Z
  <1> QED BY <1>1, <1>2, <1>3, <1>4, SeqEqual

LEMMA FourSteps ==
  ASSUME NEW a, NEW b, NEW c, NEW d PROVE <<a, b, c, d>> = ((<<a>> \o <<b>>) \o <<c>>) \o <<d>>
  <1> DEFINE Z == {a, b, c, d}
  <1>1. <<a, b, c, d>> \in Seq(Z) /\ <<a, b, c>> \in Seq(Z) /\ <<d>> \in Seq(Z) OBVIOUS
  <1>2. PICK y : y = <<a, b, c>> \o <<d>> OBVIOUS
  <1>3. y \in Seq(Z) /\ Len(y) = 4 /\ y[1] = a /\ y[2] = b /\ y[3] = c /\ y[4] = d BY <1>1, <1>2
  <1>4. Len(<<a, b, c, d>>) = 4 /\ \A i \in 1 .. 4 : <<a, b, c, d>>[i] = y[i]
    <2>1. \A i \in 1 .. 4 : i = 1 \/ i = 2 \/ i = 3 \/ i = 4 OBVIOUS
    <2> QED BY <1>3, <2>1
  <1> HIDE DEF Z
  <1>5. <<a, b, c, d>> = <<a, b, c>> \o <<d>> BY <1>1, <1>2, <1>3, <1>4, SeqEqual
  <1>6. <<a, b, c>> = <<a, b>> \o <<c>> BY ThreeSteps
  <1>7. <<a, b>> = <<a>> \o <<b>> BY TwoSteps
  <1> QED BY ONLY <1>5, <1>6, <1>7

LEMMA QuietRun ==
  ASSUME NEW v, Sane(v), NEW s, Quiet(s), NEW all PROVE Runs(<<s>>, v, v, all)
  <1>1. \A i \in 1 .. 1 : i = 1 OBVIOUS
  <1> QED BY <1>1, OneList, RunsQuiet

LEMMA RunsFour ==
  ASSUME NEW a, NEW b, NEW c, NEW d, NEW u, NEW v, NEW w, NEW x, NEW y, NEW all,
         Runs(<<a>>, u, v, all), Runs(<<b>>, v, w, all), Runs(<<c>>, w, x, all), Runs(<<d>>, x, y, all)
  PROVE  Runs(<<a, b, c, d>>, u, y, all)
  <1>1. PICK q : q = <<a>> \o <<b>> OBVIOUS
  <1>2. Runs(q, u, w, all) BY <1>1, RunsJoin
  <1>3. PICK r : r = q \o <<c>> OBVIOUS
  <1>4. Runs(r, u, x, all) BY <1>2, <1>3, RunsJoin
  <1>5. Runs(r \o <<d>>, u, y, all) BY <1>4, RunsJoin
  <1>6. <<a, b, c, d>> = ((<<a>> \o <<b>>) \o <<c>>) \o <<d>> BY FourSteps
  <1>7. <<a, b, c, d>> = r \o <<d>> BY ONLY <1>1, <1>3, <1>6
  <1> QED BY ONLY <1>5, <1>7

LEMMA BufferRuns ==
  ASSUME NEW v, NEW t \in Tasks, NEW f, Fits(v, f), NEW all
  PROVE  \E w : /\ Runs(FlushBuffer(t, f), v, w, all) /\ Fits(w, f)
                /\ w.fat = v.fat /\ w.dir = v.dir
  <1>1. CASE f.dirty
    <2>1. PICK g : g = [f EXCEPT !.dirty = FALSE] OBVIOUS
    <2>2. FlushBuffer(t, f) = <<DataStep(f.dsect, f.buf)>> \o <<FilStep(t, g)>>
      BY <1>1, <2>1, TwoSteps DEF FlushBuffer
    <2>3. Alike(g, f) /\ g.clust = f.clust /\ g.fptr = f.fptr BY <2>1 DEF Alike, Fits, FileOK, Closed
    <2>4. Fits(v, g) BY <2>3, AlikeFits DEF Fits, FileOK
    <2>5. PICK w : /\ Runs(<<FilStep(t, g)>>, v, w, all) /\ Sane(w)
                   /\ w.fat = v.fat /\ w.dir = v.dir /\ Fits(w, g)
      BY <2>4, FilFits
    <2>6. Runs(<<DataStep(f.dsect, f.buf)>>, v, v, all) BY QuietRun, QuietSteps DEF Fits
    <2>7. Runs(FlushBuffer(t, f), v, w, all) BY <2>2, <2>5, <2>6, RunsJoin
    <2>8. Fits(w, f) BY <2>3, <2>5 DEF Fits, Alike
    <2> QED BY <2>5, <2>7, <2>8
  <1>2. CASE ~ f.dirty
    <2>1. FlushBuffer(t, f) = << >> BY <1>2 DEF FlushBuffer
    <2> QED BY <2>1, RunsNone DEF Fits
  <1> QED BY <1>1, <1>2

LEMMA FollowStill == ASSUME NEW n PROVE StillList(FollowPath(n))
  <1> DEFINE upTo == {i \in DOMAIN DirSectors : dir[n] # None => \A j \in 1 .. i - 1 : DirSectors[j] # DirSector(n)}
  <1>1. PICK k : k = Cardinality(upTo) OBVIOUS
  <1>2. k \in Nat
    <2>1. IsFiniteSet(upTo) BY FatAssumption, FS_Subset
    <2> HIDE DEF upTo
    <2> QED BY <1>1, <2>1, FS_CardinalityType
  <1>3. FollowPath(n) = [i \in 1 .. k |-> LookStep(DirSectors[i])] BY <1>1 DEF FollowPath
  <1>4. PICK q : q = FollowPath(n) OBVIOUS
  <1>5. q = [i \in 1 .. k |-> q[i]] /\ \A i \in 1 .. k : \E x : q[i] = LookStep(x) BY <1>3, <1>4
  <1> QED BY <1>2, <1>4, <1>5, StillLooks

\* The entry of a file that is not open goes, and then its clusters are freed.
LEMMA ReleaseRuns ==
  ASSUME NEW v, Sane(v), v.fat = fat, NEW n \in Names, v.dir[n] # None, \A t \in Tasks : v.fil[t].name # n,
         NEW e, e # None => e.clust = 0, NEW all
  PROVE  \E w : /\ Runs(<<DirStep(n, e)>> \o RemoveChain(v.dir[n].clust), v, w, all) /\ Sane(w)
                /\ w.fil = v.fil
  <1>1. PICK c : c = v.dir[n].clust OBVIOUS
  <1>2. c \in Starts BY <1>1 DEF Sane, Shape
  <1>3. PICK u : /\ Runs(<<DirStep(n, e)>>, v, u, all) /\ Sane(u)
                 /\ u.fat = v.fat /\ u.dir = [v.dir EXCEPT ![n] = e] /\ u.fil = v.fil
    <2>1. e # None => e.clust \in Starts /\ Claimable(v, n, e.clust) BY DEF Starts, Claimable
    <2> QED BY <2>1, DirRuns
  <1>4. ASSUME c \in Clusters PROVE Alone(u.fat, c) /\ Unclaimed(u, c)
    <2>1. Claims(v, n, c) /\ n \in Owners BY <1>1 DEF Claims, Owners
    <2>2. Alone(v.fat, c) /\ \A m \in Owners : Claims(v, m, c) => m = n BY <1>4, <2>1 DEF Sane, Apart
    <2>3. ASSUME NEW m \in Owners, Claims(u, m, c) PROVE FALSE
      <3>1. CASE m = n
        <4>1. \A t \in Tasks : u.fil[t].name # m BY <1>3, <3>1
        <4>2. u.dir[m] = e BY <1>3, <3>1 DEF Sane, Shape
        <4>3. c # 0 BY <1>4, ClusterNumbers
        <4> QED BY <2>3, <4>1, <4>2, <4>3 DEF Claims
      <3>2. CASE m # n
        <4>1. Claims(v, m, c) BY <1>3, <2>3, <3>2 DEF Claims, Sane, Shape
        <4> QED BY <2>2, <3>2, <4>1
      <3> QED BY <3>1, <3>2
    <2> QED BY <1>3, <2>2, <2>3 DEF Unclaimed
  <1>5. PICK w : Runs(RemoveChain(c), u, w, all) /\ Sane(w) /\ w.dir = u.dir /\ w.fil = u.fil
    BY <1>3, <1>4, RemoveRuns
  <1>6. Runs(<<DirStep(n, e)>> \o RemoveChain(c), v, w, all) BY <1>3, <1>5, RunsJoin
  <1> QED BY <1>1, <1>3, <1>5, <1>6

\* f_sync() names the file's chain in its entry.
LEMMA SyncRuns ==
  ASSUME NEW t \in Tasks, NEW v, v = view, Sane(v), fil[t].name # None, NEW all
  PROVE  \E w : Runs(SyncSteps(t), v, w, all) /\ Sane(w)
  <1>1. PICK f : f = fil[t] OBVIOUS
  <1>2. v.fil = fil /\ v.dir = dir BY DEF view
  <1>3. Fits(v, f) BY <1>1, <1>2, FileFits
  <1>4. CASE ~ f.written
    <2>1. SyncSteps(t) = << >> BY <1>1, <1>4 DEF SyncSteps
    <2> QED BY <2>1, RunsNone
  <1>5. CASE f.written
    <2>1. PICK n : n = f.name OBVIOUS
    <2>2. n \in Names BY <1>1, <1>3, <2>1 DEF Fits, FileOK, Owners
    <2>3. PICK e : e = IF dir[n] = None THEN None ELSE [clust |-> f.sclust, size |-> f.fsize] OBVIOUS
    <2>4. PICK g : g = [f EXCEPT !.dirty = FALSE, !.written = FALSE] OBVIOUS
    <2>5. PICK x : x = IF e = None THEN None ELSE SubSeq(f.text, 1, f.fsize) OBVIOUS
    <2>6. SyncSteps(t) = FlushBuffer(t, f) \o <<DirStep(n, e), FilStep(t, g), FlushStep, SavedStep(n, x)>>
      BY <1>1, <1>5, <2>1, <2>3, <2>4, <2>5 DEF SyncSteps
    <2>7. PICK u : Runs(FlushBuffer(t, f), v, u, all) /\ Fits(u, f) BY <1>3, BufferRuns
    <2>8. e # None => e.clust \in Starts /\ Claimable(u, n, e.clust)
      <3>1. e # None => e.clust = f.sclust BY <2>3
      <3> QED BY <2>1, <2>7, <3>1 DEF Fits, FileOK
    <2>9. PICK w : /\ Runs(<<DirStep(n, e)>>, u, w, all) /\ Sane(w)
                   /\ w.fat = u.fat /\ w.dir = [u.dir EXCEPT ![n] = e] /\ w.fil = u.fil
      BY <2>2, <2>7, <2>8, DirRuns DEF Fits
    <2>10. Fits(w, f)
      <3>1. ASSUME NEW m \in Owners, NEW s \in Clusters, s = f.sclust, Claims(w, m, s) PROVE m = f.name
        <4>1. \A k \in Owners : Claims(u, k, s) => k = f.name BY <2>7, <3>1, ClusterNumbers DEF Fits, Claimable
        <4>2. CASE m = n BY <2>1, <4>2
        <4>3. CASE m # n
          <5>1. Claims(u, m, s) BY <2>7, <2>9, <3>1, <4>3 DEF Claims, Fits, Sane, Shape
          <5> QED BY <4>1, <5>1
        <4> QED BY <4>2, <4>3
      <3>2. Claimable(w, f.name, f.sclust)
        BY <2>7, <2>9, <3>1 DEF Claimable, Fits, FileOK, Starts
      <3> QED BY <2>7, <2>9, <3>2 DEF Fits
    <2>11. Alike(g, f) /\ g.clust = f.clust /\ g.fptr = f.fptr BY <1>3, <2>4 DEF Alike, Fits, FileOK, Closed
    <2>12. Fits(w, g) BY <2>10, <2>11, AlikeFits DEF Fits, FileOK
    <2>13. PICK y : Runs(<<FilStep(t, g)>>, w, y, all) /\ Sane(y) BY <2>12, FilFits
    <2>14. Runs(<<FlushStep>>, y, y, all) BY <2>13, QuietRun, QuietSteps
    <2>15. Runs(<<SavedStep(n, x)>>, y, y, all) BY <2>13, QuietRun, QuietSteps
    <2>16. Runs(<<DirStep(n, e), FilStep(t, g), FlushStep, SavedStep(n, x)>>, u, y, all)
      BY <2>9, <2>13, <2>14, <2>15, RunsFour
    <2> QED BY <2>6, <2>7, <2>13, <2>16, RunsJoin
  <1> QED BY <1>4, <1>5

LEMMA SyncInv == ASSUME FatIInv, NEW t \in Tasks, f_sync(t) PROVE FatIInv'
  <1>1. fil[t].name # None /\ Enter(t, "end", 0, SyncSteps(t)) /\ UNCHANGED fil BY DEF f_sync
  <1>2. ASSUME Sane(view) PROVE \E w : Runs(SyncSteps(t), view, w, TRUE) /\ Sane(w)
    BY <1>1, <1>2, SyncRuns
  <1> QED BY <1>1, <1>2, EnterInv

LEMMA CloseInv == ASSUME FatIInv, NEW t \in Tasks, f_close(t) PROVE FatIInv'
  <1>1. /\ fil[t].name # None /\ UNCHANGED fil
        /\ Enter(t, "end", 0, SyncSteps(t) \o <<FilStep(t, Closed)>>)
    BY DEF f_close
  <1>2. ASSUME Sane(view) PROVE \E w : Runs(SyncSteps(t) \o <<FilStep(t, Closed)>>, view, w, TRUE) /\ Sane(w)
    <2>1. PICK u : Runs(SyncSteps(t), view, u, TRUE) /\ Sane(u) BY <1>1, <1>2, SyncRuns
    <2>2. Fits(u, Closed) BY <2>1, ClosedFile DEF Fits, Claimable
    <2>3. PICK w : Runs(<<FilStep(t, Closed)>>, u, w, TRUE) /\ Sane(w) BY <2>2, FilFits
    <2> QED BY <2>1, <2>3, RunsJoin
  <1> QED BY <1>1, <1>2, EnterInv

LEMMA WriteInv == ASSUME FatIInv, NEW t \in Tasks, NEW k, f_write(t, k) PROVE FatIInv'
  <1>1. Enter(t, "write", k, << >>) /\ UNCHANGED fil BY DEF f_write
  <1>2. Sane(view) => Runs(<< >>, view, view, TRUE) BY RunsNone
  <1> QED BY <1>1, <1>2, EnterInv

LEMMA UnlinkInv == ASSUME Exclusive, FatIInv, NEW t \in Tasks, NEW n \in Names, f_unlink(t, n) PROVE FatIInv'
  <1>1. /\ dir[n] # None /\ \A u \in Tasks : fil[u].name # n /\ UNCHANGED fil
        /\ Enter(t, "end", 0, FollowPath(n) \o UnlinkSteps(n))
    BY DEF f_unlink, IsOpen
  <1>2. ASSUME Sane(view) PROVE \E w : Runs(FollowPath(n) \o UnlinkSteps(n), view, w, TRUE) /\ Sane(w)
    <2>1. view.fat = fat /\ view.dir = dir /\ view.fil = fil BY DEF view
    <2>2. Runs(FollowPath(n), view, view, TRUE) BY <1>2, FollowStill, RunsStill
    <2>3. PICK w : Runs(<<DirStep(n, None)>> \o RemoveChain(dir[n].clust), view, w, TRUE) /\ Sane(w)
      BY <1>1, <1>2, <2>1, ReleaseRuns
    <2>4. Runs(<<FlushStep>>, w, w, TRUE) BY <2>3, QuietRun, QuietSteps
    <2>5. Runs((<<DirStep(n, None)>> \o RemoveChain(dir[n].clust)) \o <<FlushStep>>, view, w, TRUE)
      BY <2>3, <2>4, RunsJoin
    <2>6. UnlinkSteps(n) = (<<DirStep(n, None)>> \o RemoveChain(dir[n].clust)) \o <<FlushStep>>
      BY DEF UnlinkSteps, dir_remove
    <2>7. Runs(UnlinkSteps(n), view, w, TRUE) BY <2>5, <2>6
    <2> QED BY <2>2, <2>3, <2>7, RunsJoin
  <1> QED BY <1>1, <1>2, EnterInv

LEMMA OpenInv ==
  ASSUME Exclusive, FatIInv, NEW t \in Tasks, NEW n \in Names, NEW keep \in BOOLEAN, f_open(t, n, keep)
  PROVE  FatIInv'
  <1> DEFINE new == [clust |-> 0, size |-> 0]
             cl == dir[n].clust
             created == dir[n] = None \/ ~ keep
             entry == IF created THEN new ELSE dir[n]
             text == IF created THEN << >> ELSE Content([disk EXCEPT !.fat = fat, !.dir = dir], n)
             create == IF dir[n] = None THEN <<dir_register(n, new)>>
                       ELSE IF keep THEN << >>
                       ELSE IF cl = 0 THEN <<DirStep(n, new)>>
                       ELSE <<DirStep(n, new)>> \o RemoveChain(cl) \o <<LastStep(cl - 1), LookStep(DirSector(n))>>
             file == [Closed EXCEPT !.name = n, !.written = created,
                                    !.sclust = entry.clust, !.fsize = entry.size, !.text = text]
  <1>1. /\ Enter(t, "end", 0, FollowPath(n) \o create \o <<FilStep(t, file)>>) /\ UNCHANGED fil
        /\ \A u \in Tasks : fil[u].name # n
    BY DEF f_open, IsOpen
  <1>2. PICK f : f = file OBVIOUS
  <1>3. PICK steps : steps = create OBVIOUS
  <1>4. ASSUME Sane(view)
        PROVE \E w : Runs(FollowPath(n) \o steps \o <<FilStep(t, f)>>, view, w, TRUE) /\ Sane(w)
    <2>1. view.fat = fat /\ view.dir = dir /\ view.fil = fil BY DEF view
    <2>2. Runs(FollowPath(n), view, view, TRUE) BY <1>4, FollowStill, RunsStill
    <2>3. /\ DOMAIN f = DOMAIN Closed /\ f.name = n /\ f.clust = 0 /\ f.fptr = 0
          /\ f.sclust = IF dir[n] = None \/ ~ keep THEN 0 ELSE dir[n].clust
      BY <1>2 DEF Closed
    <2>4. FileOK(f)
      BY <1>4, <2>1, <2>3 DEF FileOK, Owners, Starts, Sane, Shape
    <2>5. \E u : Runs(steps, view, u, TRUE) /\ Fits(u, f)
      <3>1. CASE dir[n] = None \/ (~ keep /\ cl = 0)
        <4>1. steps = <<DirStep(n, new)>> BY <1>3, <3>1 DEF dir_register
        <4>2. new # None => new.clust \in Starts /\ Claimable(view, n, new.clust) BY DEF Starts, Claimable
        <4>3. PICK u : Runs(<<DirStep(n, new)>>, view, u, TRUE) /\ Sane(u) BY <1>4, <4>2, DirRuns
        <4>4. Fits(u, f) BY <2>3, <2>4, <3>1, <4>3 DEF Fits, Claimable
        <4> QED BY <4>1, <4>3, <4>4
      <3>2. CASE dir[n] # None /\ keep
        <4>1. steps = << >> BY <1>3, <3>2
        <4>2. Runs(<< >>, view, view, TRUE) BY <1>4, RunsNone
        <4>3. f.sclust = dir[n].clust BY <2>3, <3>2
        <4>4. Claims(view, n, f.sclust) BY <2>1, <3>2, <4>3 DEF Claims
        <4>5. Claimable(view, n, f.sclust) BY <1>4, <2>3, <2>4, <4>4, ClaimedClaimable DEF FileOK
        <4>6. Fits(view, f) BY <1>4, <2>3, <2>4, <4>5 DEF Fits
        <4> QED BY <4>1, <4>2, <4>6
      <3>3. CASE dir[n] # None /\ ~ keep /\ cl # 0
        <4>1. steps = (<<DirStep(n, new)>> \o RemoveChain(cl)) \o <<LastStep(cl - 1), LookStep(DirSector(n))>>
          BY <1>3, <3>3
        <4>2. new # None => new.clust = 0 OBVIOUS
        <4>3. PICK u : Runs(<<DirStep(n, new)>> \o RemoveChain(cl), view, u, TRUE) /\ Sane(u)
          BY <1>1, <1>4, <2>1, <3>3, <4>2, ReleaseRuns
        <4>4. Runs(<<LastStep(cl - 1)>>, u, u, TRUE) BY <4>3, QuietRun, QuietSteps
        <4>5. Runs(<<LookStep(DirSector(n))>>, u, u, TRUE) BY <4>3, QuietRun, QuietSteps
        <4>6. Runs(<<LastStep(cl - 1)>> \o <<LookStep(DirSector(n))>>, u, u, TRUE) BY <4>4, <4>5, RunsJoin
        <4>7. Runs(<<LastStep(cl - 1), LookStep(DirSector(n))>>, u, u, TRUE) BY <4>6, TwoSteps
        <4>8. Runs(steps, view, u, TRUE) BY <4>1, <4>3, <4>7, RunsJoin
        <4>9. Fits(u, f) BY <2>3, <2>4, <3>3, <4>3 DEF Fits, Claimable
        <4> QED BY <4>8, <4>9
      <3> QED BY <3>1, <3>2, <3>3
    <2>6. PICK u : Runs(steps, view, u, TRUE) /\ Fits(u, f) BY <2>5
    <2>7. PICK w : Runs(<<FilStep(t, f)>>, u, w, TRUE) /\ Sane(w) BY <2>6, FilFits
    <2>8. Runs(FollowPath(n) \o steps, view, u, TRUE) BY <2>2, <2>6, RunsJoin
    <2>9. Runs((FollowPath(n) \o steps) \o <<FilStep(t, f)>>, view, w, TRUE) BY <2>7, <2>8, RunsJoin
    <2> QED BY <2>7, <2>9
  <1>5. Enter(t, "end", 0, FollowPath(n) \o steps \o <<FilStep(t, f)>>) /\ UNCHANGED fil
    BY ONLY <1>1, <1>2, <1>3
  <1> HIDE DEF new, cl, created, entry, text, create, file
  <1> QED BY <1>4, <1>5, EnterInv

\* f_rename() moves the claim of a name, and has flushed the window when it ends.
LEMMA RenamedSane ==
  ASSUME NEW v, Sane(v), NEW old \in Names, NEW new \in Names, old # new,
         v.dir[old] # None, v.dir[new] = None, \A t \in Tasks : v.fil[t].name # old,
         NEW w, w = [fat |-> v.fat, dir |-> [[v.dir EXCEPT ![new] = v.dir[old]] EXCEPT ![old] = None], fil |-> v.fil]
  PROVE  Sane(w)
  <1>1. /\ w.fat = v.fat /\ w.fil = v.fil /\ w = [fat |-> w.fat, dir |-> w.dir, fil |-> w.fil]
        /\ w.dir = [[v.dir EXCEPT ![new] = v.dir[old]] EXCEPT ![old] = None]
    OBVIOUS
  <1>2. DOMAIN v.dir = Names BY DEF Sane, Shape
  <1>3. /\ DOMAIN w.dir = Names
        /\ \A n \in Names : w.dir[n] = IF n = old THEN None ELSE IF n = new THEN v.dir[old] ELSE v.dir[n]
    BY <1>1, <1>2
  <1>4. Shape(w) BY <1>1, <1>3 DEF Sane, Shape
  <1>5. old \in Owners /\ new \in Owners BY DEF Owners
  <1>6. ASSUME NEW n \in Owners, NEW s \in Clusters, Claims(w, n, s)
        PROVE  n # old /\ (Claims(v, n, s) \/ (n = new /\ Claims(v, old, s)))
    BY <1>1, <1>3, <1>6 DEF Claims
  <1>7. Apart(w)
    <2>1. ASSUME NEW s \in Clusters, NEW n \in Owners, Claims(w, n, s)
          PROVE  Alone(w.fat, s)
      BY <1>1, <1>5, <1>6, <2>1 DEF Sane, Apart
    <2>2. ASSUME NEW s \in Clusters, NEW n \in Owners, Claims(w, n, s), NEW m \in Owners, Claims(w, m, s)
          PROVE  m = n
      <3>1. n # old /\ (Claims(v, n, s) \/ (n = new /\ Claims(v, old, s))) BY <1>6, <2>2
      <3>2. m # old /\ (Claims(v, m, s) \/ (m = new /\ Claims(v, old, s))) BY <1>6, <2>2
      <3>3. \A j \in Owners, k \in Owners : Claims(v, j, s) /\ Claims(v, k, s) => j = k
        BY DEF Sane, Apart
      <3> QED BY <1>5, <3>1, <3>2, <3>3
    <2> QED BY <2>1, <2>2 DEF Apart
  <1> QED BY <1>1, <1>4, <1>7 DEF Sane

LEMMA RunsOnce == ASSUME NEW v, NEW s, NEW w, w = Exec(v, s) PROVE Runs(<<s>>, v, w, FALSE)
  <1> DEFINE tr == [i \in {0, 1} |-> IF i = 0 THEN v ELSE w]
  <1>1. tr[0] = v /\ tr[1] = w OBVIOUS
  <1> HIDE DEF tr
  <1>2. \A i \in 1 .. 1 : i = 1 /\ i - 1 = 0 OBVIOUS
  <1>3. Traces(tr, <<s>>, v, w, FALSE) BY <1>1, <1>2, OneList DEF Traces
  <1> QED BY <1>3, OneList DEF Runs

LEMMA RenameInv ==
  ASSUME Exclusive, FatIInv, NEW t \in Tasks, NEW old \in Names, NEW new \in Names, f_rename(t, old, new)
  PROVE  FatIInv'
  <1>1. PICK a : a = dir_register(new, dir[old]) OBVIOUS
  <1>2. PICK b : b = dir_remove(old) OBVIOUS
  <1>3. PICK x : x = SavedStep(new, saved[old]) OBVIOUS
  <1>4. PICK looks : looks = FollowPath(old) \o FollowPath(new) OBVIOUS
  <1>5. /\ dir[old] # None /\ dir[new] = None /\ \A u \in Tasks : fil[u].name # old
        /\ Enter(t, "rename", 0, looks \o <<a, b, FlushStep, x>>) /\ UNCHANGED fil
    BY <1>1, <1>2, <1>3, <1>4 DEF f_rename, IsOpen
  <1>6. /\ op = NoOp /\ op' = [task |-> t, kind |-> "rename", left |-> 0]
        /\ todo' = looks \o <<a, b, FlushStep, x>>
        /\ UNCHANGED <<disk, fat, dir, fil, wflag, renameCut>>
    BY <1>5 DEF Enter, window
  <1>7. view' = view /\ op.kind # "rename" BY <1>6 DEF view, NoOp
  <1>8. DOMAIN op' = {"task", "kind", "left"} /\ op'.kind = "rename" BY <1>6
  <1>9. StillList(looks) BY <1>4, FollowStill, StillJoin
  <1>10. ASSUME ~ renameCut PROVE Pending'
    <2>1. Sane(view) /\ view.fat = fat /\ view.dir = dir /\ view.fil = fil BY <1>7, <1>10, ViewSane DEF view
    <2>2. PICK u : u = Exec(view, a) OBVIOUS
    <2>3. PICK w : w = Exec(u, b) OBVIOUS
    <2>4. a.do = "dir" /\ a.name = new /\ a.entry = dir[old] /\ b.do = "dir" /\ b.name = old /\ b.entry = None
      BY <1>1, <1>2 DEF dir_register, dir_remove, DirStep
    <2>5. u.fat = fat /\ u.fil = fil /\ u.dir = [dir EXCEPT ![new] = dir[old]]
      BY <2>1, <2>2, <2>4 DEF Exec
    <2>6. w = [fat |-> fat, dir |-> [u.dir EXCEPT ![old] = None], fil |-> fil] BY <2>3, <2>4, <2>5 DEF Exec
    <2>7. old # new BY <1>5
    <2>8. w = [fat |-> view.fat, dir |-> [[view.dir EXCEPT ![new] = view.dir[old]] EXCEPT ![old] = None], fil |-> view.fil]
      BY <2>1, <2>5, <2>6
    <2>9. Sane(w) BY <1>5, <2>1, <2>7, <2>8, RenamedSane
    <2>10. Runs(<<a>>, view, u, FALSE) BY <2>2, RunsOnce
    <2>11. Runs(<<b>>, u, w, FALSE) BY <2>3, RunsOnce
    <2>12. Runs(<<FlushStep>>, w, w, FALSE) BY <2>9, QuietRun, QuietSteps
    <2>13. Runs(<<x>>, w, w, FALSE) BY <1>3, <2>9, QuietRun, QuietSteps
    <2>14. Runs(<<a, b, FlushStep, x>>, view, w, FALSE) BY <2>10, <2>11, <2>12, <2>13, RunsFour
    <2>15. Runs(looks, view, view, FALSE) BY <1>9, <2>1, RunsStill
    <2>16. Runs(todo', view, w, FALSE) BY <1>6, <2>14, <2>15, RunsJoin
    <2>17. Runs(todo', view', w, op'.kind # "rename") BY <1>7, <1>8, <2>16
    <2>18. SeekStarted(op', w) BY <1>8 DEF SeekStarted
    <2> QED BY <2>9, <2>17, <2>18 DEF Pending
  <1>11. FlushLast(todo', wflag')
    <2>1. PICK last : last = <<a, b, FlushStep, x>> OBVIOUS
    <2>2. IsList(last) /\ Len(last) = 4 /\ last[3] = FlushStep /\ last[4] = x
      <3>1. last \in Seq({a, b, FlushStep, x}) BY <2>1
      <3> QED BY <2>1, <3>1 DEF IsList
    <2>3. PICK m : m = Len(looks) OBVIOUS
    <2>4. /\ m \in Nat /\ Len(looks \o last) = m + 4
          /\ \A i \in 1 .. m + 4 : i > m => (looks \o last)[i] = last[i - m]
      <3>1. IsList(looks) BY <1>9 DEF StillList
      <3>2. /\ Len(looks) \in Nat /\ Len(looks \o last) = Len(looks) + Len(last)
            /\ \A i \in 1 .. Len(looks) + Len(last) : i > Len(looks) => (looks \o last)[i] = last[i - Len(looks)]
        BY <2>2, <3>1, JoinList
      <3> QED BY <2>2, <2>3, <3>2
    <2>5. todo' = looks \o last BY <1>6, <2>1
    <2>6. m + 3 \in 1 .. m + 4 /\ m + 4 \in 1 .. m + 4 /\ (m + 3) - m = 3 /\ (m + 4) - m = 4
          /\ m + 3 > m /\ m + 4 > m /\ m + 3 \in 0 .. m + 4 /\ m + 3 # 0
      BY <2>4
    <2>7. todo'[m + 3].do = "flush"
      <3>1. (looks \o last)[m + 3] = last[3] BY <2>4, <2>6
      <3> QED BY <2>2, <2>5, <3>1 DEF FlushStep
    <2>8. todo'[m + 4].do = "saved"
      <3>1. (looks \o last)[m + 4] = last[4] BY <2>4, <2>6
      <3> QED BY <1>3, <2>2, <2>5, <3>1 DEF SavedStep
    <2>9. \A j \in (m + 3) + 1 .. m + 4 : j = m + 4 BY <2>4
    <2>10. \A j \in (m + 3) + 1 .. m + 4 : todo'[j].do \notin {"fat", "dir"} BY <2>8, <2>9
    <2> QED BY <2>4, <2>5, <2>6, <2>7, <2>10 DEF FlushLast
  <1> QED BY <1>6, <1>8, <1>10, <1>11 DEF FatIInv

\* The call gives up: its file has an error.
LEMMA AbortInv ==
  ASSUME FatIInv, NEW t, op.kind # "rename", todo = << >>, Abort(t), UNCHANGED <<disk, fat, dir, wflag, renameCut>>
  PROVE  FatIInv'
  <1>1. /\ todo' = << >> /\ op' = [op EXCEPT !.kind = "end"] /\ onDisk' = onDisk /\ view' = Marked(view, t)
    BY DEF Abort, onDisk, view, Marked
  <1>2. DOMAIN op' = {"task", "kind", "left"} /\ op'.kind = "end" BY <1>1 DEF FatIInv
  <1>3. ASSUME ~ renameCut PROVE Pending'
    <2>1. Sane(view') BY <1>1, <1>3, ViewSane, MarkedSane
    <2>2. Runs(todo', view', view', op'.kind # "rename") BY <1>1, <2>1, RunsNone
    <2>3. SeekStarted(op', view') BY <1>2 DEF SeekStarted
    <2> QED BY <2>1, <2>2, <2>3 DEF Pending
  <1> QED BY <1>1, <1>2, <1>3 DEF FatIInv

\* A chain that CreateChain begins, or the one the file has.
LEMMA BeginRuns ==
  ASSUME Sane(view), NEW t \in Tasks, NEW f, f = fil[t], NEW r,
         \/ r.clst = f.sclust /\ r.steps = << >> /\ f.sclust # 0
         \/ r = CreateChain(0) /\ f.sclust = 0
  PROVE  /\ r.clst \in Starts
         /\ \E w : /\ Runs(r.steps, view, w, TRUE) /\ Sane(w) /\ w.dir = dir /\ w.fil = fil
                   /\ Claimable(w, f.name, r.clst)
  <1>1. view.fat = fat /\ view.dir = dir /\ view.fil = fil BY DEF view
  <1>2. Fits(view, f) BY <1>1, FileFits
  <1>3. CASE r.clst = f.sclust /\ r.steps = << >>
    <2>1. Runs(r.steps, view, view, TRUE) BY <1>3, RunsNone
    <2> QED BY <1>1, <1>2, <1>3, <2>1 DEF Fits, FileOK
  <1>4. CASE r = CreateChain(0)
    <2>1. 0 \in Starts BY DEF Starts
    <2>2. PICK w : /\ Runs(r.steps, view, w, TRUE) /\ Sane(w) /\ w.dir = dir /\ w.fil = fil
                   /\ r.clst # 0 => r.clst \in Clusters /\ Alone(w.fat, r.clst) /\ Unclaimed(w, r.clst)
      BY <1>4, <2>1, CreateRuns
    <2>3. Claimable(w, f.name, r.clst) BY <2>2 DEF Claimable, Unclaimed
    <2> QED BY <2>2, <2>3 DEF Starts
  <1> QED BY <1>3, <1>4

LEMMA LseekInv == ASSUME FatIInv, NEW t \in Tasks, NEW gap, f_lseek(t, gap) PROVE FatIInv'
  <1> DEFINE f == fil[t]
             ofs == f.fsize + gap
             here == ((f.fptr - 1) \div Units) * Units
             chain == IF f.sclust # 0 THEN [clst |-> f.sclust, steps |-> << >>] ELSE CreateChain(0)
             near == [f EXCEPT !.fptr = here]
             start == [f EXCEPT !.fptr = 0, !.sclust = chain.clst, !.clust = chain.clst]
  <1>1. /\ UNCHANGED fil
        /\ \/ f.fptr > 0 /\ Enter(t, "seek", ofs - here, <<FilStep(t, near)>>)
           \/ Enter(t, "seek", IF chain.clst = 0 THEN 0 ELSE ofs, chain.steps \o <<FilStep(t, start)>>)
    BY DEF f_lseek
  <1>2. CASE f.fptr > 0 /\ Enter(t, "seek", ofs - here, <<FilStep(t, near)>>)
    <2>1. ASSUME Sane(view)
          PROVE  \E w : /\ Runs(<<FilStep(t, near)>>, view, w, TRUE) /\ Sane(w) /\ w.fil[t].sclust # 0
      <3>1. Fits(view, f) BY <2>1, FileFits DEF view
      <3>2. f.fptr # 0 BY <1>2
      <3>3. f.sclust # 0 BY <3>1, <3>2 DEF Fits, FileOK
      <3>4. PICK g : g = near OBVIOUS
      <3> HIDE DEF f, here
      <3>5. Alike(g, f) /\ g.clust = f.clust BY <3>1, <3>4 DEF Alike, Fits, FileOK, Closed
      <3>6. Fits(view, g) BY <3>1, <3>3, <3>5, AlikeFits DEF Fits, FileOK
      <3>7. PICK w : Runs(<<FilStep(t, g)>>, view, w, TRUE) /\ Sane(w) /\ Has(w, t, g) BY <3>6, FilFits
      <3> QED BY <3>3, <3>4, <3>5, <3>7 DEF Alike, Has
    <2> HIDE DEF f, ofs, here, near
    <2> QED BY <1>1, <1>2, <2>1, EnterInv
  <1>3. CASE Enter(t, "seek", IF chain.clst = 0 THEN 0 ELSE ofs, chain.steps \o <<FilStep(t, start)>>)
    <2>1. PICK r : r = chain OBVIOUS
    <2>2. PICK g : g = start OBVIOUS
    <2>3. PICK left : left = IF r.clst = 0 THEN 0 ELSE ofs OBVIOUS
    <2>4. ASSUME Sane(view)
          PROVE  \E w : /\ Runs(r.steps \o <<FilStep(t, g)>>, view, w, TRUE) /\ Sane(w)
                        /\ left # 0 => w.fil[t].sclust # 0
      <3>1. Fits(view, f) BY <2>4, FileFits DEF view
      <3>2. \/ r.clst = f.sclust /\ r.steps = << >> /\ f.sclust # 0
            \/ r = CreateChain(0) /\ f.sclust = 0
        BY <2>1
      <3>3. g = [f EXCEPT !.fptr = 0, !.sclust = r.clst, !.clust = r.clst] BY <2>1, <2>2
      <3>4. /\ r.clst \in Starts
            /\ \E w : /\ Runs(r.steps, view, w, TRUE) /\ Sane(w) /\ w.dir = dir /\ w.fil = fil
                      /\ Claimable(w, f.name, r.clst)
        BY <2>4, <3>2, BeginRuns
      <3>5. PICK u : Runs(r.steps, view, u, TRUE) /\ Sane(u) /\ Claimable(u, f.name, r.clst) BY <3>4
      <3> HIDE DEF f, chain, start
      <3>6. /\ DOMAIN g = DOMAIN Closed /\ g.name = f.name /\ g.sclust = r.clst /\ g.clust = r.clst /\ g.fptr = 0
        BY <3>1, <3>3 DEF Fits, FileOK, Closed
      <3>7. Fits(u, g) BY <3>1, <3>4, <3>5, <3>6 DEF Fits, FileOK
      <3>8. PICK w : Runs(<<FilStep(t, g)>>, u, w, TRUE) /\ Sane(w) /\ Has(w, t, g) BY <3>7, FilFits
      <3>9. Runs(r.steps \o <<FilStep(t, g)>>, view, w, TRUE) BY <3>5, <3>8, RunsJoin
      <3> QED BY <2>3, <3>6, <3>8, <3>9 DEF Has
    <2>5. Enter(t, "seek", left, r.steps \o <<FilStep(t, g)>>) BY ONLY <1>3, <2>1, <2>2, <2>3
    <2> HIDE DEF f, ofs, here, chain, near, start
    <2> QED BY <1>1, <2>4, <2>5, EnterInv
  <1> QED BY <1>1, <1>2, <1>3

LEMMA SeekOnInv == ASSUME FatIInv, NEW t \in Tasks, SeekOn(t) PROVE FatIInv'
  <1> DEFINE f == fil[t]
             chain == CreateChain(f.clust)
             end == f.fptr + op.left
             f1 == [f EXCEPT !.fptr = end]
             nsect == IF op.left % Units = 0 THEN 0 ELSE f.clust
             load == end % Units # 0 /\ nsect # f.dsect
             f2 == IF load THEN [f1 EXCEPT !.dirty = FALSE, !.dsect = nsect, !.buf = disk.data[nsect]] ELSE f1
             f3 == IF end <= f.fsize THEN f2
                   ELSE [f2 EXCEPT !.fsize = end, !.written = TRUE,
                                   !.text = [i \in 1 .. end |-> IF i <= Len(@) THEN @[i] ELSE Unknown]]
             flushed == IF load THEN FlushBuffer(t, f1) ELSE << >>
             next == [f EXCEPT !.clust = chain.clst, !.fptr = @ + Units]
  <1>1. /\ op.task = t /\ op.kind = "seek" /\ todo = << >>
        /\ UNCHANGED <<disk, fat, dir, wflag, renameCut>>
        /\ \/ /\ op.left <= Units
              /\ todo' = flushed \o <<FilStep(t, f3)>>
              /\ op' = [op EXCEPT !.kind = "last"] /\ UNCHANGED fil
           \/ /\ ~ (op.left <= Units) /\ chain.clst = 0
              /\ todo' = chain.steps /\ op' = [op EXCEPT !.left = Units] /\ UNCHANGED fil
           \/ Abort(t)
           \/ /\ ~ (op.left <= Units) /\ chain.clst # 0 /\ chain.clst # 1
              /\ todo' = chain.steps \o <<FilStep(t, next)>>
              /\ op' = [op EXCEPT !.left = @ - Units] /\ UNCHANGED fil
    BY DEF SeekOn, window
  <1>2. op.kind # "rename" /\ DOMAIN op = {"task", "kind", "left"} BY <1>1 DEF FatIInv
  <1>3. ASSUME ~ renameCut PROVE Sane(view) /\ Fits(view, f) /\ (op.left # 0 => f.sclust # 0)
    <2>1. Sane(view) BY <1>2, <1>3, ViewSane
    <2>2. Fits(view, f) BY <2>1, FileFits DEF view
    <2>3. PICK w : Runs(todo, view, w, op.kind # "rename") /\ SeekStarted(op, w) BY <1>3 DEF FatIInv, Pending
    <2>a. todo = << >> BY <1>1
    <2>4. w = view BY <2>a, <2>3, RunsStart
    <2>5. op.left # 0 => f.sclust # 0 BY <1>1, <2>3, <2>4 DEF SeekStarted, view
    <2> QED BY <2>1, <2>2, <2>5
  <1>4. CASE /\ op.left <= Units
             /\ todo' = flushed \o <<FilStep(t, f3)>>
             /\ op' = [op EXCEPT !.kind = "last"] /\ UNCHANGED fil
    <2>1. DOMAIN op' = DOMAIN op /\ op'.kind = "last" BY <1>2, <1>4
    <2>2. PICK g1 : g1 = f1 OBVIOUS
    <2>3. PICK g3 : g3 = f3 OBVIOUS
    <2>4. PICK q : q = flushed OBVIOUS
    <2>5. ASSUME ~ renameCut PROVE \E w : Runs(q \o <<FilStep(t, g3)>>, view, w, TRUE) /\ Sane(w)
      <3>1. Fits(view, f) /\ (op.left # 0 => f.sclust # 0) BY <1>3, <2>5
      <3>2. DOMAIN f = DOMAIN Closed BY <3>1 DEF Fits, FileOK
      <3>3. Alike(g1, f) /\ g1.clust = f.clust /\ g1.fptr = end
        BY <2>2, <3>2 DEF Alike, Closed
      <3>4. PICK g2 : g2 = f2 OBVIOUS
      <3>5. Alike(g2, g1) /\ g2.clust = g1.clust /\ g2.fptr = g1.fptr
        <4>1. DOMAIN g1 = DOMAIN Closed BY <3>2, <3>3 DEF Alike
        <4>2. g2 = IF load THEN [g1 EXCEPT !.dirty = FALSE, !.dsect = nsect, !.buf = disk.data[nsect]] ELSE g1
          BY <2>2, <3>4
        <4> HIDE DEF f, end, nsect, load, f1, f2
        <4> QED BY <4>1, <4>2 DEF Alike, Closed
      <3>6. Alike(g3, g2) /\ g3.clust = g2.clust /\ g3.fptr = g2.fptr
        <4>1. DOMAIN g2 = DOMAIN Closed BY <3>2, <3>3, <3>5 DEF Alike
        <4>2. \E x : g3 = IF end <= f.fsize THEN g2 ELSE [g2 EXCEPT !.fsize = end, !.written = TRUE, !.text = x]
          BY <2>3, <3>4
        <4> HIDE DEF f, end, nsect, load, f1, f2, f3
        <4> QED BY <4>1, <4>2 DEF Alike, Closed
      <3>7. f.sclust # 0 \/ end = 0
        <4>1. CASE op.left = 0 /\ f.fptr = 0 BY <4>1
        <4>2. CASE op.left # 0 \/ f.fptr # 0 BY <3>1, <4>2 DEF Fits, FileOK
        <4> QED BY <4>1, <4>2
      <3>8. q = (IF load THEN FlushBuffer(t, g1) ELSE << >>) BY <2>2, <2>4
      <3> HIDE DEF f, end, nsect, load, f1, f2, f3
      <3>9. Fits(view, g1) BY <3>1, <3>3, <3>7, AlikeFits DEF Fits, FileOK
      <3>10. PICK u : Runs(q, view, u, TRUE) /\ Fits(u, g1)
        <4>1. CASE load BY <3>8, <3>9, <4>1, BufferRuns
        <4>2. CASE ~ load
          <5>1. q = << >> BY <3>8, <4>2
          <5> QED BY <3>9, <5>1, RunsNone DEF Fits
        <4> QED BY <4>1, <4>2
      <3>11. Fits(u, g2) BY <3>5, <3>10, AlikeFits DEF Fits, FileOK
      <3>12. Fits(u, g3) BY <3>6, <3>11, AlikeFits DEF Fits, FileOK
      <3>13. PICK w : Runs(<<FilStep(t, g3)>>, u, w, TRUE) /\ Sane(w) BY <3>12, FilFits
      <3> QED BY <3>10, <3>13, RunsJoin
    <2>6. todo' = q \o <<FilStep(t, g3)>> BY <1>4, <2>3, <2>4
    <2>7. \A w : SeekStarted(op', w) BY <2>1 DEF SeekStarted
    <2>8. ~ renameCut => \E w : Runs(todo', view, w, TRUE) /\ Sane(w) /\ SeekStarted(op', w)
      BY <2>5, <2>6, <2>7
    <2> HIDE DEF f, chain, end, f1, nsect, load, f2, f3, flushed, next
    <2>9. UNCHANGED <<disk, fat, dir, fil, wflag, renameCut>> BY <1>1, <1>4
    <2>10. op'.kind # "rename" BY <2>1
    <2> QED BY <1>2, <2>1, <2>8, <2>9, <2>10, CallInv
  <1>5. CASE /\ ~ (op.left <= Units) /\ chain.clst = 0
             /\ todo' = chain.steps /\ op' = [op EXCEPT !.left = Units] /\ UNCHANGED fil
    <2>1. DOMAIN op' = DOMAIN op /\ op'.kind = "seek" /\ op'.task = t BY <1>1, <1>2, <1>5
    <2>2. op.left # 0 BY <1>5, FatAssumption
    <2>3. ASSUME ~ renameCut PROVE \E w : Runs(todo', view, w, TRUE) /\ Sane(w) /\ SeekStarted(op', w)
      <3>1. Sane(view) /\ Fits(view, f) /\ f.sclust # 0 BY <1>3, <2>2, <2>3
      <3>2. f.clust \in Starts BY <3>1 DEF Fits, FileOK
      <3>3. PICK w : Runs(chain.steps, view, w, TRUE) /\ Sane(w) /\ w.fil = fil BY <3>1, <3>2, CreateRuns
      <3> QED BY <1>5, <2>1, <3>1, <3>3 DEF SeekStarted
    <2>4. UNCHANGED <<disk, fat, dir, fil, wflag, renameCut>> BY <1>1, <1>5
    <2> HIDE DEF f, chain, end, f1, nsect, load, f2, f3, flushed, next
    <2>5. op'.kind # "rename" BY <2>1
    <2> QED BY <1>2, <2>1, <2>3, <2>4, <2>5, CallInv
  <1>6. CASE Abort(t)
    BY <1>1, <1>2, <1>6, AbortInv
  <1>7. CASE /\ ~ (op.left <= Units) /\ chain.clst # 0 /\ chain.clst # 1
             /\ todo' = chain.steps \o <<FilStep(t, next)>>
             /\ op' = [op EXCEPT !.left = @ - Units] /\ UNCHANGED fil
    <2>1. DOMAIN op' = DOMAIN op /\ op'.kind = "seek" /\ op'.task = t BY <1>1, <1>2, <1>7
    <2>2. op.left # 0 BY <1>7, FatAssumption
    <2>3. ASSUME ~ renameCut PROVE \E w : Runs(todo', view, w, TRUE) /\ Sane(w) /\ SeekStarted(op', w)
      <3>1. Sane(view) /\ Fits(view, f) /\ f.sclust # 0 BY <1>3, <2>2, <2>3
      <3>2. f.clust \in Starts BY <3>1 DEF Fits, FileOK
      <3>3. chain.clst \in Starts BY <1>7, <3>1, <3>2, CreateRuns DEF Starts
      <3>4. PICK u : Runs(chain.steps, view, u, TRUE) /\ Sane(u) /\ u.fil = fil BY <3>1, <3>2, CreateRuns
      <3>5. Fits(u, f) BY <3>4, FileFits
      <3>6. PICK g : g = next OBVIOUS
      <3>7. Alike(g, f) /\ g.clust = chain.clst BY <3>5, <3>6 DEF Alike, Fits, FileOK, Closed
      <3>8. todo' = chain.steps \o <<FilStep(t, g)>> BY <1>7, <3>6
      <3> HIDE DEF f, chain, end, f1, nsect, load, f2, f3, flushed, next
      <3>9. Fits(u, g) BY <3>1, <3>3, <3>5, <3>7, AlikeFits
      <3>10. PICK w : Runs(<<FilStep(t, g)>>, u, w, TRUE) /\ Sane(w) /\ Has(w, t, g) BY <3>9, FilFits
      <3>11. Runs(todo', view, w, TRUE) BY <3>4, <3>8, <3>10, RunsJoin
      <3>12. SeekStarted(op', w) BY <2>1, <3>1, <3>7, <3>10 DEF SeekStarted, Alike, Has
      <3> QED BY <3>10, <3>11, <3>12
    <2>4. UNCHANGED <<disk, fat, dir, fil, wflag, renameCut>> BY <1>1, <1>7
    <2> HIDE DEF f, chain, end, f1, nsect, load, f2, f3, flushed, next
    <2>5. op'.kind # "rename" BY <2>1
    <2> QED BY <1>2, <2>1, <2>3, <2>4, <2>5, CallInv
  <1> QED BY <1>1, <1>4, <1>5, <1>6, <1>7

\* The cluster that the next data goes to: the file then has a first one.
LEMMA AdvanceRuns ==
  ASSUME Sane(view), NEW t \in Tasks, NEW f, f = fil[t], NEW r,
         \/ r = CreateChain(f.clust) /\ f.fptr # 0
         \/ r.clst = f.sclust /\ r.steps = << >> /\ f.sclust # 0
         \/ r = CreateChain(0) /\ f.sclust = 0,
         r.clst # 0, r.clst # 1,
         NEW g, g = [f EXCEPT !.clust = r.clst, !.sclust = IF f.sclust = 0 THEN r.clst ELSE f.sclust]
  PROVE  /\ g.sclust # 0 /\ g.clust \in Starts /\ DOMAIN g = DOMAIN Closed
         /\ \E w : Runs(r.steps \o <<FilStep(t, g)>> \o FlushBuffer(t, g), view, w, TRUE) /\ Fits(w, g)
  <1>1. view.fat = fat /\ view.dir = dir /\ view.fil = fil BY DEF view
  <1>2. Fits(view, f) BY <1>1, FileFits
  <1>3. /\ DOMAIN g = DOMAIN Closed /\ g.name = f.name /\ g.clust = r.clst /\ g.fptr = f.fptr
        /\ g.sclust = IF f.sclust = 0 THEN r.clst ELSE f.sclust
    BY <1>2 DEF Fits, FileOK, Closed
  <1>4. g.sclust # 0 BY <1>3
  <1>5. r.clst \in Starts /\ \E u : Runs(r.steps, view, u, TRUE) /\ Fits(u, g)
    <2>1. CASE r = CreateChain(f.clust) /\ f.fptr # 0
      <3>1. f.clust \in Starts /\ f.sclust # 0 BY <1>2, <2>1 DEF Fits, FileOK
      <3>2. r.clst \in Starts BY <2>1, <3>1, CreateRuns DEF Starts
      <3>3. PICK u : Runs(r.steps, view, u, TRUE) /\ Sane(u) /\ u.fil = fil BY <2>1, <3>1, CreateRuns
      <3>4. Fits(u, f) BY <3>3, FileFits
      <3>5. Alike(g, f) BY <1>2, <1>3, <3>1 DEF Alike, Fits, FileOK
      <3>6. Fits(u, g) BY <1>3, <3>1, <3>2, <3>4, <3>5, AlikeFits
      <3> QED BY <3>2, <3>3, <3>6
    <2>2. CASE \/ r.clst = f.sclust /\ r.steps = << >> /\ f.sclust # 0
               \/ r = CreateChain(0) /\ f.sclust = 0
      <3>1. /\ r.clst \in Starts
            /\ \E w : /\ Runs(r.steps, view, w, TRUE) /\ Sane(w) /\ w.dir = dir /\ w.fil = fil
                      /\ Claimable(w, f.name, r.clst)
        BY <2>2, BeginRuns
      <3>2. PICK u : Runs(r.steps, view, u, TRUE) /\ Sane(u) /\ Claimable(u, f.name, r.clst) BY <3>1
      <3>3. g.sclust = r.clst BY <1>3, <2>2
      <3>4. Fits(u, g) BY <1>2, <1>3, <3>1, <3>2, <3>3 DEF Fits, FileOK
      <3> QED BY <3>1, <3>2, <3>4
    <2> QED BY <2>1, <2>2
  <1>6. PICK u : Runs(r.steps, view, u, TRUE) /\ Fits(u, g) BY <1>5
  <1>7. PICK v : Runs(<<FilStep(t, g)>>, u, v, TRUE) /\ Fits(v, g) BY <1>6, FilFits
  <1>8. PICK w : Runs(FlushBuffer(t, g), v, w, TRUE) /\ Fits(w, g) BY <1>7, BufferRuns
  <1>9. Runs(r.steps \o <<FilStep(t, g)>>, view, v, TRUE) BY <1>6, <1>7, RunsJoin
  <1>10. Runs((r.steps \o <<FilStep(t, g)>>) \o FlushBuffer(t, g), view, w, TRUE) BY <1>8, <1>9, RunsJoin
  <1> QED BY <1>3, <1>4, <1>5, <1>8, <1>10

\* The step that ends a turn of f_write(): the file is as it was but for its data.
LEMMA DataRuns ==
  ASSUME NEW v, NEW t \in Tasks, NEW f, Fits(v, f), f.sclust # 0, NEW g, Alike(g, f), g.clust \in Starts
  PROVE  \E w : Runs(<<FilStep(t, g)>>, v, w, TRUE) /\ Sane(w)
  <1>1. Fits(v, g) BY AlikeFits
  <1> QED BY <1>1, FilFits

LEMMA WriteOnInv == ASSUME FatIInv, NEW t \in Tasks, WriteOn(t) PROVE FatIInv'
  <1> DEFINE f == fil[t]
             boundary == f.fptr % Units = 0
             chain == IF ~ boundary THEN [clst |-> f.clust, steps |-> << >>]
                      ELSE IF f.fptr > 0 THEN CreateChain(f.clust)
                      ELSE IF f.sclust # 0 THEN [clst |-> f.sclust, steps |-> << >>]
                      ELSE CreateChain(0)
             c == chain.clst
             f1 == [f EXCEPT !.clust = c, !.sclust = IF @ = 0 THEN c ELSE @]
             f2 == [f1 EXCEPT !.dirty = FALSE]
             f3 == IF f.dsect = c THEN f2
                   ELSE [f2 EXCEPT !.dsect = c, !.buf = IF f.fptr < f.fsize THEN disk.data[c] ELSE @]
             at == (f.fptr % Units) + 1
             advance == IF boundary THEN chain.steps \o <<FilStep(t, f1)>> \o FlushBuffer(t, f1) ELSE << >>
             part(g) == [g EXCEPT !.buf[at] = t, !.dirty = TRUE, !.fptr = @ + 1, !.text = Put(@, f.fptr, 1, t)]
             whole == [f2 EXCEPT !.fptr = @ + Units, !.buf = IF f.dsect = c THEN [i \in 1 .. Units |-> t] ELSE @,
                                 !.text = Put(@, f.fptr, Units, t)]
             written == [f EXCEPT !.fsize = IF f.fptr > @ THEN f.fptr ELSE @, !.written = TRUE]
             full == [i \in 1 .. Units |-> t]
  <1>1. /\ op.task = t /\ op.kind = "write" /\ todo = << >>
        /\ UNCHANGED <<disk, fat, dir, wflag, renameCut>>
        /\ \/ /\ todo' = <<FilStep(t, written)>>
              /\ op' = [op EXCEPT !.kind = "last"] /\ UNCHANGED fil
           \/ Abort(t)
           \/ /\ boundary /\ c # 0 /\ c # 1
              /\ todo' = advance \o <<DataStep(c, full), FilStep(t, whole)>>
              /\ op' = [op EXCEPT !.left = @ - Units] /\ UNCHANGED fil
           \/ /\ c # 0 /\ c # 1
              /\ todo' = advance \o <<FilStep(t, part(IF boundary THEN f3 ELSE f))>>
              /\ op' = [op EXCEPT !.left = @ - 1] /\ UNCHANGED fil
    BY DEF WriteOn, window
  <1>2. op.kind # "rename" /\ DOMAIN op = {"task", "kind", "left"} BY <1>1 DEF FatIInv
  <1>3. ASSUME ~ renameCut PROVE Sane(view) /\ Fits(view, f) /\ DOMAIN f = DOMAIN Closed
    <2>1. Sane(view) BY <1>2, <1>3, ViewSane
    <2>2. Fits(view, f) BY <2>1, FileFits DEF view
    <2> QED BY <2>1, <2>2 DEF Fits, FileOK
  <1>4. CASE /\ todo' = <<FilStep(t, written)>>
             /\ op' = [op EXCEPT !.kind = "last"] /\ UNCHANGED fil
    <2>1. DOMAIN op' = DOMAIN op /\ op'.kind = "last" BY <1>2, <1>4
    <2>2. PICK g : g = written OBVIOUS
    <2>3. ASSUME ~ renameCut PROVE \E w : Runs(todo', view, w, TRUE) /\ Sane(w) /\ SeekStarted(op', w)
      <3>1. Fits(view, f) /\ DOMAIN f = DOMAIN Closed BY <1>3, <2>3
      <3>2. Alike(g, f) /\ g.clust = f.clust /\ g.fptr = f.fptr BY <2>2, <3>1 DEF Alike, Closed
      <3>3. todo' = <<FilStep(t, g)>> BY <1>4, <2>2
      <3> HIDE DEF f, written
      <3>4. Fits(view, g) BY <3>1, <3>2, AlikeFits DEF Fits, FileOK
      <3>5. PICK w : Runs(<<FilStep(t, g)>>, view, w, TRUE) /\ Sane(w) BY <3>4, FilFits
      <3> QED BY <2>1, <3>3, <3>5 DEF SeekStarted
    <2>4. UNCHANGED <<disk, fat, dir, fil, wflag, renameCut>> BY <1>1, <1>4
    <2> HIDE DEF f, boundary, chain, c, f1, f2, f3, at, advance, part, whole, written, full
    <2>5. op'.kind # "rename" BY <2>1
    <2> QED BY <1>2, <2>1, <2>3, <2>4, <2>5, CallInv
  <1>5. CASE Abort(t)
    <2> HIDE DEF f, boundary, chain, c, f1, f2, f3, at, advance, part, whole, written, full
    <2> QED BY <1>1, <1>2, <1>5, AbortInv
  <1>6. PICK r : r = chain OBVIOUS
  <1>7. PICK g1 : g1 = f1 OBVIOUS
  <1>8. PICK ahead : ahead = advance OBVIOUS
  <1>9. ASSUME ~ renameCut, boundary, c # 0, c # 1
        PROVE  /\ g1.sclust # 0 /\ g1.clust \in Starts /\ DOMAIN g1 = DOMAIN Closed
               /\ \E w : Runs(ahead, view, w, TRUE) /\ Fits(w, g1)
    <2>1. Sane(view) /\ DOMAIN f = DOMAIN Closed BY <1>3, <1>9
    <2>2. \/ r = CreateChain(f.clust) /\ f.fptr # 0
          \/ r.clst = f.sclust /\ r.steps = << >> /\ f.sclust # 0
          \/ r = CreateChain(0) /\ f.sclust = 0
      <3>1. f.fptr > 0 => f.fptr # 0 OBVIOUS
      <3> QED BY <1>6, <1>9, <3>1
    <2>3. r.clst # 0 /\ r.clst # 1 BY <1>6, <1>9
    <2>4. g1 = [f EXCEPT !.clust = r.clst, !.sclust = IF f.sclust = 0 THEN r.clst ELSE f.sclust]
      BY <1>6, <1>7, <2>1 DEF Closed
    <2>5. ahead = r.steps \o <<FilStep(t, g1)>> \o FlushBuffer(t, g1) BY <1>6, <1>7, <1>8, <1>9
    <2>6. PICK h : h = f OBVIOUS
    <2>7. h = fil[t] BY <2>6
    <2>8. \/ r = CreateChain(h.clust) /\ h.fptr # 0
          \/ r.clst = h.sclust /\ r.steps = << >> /\ h.sclust # 0
          \/ r = CreateChain(0) /\ h.sclust = 0
      BY <2>2, <2>6
    <2>9. g1 = [h EXCEPT !.clust = r.clst, !.sclust = IF h.sclust = 0 THEN r.clst ELSE h.sclust]
      BY <2>4, <2>6
    <2> HIDE DEF f, boundary, chain, c, f1, f2, f3, at, advance, part, whole, written, full
    <2> QED BY <2>1, <2>3, <2>5, <2>7, <2>8, <2>9, AdvanceRuns
  <1>10. CASE /\ boundary /\ c # 0 /\ c # 1
              /\ todo' = advance \o <<DataStep(c, full), FilStep(t, whole)>>
              /\ op' = [op EXCEPT !.left = @ - Units] /\ UNCHANGED fil
    <2>1. DOMAIN op' = DOMAIN op /\ op'.kind = "write" BY <1>1, <1>2, <1>10
    <2>2. PICK g : g = whole OBVIOUS
    <2>3. PICK d : d = DataStep(c, full) OBVIOUS
    <2>4. Quiet(d) BY <2>3, QuietSteps
    <2>5. ASSUME ~ renameCut PROVE \E w : Runs(todo', view, w, TRUE) /\ Sane(w) /\ SeekStarted(op', w)
      <3>1. PICK u : Runs(ahead, view, u, TRUE) /\ Fits(u, g1) BY <1>9, <1>10, <2>5
      <3>2. g1.sclust # 0 /\ g1.clust \in Starts /\ DOMAIN g1 = DOMAIN Closed BY <1>9, <1>10, <2>5
      <3>3. \E x, y : g = [[g1 EXCEPT !.dirty = FALSE] EXCEPT !.fptr = @ + Units, !.buf = x, !.text = y]
        BY <1>7, <2>2
      <3>4. todo' = ahead \o <<d, FilStep(t, g)>> BY <1>8, <1>10, <2>2, <2>3
      <3> HIDE DEF f, boundary, chain, c, f1, f2, f3, at, advance, part, whole, written, full
      <3>5. Alike(g, g1) /\ g.clust = g1.clust BY <3>2, <3>3 DEF Alike, Closed
      <3>6. PICK w : Runs(<<FilStep(t, g)>>, u, w, TRUE) /\ Sane(w) BY <3>1, <3>2, <3>5, DataRuns
      <3>7. Runs(<<d>>, u, u, TRUE) BY <2>4, <3>1, QuietRun DEF Fits
      <3>8. Runs(<<d>> \o <<FilStep(t, g)>>, u, w, TRUE) BY <3>6, <3>7, RunsJoin
      <3>9. <<d, FilStep(t, g)>> = <<d>> \o <<FilStep(t, g)>> BY TwoSteps
      <3>10. PICK q : q = <<d, FilStep(t, g)>> OBVIOUS
      <3>11. Runs(q, u, w, TRUE) BY ONLY <3>8, <3>9, <3>10
      <3>12. Runs(ahead \o q, view, w, TRUE) BY <3>1, <3>11, RunsJoin
      <3>13. todo' = ahead \o q BY <3>4, <3>10
      <3> QED BY <2>1, <3>6, <3>12, <3>13 DEF SeekStarted
    <2>6. UNCHANGED <<disk, fat, dir, fil, wflag, renameCut>> BY <1>1, <1>10
    <2> HIDE DEF f, boundary, chain, c, f1, f2, f3, at, advance, part, whole, written, full
    <2>7. op'.kind # "rename" BY <2>1
    <2> QED BY <1>2, <2>1, <2>5, <2>6, <2>7, CallInv
  <1>11. CASE /\ c # 0 /\ c # 1
              /\ todo' = advance \o <<FilStep(t, part(IF boundary THEN f3 ELSE f))>>
              /\ op' = [op EXCEPT !.left = @ - 1] /\ UNCHANGED fil
    <2>1. DOMAIN op' = DOMAIN op /\ op'.kind = "write" BY <1>1, <1>2, <1>11
    <2>a. PICK b : b = IF boundary THEN f3 ELSE f OBVIOUS
    <2>2. PICK g : g = part(b) OBVIOUS
    <2>3. todo' = ahead \o <<FilStep(t, g)>>
      <3> HIDE DEF f, boundary, chain, c, f1, f2, f3, at, advance, part, whole, written, full
      <3>1. todo' = advance \o <<FilStep(t, part(b))>> BY <1>11, <2>a
      <3> QED BY <1>8, <2>2, <3>1
    <2>b. \E x, y, z : g = [b EXCEPT !.buf = x, !.dirty = TRUE, !.fptr = z, !.text = y]
      <3>1. \E x : [b EXCEPT !.buf[at] = t, !.dirty = TRUE, !.fptr = @ + 1, !.text = Put(@, f.fptr, 1, t)]
                    = [b EXCEPT !.buf = x, !.dirty = TRUE, !.fptr = b.fptr + 1, !.text = Put(b.text, f.fptr, 1, t)]
        <4> HIDE DEF f, at
        <4>1. PICK x : x = [b.buf EXCEPT ![at] = t] OBVIOUS
        <4> QED BY <4>1
      <3> QED BY <2>2, <3>1
    <2>4. ASSUME ~ renameCut
          PROVE \E u, h : Runs(ahead, view, u, TRUE) /\ Fits(u, h) /\ h.sclust # 0 /\ Alike(g, h) /\ g.clust \in Starts
      <3>1. CASE boundary
        <4>1. PICK u : Runs(ahead, view, u, TRUE) /\ Fits(u, g1) BY <1>9, <1>11, <2>4, <3>1
        <4>2. g1.sclust # 0 /\ g1.clust \in Starts /\ DOMAIN g1 = DOMAIN Closed BY <1>9, <1>11, <2>4, <3>1
        <4>3. PICK g3 : g3 = f3 OBVIOUS
        <4>4. \E x, y : \/ g3 = [g1 EXCEPT !.dirty = FALSE]
                        \/ g3 = [[g1 EXCEPT !.dirty = FALSE] EXCEPT !.dsect = x, !.buf = y]
          BY <1>7, <4>3
        <4>5. \E x, y, z : g = [g3 EXCEPT !.buf = x, !.dirty = TRUE, !.fptr = z, !.text = y]
          <5>1. b = g3 BY <2>a, <3>1, <4>3
          <5> QED BY <2>b, <5>1
        <4> HIDE DEF f, boundary, chain, c, f1, f2, f3, at, advance, part, whole, written, full
        <4>6. Alike(g3, g1) /\ g3.clust = g1.clust BY <4>2, <4>4 DEF Alike, Closed
        <4>7. Alike(g, g3) /\ g.clust = g3.clust BY <4>2, <4>5, <4>6 DEF Alike, Closed
        <4>8. Alike(g, g1) BY <4>6, <4>7 DEF Alike
        <4> QED BY <4>1, <4>2, <4>6, <4>7, <4>8
      <3>2. CASE ~ boundary
        <4>1. Fits(view, f) /\ Sane(view) /\ DOMAIN f = DOMAIN Closed BY <1>3, <2>4
        <4>2. ahead = << >> BY <1>8, <3>2
        <4>3. f.fptr # 0
          <5>1. (0 % Units) = 0 BY FatAssumption, SMTT(30)
          <5> QED BY <3>2, <5>1
        <4>4. f.sclust # 0 /\ f.clust \in Starts BY <4>1, <4>3 DEF Fits, FileOK
        <4>5. \E x, y, z : g = [f EXCEPT !.buf = x, !.dirty = TRUE, !.fptr = z, !.text = y]
          <5>1. b = f BY <2>a, <3>2
          <5> QED BY <2>b, <5>1
        <4> HIDE DEF f, boundary, chain, c, f1, f2, f3, at, advance, part, whole, written, full
        <4>6. Alike(g, f) /\ g.clust = f.clust BY <4>1, <4>5 DEF Alike, Closed
        <4>7. Runs(ahead, view, view, TRUE) BY <4>1, <4>2, RunsNone
        <4> QED BY <4>1, <4>4, <4>6, <4>7
      <3> QED BY <3>1, <3>2
    <2>5. ASSUME ~ renameCut PROVE \E w : Runs(todo', view, w, TRUE) /\ Sane(w) /\ SeekStarted(op', w)
      <3> HIDE DEF f, boundary, chain, c, f1, f2, f3, at, advance, part, whole, written, full
      <3>1. PICK u, h : Runs(ahead, view, u, TRUE) /\ Fits(u, h) /\ h.sclust # 0 /\ Alike(g, h) /\ g.clust \in Starts
        BY <2>4, <2>5
      <3>2. PICK w : Runs(<<FilStep(t, g)>>, u, w, TRUE) /\ Sane(w) BY <3>1, DataRuns
      <3>3. Runs(todo', view, w, TRUE) BY <2>3, <3>1, <3>2, RunsJoin
      <3> QED BY <2>1, <3>2, <3>3 DEF SeekStarted
    <2>6. UNCHANGED <<disk, fat, dir, fil, wflag, renameCut>> BY <1>1, <1>11
    <2> HIDE DEF f, boundary, chain, c, f1, f2, f3, at, advance, part, whole, written, full
    <2>7. op'.kind # "rename" BY <2>1
    <2> QED BY <1>2, <2>1, <2>5, <2>6, <2>7, CallInv
  <1> QED BY <1>1, <1>4, <1>5, <1>10, <1>11

-----------------------------------------------------------------------------
(* The theorem.                                                            *)

LEMMA FatInitInv == FatInit => FatIInv
  <1> SUFFICES ASSUME FatInit PROVE FatIInv OBVIOUS
  <1>1. /\ disk \in Volumes /\ fat = disk.fat /\ dir = disk.dir /\ wflag = FALSE
        /\ fil = [t \in Tasks |-> Closed] /\ op = NoOp /\ todo = << >> /\ renameCut = FALSE
    BY DEF FatInit
  <1>2. Consistent(disk) BY <1>1, FatAssumption
  <1>3. view = onDisk BY <1>1 DEF view, onDisk
  <1>4. PICK v : v = onDisk OBVIOUS
  <1>5. /\ v.fat = disk.fat /\ v.dir = disk.dir /\ v = [fat |-> v.fat, dir |-> v.dir, fil |-> v.fil]
        /\ DOMAIN v.fil = Tasks /\ \A t \in Tasks : v.fil[t] = Closed
    BY <1>4 DEF onDisk
  <1>6. Shape(v)
    <2>1. \A n \in Names : disk.dir[n] # None => disk.dir[n].clust \in Starts
      BY <1>2 DEF Consistent, Entries, Starts
    <2> QED BY <1>2, <1>5, <2>1, ClosedFile DEF Shape, Consistent
  <1>7. ASSUME NEW n \in Owners, NEW s \in Clusters, Claims(v, n, s)
        PROVE  n \in Names /\ disk.dir[n] # None /\ disk.dir[n].clust = s /\ s # 0
    BY <1>5, <1>7, ClosedFile, ClusterNumbers DEF Claims
  <1>8. ASSUME NEW s \in Clusters, NEW n \in Owners, Claims(v, n, s)
        PROVE  Alone(v.fat, s) /\ \A m \in Owners : Claims(v, m, s) => m = n
    <2>1. n \in Names /\ disk.dir[n] # None /\ disk.dir[n].clust = s /\ s # 0 BY <1>7, <1>8
    <2>2. /\ Alone(disk.fat, s)
          /\ \A m \in Names \ {n} : disk.dir[m] # None => disk.dir[m].clust # s
      BY <1>2, <2>1 DEF Consistent
    <2> QED BY <1>5, <1>7, <2>2
  <1>9. Sane(v) BY <1>2, <1>5, <1>6, <1>8 DEF Sane, Apart, Consistent
  <1>10. op.kind = "none" /\ DOMAIN op = {"task", "kind", "left"} BY <1>1 DEF NoOp
  <1>11. Runs(todo, view, v, op.kind # "rename") BY <1>1, <1>3, <1>4, <1>9, RunsNone
  <1>12. Pending BY <1>9, <1>10, <1>11 DEF Pending, SeekStarted
  <1>13. DOMAIN disk = {"fat", "dir", "data"} BY <1>2 DEF Consistent
  <1> QED BY <1>1, <1>4, <1>9, <1>10, <1>12, <1>13 DEF FatIInv

LEMMA FatNextInv == ASSUME Exclusive, FatIInv, [FatNext]_fatVars PROVE FatIInv'
  <1>1. CASE WriteBack BY <1>1, WriteBackInv
  <1>2. CASE TakeStep BY <1>2, TakeStepInv
  <1>3. CASE Leave BY <1>3, LeaveInv
  <1>4. CASE DiskError BY <1>4, DiskErrorInv
  <1>5. CASE PowerLoss BY <1>5, PowerLossInv
  <1>6. ASSUME NEW t \in Tasks, WriteOn(t) PROVE FatIInv' BY <1>6, WriteOnInv
  <1>7. ASSUME NEW t \in Tasks, SeekOn(t) PROVE FatIInv' BY <1>7, SeekOnInv
  <1>8. ASSUME NEW t \in Tasks, f_sync(t) PROVE FatIInv' BY <1>8, SyncInv
  <1>9. ASSUME NEW t \in Tasks, f_close(t) PROVE FatIInv' BY <1>9, CloseInv
  <1>10. ASSUME NEW t \in Tasks, NEW k \in Lengths, f_write(t, k) PROVE FatIInv' BY <1>10, WriteInv
  <1>11. ASSUME NEW t \in Tasks, NEW g \in Gaps, f_lseek(t, g) PROVE FatIInv' BY <1>11, LseekInv
  <1>12. ASSUME NEW t \in Tasks, NEW n \in Names, f_unlink(t, n) PROVE FatIInv' BY <1>12, UnlinkInv
  <1>13. ASSUME NEW t \in Tasks, NEW n \in Names, NEW keep \in BOOLEAN, f_open(t, n, keep) PROVE FatIInv'
    BY <1>13, OpenInv
  <1>14. ASSUME NEW t \in Tasks, NEW old \in Names, NEW new \in Names, f_rename(t, old, new) PROVE FatIInv'
    BY <1>14, RenameInv
  <1>15. CASE UNCHANGED fatVars
    <2>1. /\ view' = view /\ onDisk' = onDisk
          /\ UNCHANGED <<disk, fat, dir, wflag, op, todo, renameCut>>
      BY <1>15 DEF fatVars, window, view, onDisk
    <2> QED BY <2>1 DEF FatIInv, Pending
  <1> QED
    BY <1>1, <1>2, <1>3, <1>4, <1>5, <1>6, <1>7, <1>8, <1>9, <1>10, <1>11, <1>12, <1>13, <1>14, <1>15
    DEF FatNext

LEMMA SaneOwned ==
  ASSUME FatIInv PROVE NoCrossLink
  <1> SUFFICES ASSUME op.kind # "rename", ~ renameCut, NEW n \in Names
               PROVE  /\ \A c \in Owned(n) : disk.fat[c] # 0
                      /\ \A m \in Names \ {n} : Owned(n) \cap Owned(m) = {}
    BY DEF NoCrossLink
  <1>1. PICK table : table = disk.fat OBVIOUS
  <1>2. PICK v : v = onDisk OBVIOUS
  <1>3. Sane(v) /\ v.fat = table /\ v.dir = disk.dir BY <1>1, <1>2 DEF FatIInv, onDisk
  <1>4. Linked(table) BY <1>3 DEF Sane
  <1>5. ASSUME NEW k \in Names, NEW c, c \in Owned(k)
        PROVE  /\ disk.dir[k].clust \in Clusters /\ Alone(table, disk.dir[k].clust)
               /\ Claims(v, k, disk.dir[k].clust)
               /\ \E q : Path(table, disk.dir[k].clust, q) /\ Owned(k) = {q[i] : i \in 1 .. Len(q)}
    <2>1. disk.dir[k] # None BY <1>5 DEF Owned
    <2>2. PICK q : q = Chain(table, disk.dir[k].clust) OBVIOUS
    <2>3. Path(table, disk.dir[k].clust, q) BY <2>2, ChainPath
    <2>4. q \in Seq(Clusters) BY <2>3 DEF Path
    <2>5. Owned(k) = {q[i] : i \in 1 .. Len(q)} BY <1>1, <2>1, <2>2, <2>4 DEF Owned, ToSet
    <2>6. q # << >>
      <3>1. PICK i : i \in 1 .. Len(q) BY <1>5, <2>5
      <3> QED BY <2>4, <3>1
    <2>7. disk.dir[k].clust \in Clusters BY <2>3, <2>6 DEF Path
    <2>8. Claims(v, k, disk.dir[k].clust) /\ k \in Owners BY <1>3, <2>1 DEF Claims, Owners
    <2>9. Alone(table, disk.dir[k].clust) BY <1>3, <2>7, <2>8 DEF Sane, Apart
    <2> QED BY <2>3, <2>5, <2>7, <2>8, <2>9
  <1>6. ASSUME NEW c \in Owned(n) PROVE disk.fat[c] # 0
    <2>1. PICK s \in Clusters : s = disk.dir[n].clust /\ Alone(table, s) BY <1>5, <1>6
    <2>2. PICK q : Path(table, s, q) /\ Owned(n) = {q[i] : i \in 1 .. Len(q)} BY <1>5, <1>6, <2>1
    <2>3. PICK i \in 1 .. Len(q) : c = q[i] BY <1>6, <2>2
    <2> QED BY <1>1, <1>4, <2>1, <2>2, <2>3, ChainUsed
  <1>7. ASSUME NEW m \in Names \ {n}, NEW c \in Owned(n), c \in Owned(m) PROVE FALSE
    <2>1. PICK s \in Clusters : s = disk.dir[n].clust /\ Alone(table, s) /\ Claims(v, n, s) BY <1>5, <1>7
    <2>2. PICK r \in Clusters : r = disk.dir[m].clust /\ Alone(table, r) /\ Claims(v, m, r) BY <1>5, <1>7
    <2>3. PICK p : Path(table, s, p) /\ Owned(n) = {p[i] : i \in 1 .. Len(p)} BY <1>5, <1>7, <2>1
    <2>4. PICK q : Path(table, r, q) /\ Owned(m) = {q[i] : i \in 1 .. Len(q)} BY <1>5, <1>7, <2>2
    <2>5. s # r
      <3>1. n \in Owners /\ m \in Owners /\ m # n BY DEF Owners
      <3> QED BY <1>3, <2>1, <2>2, <3>1 DEF Sane, Apart
    <2>6. PICK i \in 1 .. Len(p) : c = p[i] BY <1>7, <2>3
    <2>7. PICK j \in 1 .. Len(q) : c = q[j] BY <1>7, <2>4
    <2>8. \A x \in 1 .. Len(p), y \in 1 .. Len(q) : p[x] # q[y]
      BY <1>4, <2>1, <2>2, <2>3, <2>4, <2>5, ChainsDisjoint
    <2> QED BY <2>6, <2>7, <2>8
  <1> QED BY <1>6, <1>7

\* Whenever the power goes between two writes of sectors, no cluster belongs to two
\* files of the disk and none of a file's is free: for every number of clusters, every
\* layout of the table and the directory over the sectors, any tasks and names, and
\* any consistent disk at the start, if nobody opens, renames or removes an open file.
\* (NoCrossLink leaves out a rename that is under way or was cut short.)
THEOREM FilesStayApart == ASSUME Exclusive PROVE FatSpec => []NoCrossLink
  <1>1. FatInit => FatIInv BY FatInitInv
  <1>2. FatIInv /\ [FatNext]_fatVars => FatIInv' BY FatNextInv
  <1>3. FatIInv => NoCrossLink BY SaneOwned
  <1> QED BY <1>1, <1>2, <1>3, PTL DEF FatSpec

-----------------------------------------------------------------------------
(* Where a unit of a file is.                                              *)

At(i) == (i - 1) \div Units + 1
In(i) == ((i - 1) % Units) + 1

LEMMA Division ==
  ASSUME NEW m \in Nat
  PROVE  /\ m \div Units \in Nat /\ (m % Units) \in 0 .. Units - 1
         /\ m = Units * (m \div Units) + (m % Units)
  BY FatAssumption, SMTT(30)

LEMMA UnitsTimes ==
  ASSUME NEW a \in Nat, NEW b \in Nat, a <= b
  PROVE  Units * a \in Nat /\ Units * (a + 1) = Units * a + Units /\ Units * a <= Units * b
  <1>1. Units \in Nat BY FatAssumption
  <1>2. PICK c \in Nat : b = a + c
    <2>1. b - a \in Nat /\ b = a + (b - a) OBVIOUS
    <2> QED BY <2>1
  <1>3. Units * a \in Nat /\ Units * c \in Nat BY <1>1
  <1>4. Units * (a + c) = Units * a + Units * c BY <1>1
  <1>5. Units * (a + 1) = Units * a + Units BY <1>1
  <1> QED BY <1>2, <1>3, <1>4, <1>5

\* A number is a quotient and a remainder in one way.
LEMMA Quotient ==
  ASSUME NEW q \in Nat, NEW r \in 0 .. Units - 1
  PROVE  (Units * q + r) \div Units = q /\ ((Units * q + r) % Units) = r
  BY FatAssumption, SMTT(30)

LEMMA Place ==
  ASSUME NEW i \in Nat \ {0}
  PROVE  /\ At(i) \in Nat \ {0} /\ In(i) \in 1 .. Units
         /\ i = Units * (At(i) - 1) + In(i)
         /\ \A n \in Nat : i <= Units * n => At(i) <= n
         /\ \A n \in Nat : i > Units * n => At(i) > n
  <1>1. i - 1 \in Nat OBVIOUS
  <1>2. PICK q : q = (i - 1) \div Units OBVIOUS
  <1>3. PICK r : r = ((i - 1) % Units) OBVIOUS
  <1>4. q \in Nat /\ r \in 0 .. Units - 1 /\ i - 1 = Units * q + r BY <1>1, <1>2, <1>3, Division
  <1>5. Units \in Nat \ {0} BY FatAssumption
  <1>6. At(i) = q + 1 /\ In(i) = r + 1 BY <1>2, <1>3 DEF At, In
  <1>7. ASSUME NEW n \in Nat, i <= Units * n PROVE q + 1 <= n
    <2>1. Units * q < Units * n BY <1>4, <1>5, <1>7
    <2> QED BY <1>4, <1>5, <2>1
  <1>8. ASSUME NEW n \in Nat, i > Units * n PROVE q + 1 > n
    <2>1. CASE q + 1 <= n
      <3>1. Units * (q + 1) <= Units * n BY <1>4, <1>5, <2>1
      <3>2. Units * (q + 1) = Units * q + Units BY <1>4, <1>5
      <3> QED BY <1>4, <1>5, <1>8, <3>1, <3>2
    <2> QED BY <1>4, <2>1
  <1> QED BY <1>4, <1>5, <1>6, <1>7, <1>8

-----------------------------------------------------------------------------
(* Walks along the links of a table.                                       *)

\* Clusters from c on, as the table links them, none of them twice.
Walk(table, c, p) ==
    /\ p \in Seq(Clusters)
    /\ p # << >> => p[1] = c
    /\ \A i \in 1 .. Len(p) - 1 : table[p[i]] = p[i + 1]
    /\ \A i, j \in 1 .. Len(p) : p[i] = p[j] => i = j

LEMMA WalkLength ==
  ASSUME NEW table, NEW c, NEW p, Walk(table, c, p)
  PROVE  /\ Len(p) \in Nat /\ (p = << >> <=> Len(p) = 0)
         /\ \A i \in 1 .. Len(p) : p[i] \in Clusters
         /\ \A i \in 1 .. Len(p) : i + 1 \in 1 .. Len(p) => table[p[i]] = p[i + 1]
         /\ Len(p) # 0 => p[1] = c /\ c \in Clusters
  <1>1. p \in Seq(Clusters) BY DEF Walk
  <1>2. Len(p) \in Nat /\ (p = << >> <=> Len(p) = 0) /\ \A i \in 1 .. Len(p) : p[i] \in Clusters BY <1>1
  <1>3. ASSUME NEW i \in 1 .. Len(p), i + 1 \in 1 .. Len(p) PROVE table[p[i]] = p[i + 1]
    <2>1. i \in 1 .. Len(p) - 1 BY <1>2, <1>3
    <2> QED BY <2>1 DEF Walk
  <1>4. Len(p) # 0 => p[1] = c /\ 1 \in 1 .. Len(p) BY <1>2 DEF Walk
  <1> QED BY <1>2, <1>3, <1>4

\* Two walks from one cluster agree.
LEMMA WalksAgree ==
  ASSUME NEW table, NEW c, NEW p, Walk(table, c, p), NEW q, Walk(table, c, q),
         NEW i \in 1 .. Len(p), i \in 1 .. Len(q)
  PROVE  p[i] = q[i]
  <1> DEFINE S == {k \in Nat : k + 1 \in 1 .. Len(p) /\ k + 1 \in 1 .. Len(q) => p[k + 1] = q[k + 1]}
  <1>1. 0 \in S
    <2>1. ASSUME 0 + 1 \in 1 .. Len(p), 0 + 1 \in 1 .. Len(q) PROVE p[0 + 1] = q[0 + 1]
      <3>1. p[1] = c BY <2>1, WalkLength
      <3>2. q[1] = c BY <2>1, WalkLength
      <3> QED BY <3>1, <3>2
    <2> QED BY <2>1
  <1>2. ASSUME NEW k \in Nat, k \in S PROVE k + 1 \in S
    <2>1. ASSUME (k + 1) + 1 \in 1 .. Len(p), (k + 1) + 1 \in 1 .. Len(q) PROVE p[(k + 1) + 1] = q[(k + 1) + 1]
      <3>1. k + 1 \in 1 .. Len(p) BY <2>1, WalkLength
      <3>2. k + 1 \in 1 .. Len(q) BY <2>1, WalkLength
      <3>3. table[p[k + 1]] = p[(k + 1) + 1] BY <2>1, <3>1, WalkLength
      <3>4. table[q[k + 1]] = q[(k + 1) + 1] BY <2>1, <3>2, WalkLength
      <3> QED BY <1>2, <3>1, <3>2, <3>3, <3>4
    <2> QED BY <2>1
  <1> HIDE DEF S
  <1>3. Nat \subseteq S BY <1>1, <1>2, FatInduct
  <1>4. i - 1 \in Nat /\ (i - 1) + 1 = i OBVIOUS
  <1> QED BY <1>3, <1>4 DEF S

\* The links from a cluster that nothing links to lead to different clusters.
LEMMA PathWalk ==
  ASSUME NEW table, Linked(table), NEW c, c \in Clusters => Alone(table, c), NEW p \in Seq(Clusters),
         p # << >> => p[1] = c, \A i \in 1 .. Len(p) - 1 : table[p[i]] = p[i + 1]
  PROVE  Walk(table, c, p)
  <1>0. Len(p) \in Nat /\ (p = << >> <=> Len(p) = 0) /\ \A i \in 1 .. Len(p) : p[i] \in Clusters OBVIOUS
  <1> DEFINE S == {k \in Nat : k + 1 \in 1 .. Len(p) =>
                      \A j \in 1 .. Len(p) : p[k + 1] = p[j] => k + 1 = j}
  <1>1. ASSUME NEW i \in 1 .. Len(p), i # 1
        PROVE  i - 1 \in 1 .. Len(p) /\ table[p[i - 1]] = p[i]
    <2>1. i - 1 \in 1 .. Len(p) - 1 /\ (i - 1) + 1 = i BY <1>0, <1>1
    <2> QED BY <1>0, <2>1
  <1>2. ASSUME NEW i \in 1 .. Len(p), p[i] = c PROVE i = 1
    <2>1. CASE i # 1
      <3>1. i - 1 \in 1 .. Len(p) /\ table[p[i - 1]] = c BY <1>1, <1>2, <2>1
      <3>2. c \in Clusters /\ p[i - 1] \in Clusters BY <1>0, <1>2, <3>1
      <3> QED BY <3>1, <3>2 DEF Alone
    <2> QED BY <2>1
  <1>3. 0 \in S
    <2>1. ASSUME 0 + 1 \in 1 .. Len(p), NEW j \in 1 .. Len(p), p[0 + 1] = p[j] PROVE 0 + 1 = j
      <3>1. p[1] = c BY <1>0, <2>1
      <3>2. p[j] = c BY <2>1, <3>1
      <3> QED BY <1>2, <3>2
    <2> QED BY <2>1
  <1>4. ASSUME NEW k \in Nat, k \in S PROVE k + 1 \in S
    <2>1. ASSUME (k + 1) + 1 \in 1 .. Len(p), NEW j \in 1 .. Len(p), p[(k + 1) + 1] = p[j] PROVE (k + 1) + 1 = j
      <3>1. (k + 1) + 1 # 1 /\ ((k + 1) + 1) - 1 = k + 1 /\ k + 1 \in 1 .. Len(p) BY <1>0, <2>1
      <3>2. table[p[k + 1]] = p[(k + 1) + 1]
        <4>1. table[p[((k + 1) + 1) - 1]] = p[(k + 1) + 1] BY <1>1, <2>1, <3>1
        <4> QED BY <3>1, <4>1
      <3>3. p[(k + 1) + 1] # c BY <1>2, <2>1, <3>1
      <3>4. j # 1 BY <1>0, <2>1, <3>3
      <3>5. j - 1 \in 1 .. Len(p) /\ table[p[j - 1]] = p[j] BY <1>1, <3>4
      <3>6. p[k + 1] = p[j - 1]
        <4>1. p[k + 1] \in Clusters /\ p[j - 1] \in Clusters /\ p[j] \in Clusters BY <1>0, <3>1, <3>5
        <4> QED BY <2>1, <3>2, <3>5, <4>1 DEF Linked
      <3>7. k + 1 = j - 1 BY <1>4, <3>1, <3>5, <3>6
      <3> QED BY <3>7
    <2> QED BY <2>1
  <1> HIDE DEF S
  <1>5. Nat \subseteq S BY <1>3, <1>4, FatInduct
  <1>6. ASSUME NEW i \in 1 .. Len(p), NEW j \in 1 .. Len(p), p[i] = p[j] PROVE i = j
    <2>1. i - 1 \in Nat /\ (i - 1) + 1 = i OBVIOUS
    <2>2. i - 1 \in S BY <1>5, <2>1
    <2> QED BY <1>6, <2>1, <2>2 DEF S
  <1> QED BY <1>6 DEF Walk

LEMMA WalksApart ==
  ASSUME NEW table, Linked(table), NEW s, s \in Clusters => Alone(table, s),
         NEW r, r \in Clusters => Alone(table, r), s # r,
         NEW p, Walk(table, s, p), NEW q, Walk(table, r, q),
         NEW i \in 1 .. Len(p), NEW j \in 1 .. Len(q)
  PROVE  p[i] # q[j]
  <1>1. Len(p) # 0 /\ p \in Seq(Clusters) /\ p # << >> /\ s \in Clusters BY WalkLength DEF Walk
  <1>2. Len(q) # 0 /\ q \in Seq(Clusters) /\ q # << >> /\ r \in Clusters BY WalkLength DEF Walk
  <1>3. Path(table, s, p) BY <1>1 DEF Walk, Path
  <1>4. Path(table, r, q) BY <1>2 DEF Walk, Path
  <1> QED BY <1>1, <1>2, <1>3, <1>4, ChainsDisjoint

\* A walk goes on to the next cluster.
LEMMA WalkOn ==
  ASSUME NEW table, Linked(table), NEW c \in Clusters, Alone(table, c), NEW p, Walk(table, c, p), p # << >>,
         NEW d \in Clusters, table[p[Len(p)]] = d
  PROVE  /\ Walk(table, c, Append(p, d)) /\ Len(Append(p, d)) = Len(p) + 1
         /\ \A i \in 1 .. Len(p) : Append(p, d)[i] = p[i]
         /\ Append(p, d)[Len(p) + 1] = d
  <1>1. p \in Seq(Clusters) /\ p[1] = c BY DEF Walk
  <1>2. Len(p) \in Nat \ {0} BY <1>1
  <1>3. PICK q : q = Append(p, d) OBVIOUS
  <1>4. /\ q \in Seq(Clusters) /\ Len(q) = Len(p) + 1 /\ q[Len(p) + 1] = d
        /\ \A i \in 1 .. Len(p) : q[i] = p[i]
    BY <1>1, <1>3
  <1>5. q # << >> /\ q[1] = c BY <1>1, <1>2, <1>4
  <1>6. ASSUME NEW i \in 1 .. Len(q) - 1 PROVE table[q[i]] = q[i + 1]
    <2>1. i \in 1 .. Len(p) BY <1>2, <1>4
    <2>2. CASE i = Len(p) BY <1>4, <2>1, <2>2
    <2>3. CASE i # Len(p)
      <3>1. i + 1 \in 1 .. Len(p) BY <1>2, <2>1, <2>3
      <3>2. table[p[i]] = p[i + 1] BY <2>1, <3>1, WalkLength
      <3> QED BY <1>4, <2>1, <3>1, <3>2
    <2> QED BY <2>2, <2>3
  <1>7. Walk(table, c, q) BY <1>4, <1>5, <1>6, PathWalk
  <1> QED BY <1>3, <1>4, <1>7

LEMMA EmptyWalk == ASSUME NEW table, NEW c PROVE Walk(table, c, << >>) /\ Len(<< >>) = 0
  <1>1. PICK p : p = << >> OBVIOUS
  <1>2. p \in Seq(Clusters) /\ Len(p) = 0 BY <1>1
  <1>3. Walk(table, c, p) BY <1>1, <1>2 DEF Walk
  <1> QED BY <1>1, <1>2, <1>3

LEMMA FirstWalk ==
  ASSUME NEW table, NEW c \in Clusters PROVE Walk(table, c, <<c>>) /\ Len(<<c>>) = 1 /\ <<c>>[1] = c
  <1>1. PICK p : p = <<c>> OBVIOUS
  <1>2. p \in Seq(Clusters) /\ Len(p) = 1 /\ p[1] = c BY <1>1
  <1>3. Walk(table, c, p) BY <1>2 DEF Walk
  <1> QED BY <1>1, <1>2, <1>3

\* A table that has the links of another has its walks.
LEMMA WalkKept ==
  ASSUME NEW table, NEW c, NEW p, Walk(table, c, p), NEW other,
         \A i \in 1 .. Len(p) : table[p[i]] \in Clusters => other[p[i]] = table[p[i]]
  PROVE  Walk(other, c, p)
  <1>1. ASSUME NEW i \in 1 .. Len(p) - 1 PROVE other[p[i]] = p[i + 1]
    <2>1. i \in 1 .. Len(p) /\ i + 1 \in 1 .. Len(p) BY WalkLength
    <2>2. table[p[i]] = p[i + 1] /\ p[i + 1] \in Clusters BY <2>1, WalkLength
    <2> QED BY <2>1, <2>2
  <1> QED BY <1>1 DEF Walk

LEMMA ClustersCount == IsFiniteSet(Clusters) /\ Cardinality(Clusters) = Size
  <1>1. Size \in Nat /\ Size # 0 BY FatAssumption
  <1>2. IsFiniteSet(2 .. Size + 1) /\ Cardinality(2 .. Size + 1) = Size
    <2>1. 2 \in Int /\ Size + 1 \in Int BY <1>1
    <2>2. IsFiniteSet(2 .. Size + 1) /\ Cardinality(2 .. Size + 1) = IF 2 > Size + 1 THEN 0 ELSE (Size + 1) - 2 + 1
      BY <2>1, FS_Interval
    <2> QED BY <1>1, <2>2
  <1> QED BY <1>2 DEF Clusters

\* There are no more clusters on a walk than the volume has.
LEMMA WalkShort == ASSUME NEW table, NEW c, NEW p, Walk(table, c, p) PROVE Len(p) <= Size
  <1>1. Len(p) \in Nat /\ Size \in Nat BY WalkLength, FatAssumption
  <1>2. ASSUME Size < Len(p) PROVE FALSE
    <2>1. PICK S : S = 1 .. Len(p) OBVIOUS
    <2>2. IsFiniteSet(S) /\ Cardinality(S) = Len(p)
      <3>1. 1 \in Int /\ Len(p) \in Int BY <1>1
      <3>2. IsFiniteSet(1 .. Len(p)) /\ Cardinality(1 .. Len(p)) = IF 1 > Len(p) THEN 0 ELSE Len(p) - 1 + 1
        BY <3>1, FS_Interval
      <3> QED BY <1>1, <2>1, <3>2
    <2> DEFINE f == [i \in S |-> p[i]]
    <2>3. f \in [S -> Clusters] /\ \A i \in S : f[i] = p[i]
      <3>1. \A i \in S : p[i] \in Clusters BY <2>1, WalkLength
      <3> QED BY <3>1
    <2> HIDE DEF f
    <2>4. \E x, y \in S : x # y /\ f[x] = f[y]
      BY <1>2, <2>2, <2>3, ClustersCount, FS_PigeonHole
    <2> QED BY <2>1, <2>3, <2>4 DEF Walk
  <1> QED BY <1>1, <1>2

\* Chain goes on as long as there are links.
LEMMA ChainWhole ==
  ASSUME NEW table, NEW c \in Clusters
  PROVE  LET q == Chain(table, c)
         IN  /\ q \in Seq(Clusters) /\ Len(q) \in Nat \ {0}
             /\ Len(q) = Size + 1 \/ table[q[Len(q)]] \notin Clusters
  <1>0. Size \in Nat BY FatAssumption
  <1> DEFINE walk == CHOOSE g : g = [i \in 0 .. Size |->
                        IF i = 0 THEN IF c \in Clusters THEN <<c>> ELSE << >>
                        ELSE Longer(table, g[i - 1], i)]
  <1>1. \E g : Walked(table, c, Size, g) BY <1>0, WalkExists
  <1>2. walk = [i \in 0 .. Size |-> IF i = 0 THEN IF c \in Clusters THEN <<c>> ELSE << >>
                                    ELSE Longer(table, walk[i - 1], i)]
    BY <1>1 DEF Walked, Base
  <1>3. Chain(table, c) = walk[Size]
    BY DEF Chain
  <1> HIDE DEF walk
  <1> DEFINE Whole(q, k) == /\ q \in Seq(Clusters) /\ Len(q) \in Nat \ {0}
                            /\ Len(q) = k + 1 \/ table[q[Len(q)]] \notin Clusters
             S == {k \in Nat : k <= Size => Whole(walk[k], k)}
  <1>4. 0 \in S
    <2>1. walk[0] = <<c>> BY <1>0, <1>2
    <2>2. PICK y : y = <<c>> OBVIOUS
    <2>3. y \in Seq(Clusters) /\ Len(y) = 1 BY <2>2
    <2>4. Whole(y, 0) BY <2>3
    <2> QED BY <2>1, <2>2, <2>4
  <1>5. ASSUME NEW k \in Nat, k \in S PROVE k + 1 \in S
    <2>1. CASE k + 1 <= Size
      <3>1. k + 1 \in 0 .. Size /\ k + 1 # 0 /\ (k + 1) - 1 = k /\ k <= Size BY <1>0, <2>1
      <3>2. walk[k + 1] = Longer(table, walk[k], k + 1) BY <1>2, <3>1
      <3>3. PICK q : q = walk[k] OBVIOUS
      <3>4. Whole(q, k) BY <1>5, <3>1, <3>3
      <3>5. q # << >> /\ Last(q) = q[Len(q)] BY <3>4 DEF Last
      <3>6. PICK next : next = table[q[Len(q)]] OBVIOUS
      <3>7. Longer(table, q, k + 1) = IF next \in Clusters /\ Len(q) = k + 1 THEN Append(q, next) ELSE q
        BY <3>5, <3>6 DEF Longer
      <3>8. CASE next \in Clusters /\ Len(q) = k + 1
        <4>1. Append(q, next) \in Seq(Clusters) /\ Len(Append(q, next)) = (k + 1) + 1 BY <3>4, <3>8
        <4> QED BY <3>2, <3>3, <3>7, <3>8, <4>1
      <3>9. CASE ~ (next \in Clusters /\ Len(q) = k + 1)
        <4>1. table[q[Len(q)]] \notin Clusters BY <3>4, <3>6, <3>9
        <4> QED BY <3>2, <3>3, <3>4, <3>7, <3>9, <4>1
      <3> QED BY <3>8, <3>9
    <2>2. CASE ~ (k + 1 <= Size) BY <2>2
    <2> QED BY <2>1, <2>2
  <1>6. Size \in S
    <2> HIDE DEF S
    <2> QED BY <1>0, <1>4, <1>5, FatInduct
  <1>7. Whole(walk[Size], Size) BY <1>0, <1>6
  <1> QED BY <1>3, <1>7

\* A walk is the beginning of the chain.
LEMMA WalkInChain ==
  ASSUME NEW table, NEW c, NEW p, Walk(table, c, p)
  PROVE  /\ Len(Chain(table, c)) \in Nat /\ Len(p) <= Len(Chain(table, c))
         /\ \A i \in 1 .. Len(p) : Chain(table, c)[i] = p[i]
  <1>1. PICK q : q = Chain(table, c) OBVIOUS
  <1>2. Path(table, c, q) BY <1>1, ChainPath
  <1>3. q \in Seq(Clusters) /\ Len(q) \in Nat /\ Len(p) \in Nat BY <1>2, WalkLength DEF Path
  <1> DEFINE S == {k \in Nat : k + 1 \in 1 .. Len(p) => k + 1 \in 1 .. Len(q) /\ q[k + 1] = p[k + 1]}
  <1>4. 0 \in S
    <2>1. ASSUME 0 + 1 \in 1 .. Len(p) PROVE 0 + 1 \in 1 .. Len(q) /\ q[0 + 1] = p[0 + 1]
      <3>1. p[1] = c /\ c \in Clusters BY <2>1, WalkLength
      <3>2. q # << >> /\ q[1] = c BY <1>2, <3>1 DEF Path
      <3> QED BY <1>3, <3>1, <3>2
    <2> QED BY <2>1
  <1>5. ASSUME NEW k \in Nat, k \in S PROVE k + 1 \in S
    <2>1. ASSUME (k + 1) + 1 \in 1 .. Len(p)
          PROVE  (k + 1) + 1 \in 1 .. Len(q) /\ q[(k + 1) + 1] = p[(k + 1) + 1]
      <3>1. k + 1 \in 1 .. Len(p) BY <2>1, WalkLength
      <3>2. k + 1 \in 1 .. Len(q) /\ q[k + 1] = p[k + 1] BY <1>5, <3>1
      <3>3. table[p[k + 1]] = p[(k + 1) + 1] BY <2>1, <3>1, WalkLength
      <3>4. p[(k + 1) + 1] \in Clusters BY <2>1, WalkLength
      <3>5. k + 1 # Len(q)
        <4>1. ASSUME k + 1 = Len(q) PROVE FALSE
          <5>1. c \in Clusters BY <3>1, WalkLength
          <5>2. Len(q) = Size + 1 \/ table[q[Len(q)]] \notin Clusters BY <1>1, <5>1, ChainWhole
          <5>3. Len(q) = Size + 1 BY <3>2, <3>3, <3>4, <4>1, <5>2
          <5>4. Len(p) <= Size BY WalkShort
          <5>5. Size \in Nat BY FatAssumption
          <5> QED BY <1>3, <2>1, <4>1, <5>3, <5>4, <5>5
        <4> QED BY <4>1
      <3>6. k + 1 \in 1 .. Len(q) - 1 /\ (k + 1) + 1 \in 1 .. Len(q) BY <1>3, <3>2, <3>5
      <3>7. table[q[k + 1]] = q[(k + 1) + 1] BY <1>2, <3>6 DEF Path
      <3> QED BY <3>2, <3>3, <3>6, <3>7
    <2> QED BY <2>1
  <1> HIDE DEF S
  <1>6. Nat \subseteq S BY <1>4, <1>5, FatInduct
  <1>7. ASSUME NEW i \in 1 .. Len(p) PROVE i \in 1 .. Len(q) /\ q[i] = p[i]
    <2>1. i - 1 \in Nat /\ (i - 1) + 1 = i OBVIOUS
    <2>2. i - 1 \in S BY <1>6, <2>1
    <2> QED BY <2>1, <2>2 DEF S
  <1>8. Len(p) <= Len(q)
    <2>1. CASE Len(p) = 0 BY <1>3, <2>1
    <2>2. CASE Len(p) # 0
      <3>1. Len(p) \in 1 .. Len(p) BY <1>3, <2>2
      <3> QED BY <1>3, <1>7, <3>1
    <2> QED BY <2>1, <2>2
  <1> QED BY <1>1, <1>3, <1>7, <1>8

-----------------------------------------------------------------------------
(* The volume with its data and what is saved, and what holds of it.       *)

Now == [fat |-> fat, dir |-> dir, fil |-> fil, data |-> disk.data, saved |-> saved]
Plain(V) == [fat |-> V.fat, dir |-> V.dir, fil |-> V.fil]

Take(V, s) ==
    [fat |-> IF s.do = "fat" THEN [V.fat EXCEPT ![s.clst] = s.val] ELSE V.fat,
     dir |-> IF s.do = "dir" THEN [V.dir EXCEPT ![s.name] = s.entry] ELSE V.dir,
     fil |-> IF s.do = "fil" THEN [V.fil EXCEPT ![s.task] = s.file] ELSE V.fil,
     data |-> IF s.do = "data" THEN [V.data EXCEPT ![s.clst] = s.val] ELSE V.data,
     saved |-> IF s.do = "saved" THEN [V.saved EXCEPT ![s.name] = s.text] ELSE V.saved]

LEMMA PlainTake == ASSUME NEW V, NEW s PROVE Plain(Take(V, s)) = Exec(Plain(V), s)
  BY DEF Plain, Take, Exec

\* The text is what the clusters of a walk hold, where it is known.
Match(text, p, data) ==
    \A i \in 1 .. Len(text) : text[i] \in {Unknown, data[p[At(i)]][In(i)]}

\* The data with the buffer of an open file.
Sectors(data, f) == IF f.dirty THEN [data EXCEPT ![f.dsect] = f.buf] ELSE data

Formed(V) ==
    /\ V = [fat |-> V.fat, dir |-> V.dir, fil |-> V.fil, data |-> V.data, saved |-> V.saved]
    /\ DOMAIN V.fat = Clusters /\ DOMAIN V.dir = Names /\ DOMAIN V.fil = Tasks /\ DOMAIN V.saved = Names
    /\ DOMAIN V.data = Clusters /\ \A c \in Clusters : DOMAIN V.data[c] = 1 .. Units

\* The walk p has all that is saved under the name n.
Holds(V, n, p) ==
    /\ Walk(V.fat, V.dir[n].clust, p)
    /\ Len(V.saved[n]) <= Units * Len(p)
    /\ Match(V.saved[n], p, V.data)

StoreOf(V, n) ==
    /\ V.dir[n] # None =>
          /\ V.dir[n].size \in Nat
          /\ \E p : Walk(V.fat, V.dir[n].clust, p) /\ V.dir[n].size <= Units * Len(p)
    /\ V.saved[n] # None =>
          /\ IsList(V.saved[n]) /\ V.dir[n] # None /\ Len(V.saved[n]) <= V.dir[n].size
          /\ \E p : Holds(V, n, p)

\* An open file and the walk it has: its text is on the disk but for its buffer.
Fine(V, f, p) ==
    /\ Walk(V.fat, f.sclust, p)
    /\ f.fsize \in Nat /\ f.fptr \in Nat /\ IsList(f.text)
    /\ f.fsize <= Len(f.text) /\ Len(f.text) <= Units * Len(p)
    /\ Len(f.text) <= f.fsize \/ Len(f.text) <= f.fptr
    /\ Match(f.text, p, Sectors(V.data, f))
    /\ f.dsect # 0 => \E i \in 1 .. Len(p) : p[i] = f.dsect
    /\ f.dirty => f.dsect # 0
    /\ ~ f.dirty /\ f.dsect # 0 => f.buf = V.data[f.dsect]
    /\ DOMAIN f.buf = 1 .. Units
    /\ f.name \in Names /\ V.dir[f.name] # None
    /\ V.dir[f.name].clust \in {0, f.sclust} /\ V.dir[f.name].size <= f.fsize
    /\ (V.saved[f.name] # None =>
           \A i \in 1 .. Len(V.saved[f.name]) : V.saved[f.name][i] \in {Unknown, f.text[i]})

\* The file pointer, the current cluster and the sector in the buffer.
Placed(f, p) ==
    /\ f.fptr <= Units * Len(p)
    /\ f.fptr > 0 => f.clust = p[At(f.fptr)]
    /\ (f.fptr % Units) # 0 => f.dsect = f.clust

Rest(f, p) == ~ f.err => Placed(f, p) /\ f.fptr <= f.fsize

\* The call o moves the pointer of the task's file.
Busy(o, t) == t = o.task /\ o.kind \in {"write", "seek", "last"}

Sole(V, t) == \A u \in Tasks : u # t => V.fil[u].name # V.fil[t].name

\* In a step that only follows on the one before, the file of the call may lag (late).
FileOf(V, o, t, late) ==
    V.fil[t].name # None =>
        /\ Sole(V, t)
        /\ Busy(o, t) => late \/ \E p : Fine(V, V.fil[t], p)
        /\ ~ Busy(o, t) => \E p : Fine(V, V.fil[t], p) /\ Rest(V.fil[t], p)

Safe(V, o, late) ==
    /\ Formed(V)
    /\ \A n \in Names : StoreOf(V, n)
    /\ \A t \in Tasks : FileOf(V, o, t, late)

\* What is saved stays where it is.
KeptOf(V, W, n) ==
    W.saved[n] # None /\ W.saved[n] = V.saved[n] => \A p : Holds(V, n, p) => Holds(W, n, p)
Kept(V, W) == \A n \in Names : KeptOf(V, W, n)

LEMMA LateSafe == ASSUME NEW V, NEW o, Safe(V, o, FALSE), NEW late PROVE Safe(V, o, late)
  BY DEF Safe, FileOf

\* Data of other clusters may change.
LEMMA MatchSame ==
  ASSUME NEW table, NEW c, NEW p, Walk(table, c, p), NEW text, IsList(text), Len(text) <= Units * Len(p),
         NEW data, Match(text, p, data), NEW other, \A i \in 1 .. Len(p) : other[p[i]] = data[p[i]]
  PROVE  Match(text, p, other)
  <1>1. ASSUME NEW i \in 1 .. Len(text) PROVE text[i] \in {Unknown, other[p[At(i)]][In(i)]}
    <2>1. i \in Nat \ {0} /\ Len(text) \in Nat BY ListLength
    <2>2. Len(p) \in Nat BY WalkLength
    <2>3. Units \in Nat BY FatAssumption
    <2>4. i <= Units * Len(p)
      <3>1. Units * Len(p) \in Nat BY <2>2, <2>3
      <3> QED BY <2>1, <3>1
    <2>5. At(i) \in 1 .. Len(p) BY <2>1, <2>2, <2>4, Place
    <2> QED BY <2>5 DEF Match
  <1> QED BY <1>1 DEF Match

LEMMA StoreFrame ==
  ASSUME NEW V, NEW W, NEW n \in Names, StoreOf(V, n), W.dir[n] = V.dir[n], W.saved[n] = V.saved[n],
         \A p : V.dir[n] # None /\ Walk(V.fat, V.dir[n].clust, p) =>
                   Walk(W.fat, V.dir[n].clust, p) /\ \A i \in 1 .. Len(p) : W.data[p[i]] = V.data[p[i]]
  PROVE  StoreOf(W, n) /\ KeptOf(V, W, n)
  <1>1. ASSUME V.saved[n] # None, NEW p, Holds(V, n, p) PROVE Holds(W, n, p)
    <2>1. V.dir[n] # None /\ IsList(V.saved[n]) BY <1>1 DEF StoreOf
    <2>2. Walk(V.fat, V.dir[n].clust, p) /\ Len(V.saved[n]) <= Units * Len(p) /\ Match(V.saved[n], p, V.data)
      BY <1>1 DEF Holds
    <2>3. Match(V.saved[n], p, W.data) BY <2>1, <2>2, MatchSame
    <2> QED BY <2>1, <2>2, <2>3 DEF Holds
  <1>2. StoreOf(W, n) BY <1>1 DEF StoreOf
  <1> QED BY <1>1, <1>2 DEF KeptOf

LEMMA SectorsSame ==
  ASSUME NEW V, NEW W, Formed(V), Formed(W), NEW f, NEW c \in Clusters, W.data[c] = V.data[c],
         f.dirty => f.dsect \in Clusters
  PROVE  Sectors(W.data, f)[c] = Sectors(V.data, f)[c]
  <1>1. CASE f.dirty
    <2>1. Sectors(W.data, f) = [W.data EXCEPT ![f.dsect] = f.buf] BY <1>1 DEF Sectors
    <2>2. Sectors(V.data, f) = [V.data EXCEPT ![f.dsect] = f.buf] BY <1>1 DEF Sectors
    <2> QED BY <2>1, <2>2 DEF Formed
  <1>2. CASE ~ f.dirty BY <1>2 DEF Sectors
  <1> QED BY <1>1, <1>2

LEMMA FineFrame ==
  ASSUME NEW V, NEW W, Formed(V), Formed(W), NEW f, NEW p, Fine(V, f, p), Walk(W.fat, f.sclust, p),
         W.dir[f.name] = V.dir[f.name], W.saved[f.name] \in {None, V.saved[f.name]},
         \A i \in 1 .. Len(p) : W.data[p[i]] = V.data[p[i]]
  PROVE  Fine(W, f, p)
  <1>1. f.dsect # 0 => f.dsect \in Clusters /\ W.data[f.dsect] = V.data[f.dsect]
    <2>1. Walk(V.fat, f.sclust, p) BY DEF Fine
    <2>2. \A i \in 1 .. Len(p) : p[i] \in Clusters BY <2>1, WalkLength
    <2> QED BY <2>2 DEF Fine
  <1>2. f.dirty => f.dsect \in Clusters BY <1>1 DEF Fine
  <1>3. \A i \in 1 .. Len(p) : p[i] \in Clusters BY WalkLength
  <1>4. \A i \in 1 .. Len(p) : Sectors(W.data, f)[p[i]] = Sectors(V.data, f)[p[i]]
    BY <1>2, <1>3, SectorsSame
  <1>5. Match(f.text, p, Sectors(W.data, f)) BY <1>4, MatchSame DEF Fine
  <1> QED BY <1>1, <1>5 DEF Fine

-----------------------------------------------------------------------------
(* Steps that lead from one such volume to another.                        *)

\* A step that changes a file may lag behind the one before it.
Lags(list, i) == i < Len(list) /\ list[i + 1].do = "fil"

Traced(tr, list, V, W, o) ==
    /\ tr[0] = V /\ tr[Len(list)] = W
    /\ \A i \in 1 .. Len(list) : tr[i] = Take(tr[i - 1], list[i]) /\ Kept(tr[i - 1], tr[i])
    /\ \A i \in 0 .. Len(list) : Safe(tr[i], o, Lags(list, i))
Leads(list, V, W, o) == IsList(list) /\ \E tr : Traced(tr, list, V, W, o)

LEMMA LeadsNone == ASSUME NEW V, NEW o, Safe(V, o, FALSE) PROVE Leads(<< >>, V, V, o)
  <1> DEFINE tr == [i \in {0} |-> V]
  <1>1. tr[0] = V OBVIOUS
  <1> HIDE DEF tr
  <1>2. Safe(V, o, Lags(<< >>, 0)) BY LateSafe
  <1>3. Traced(tr, << >>, V, V, o) BY <1>1, <1>2, NoList DEF Traced
  <1> QED BY <1>3, NoList DEF Leads

LEMMA LeadsOne ==
  ASSUME NEW V, NEW o, Safe(V, o, FALSE), NEW s, NEW W, W = Take(V, s), Safe(W, o, FALSE), Kept(V, W)
  PROVE  Leads(<<s>>, V, W, o)
  <1> DEFINE tr == [i \in {0, 1} |-> IF i = 0 THEN V ELSE W]
  <1>1. tr[0] = V /\ tr[1] = W OBVIOUS
  <1> HIDE DEF tr
  <1>2. \A i \in 1 .. 1 : i = 1 /\ i - 1 = 0 OBVIOUS
  <1>3. \A i \in 0 .. 1 : i = 0 \/ i = 1 OBVIOUS
  <1>4. Safe(V, o, Lags(<<s>>, 0)) /\ Safe(W, o, Lags(<<s>>, 1)) BY LateSafe
  <1>5. \A i \in 0 .. 1 : Safe(tr[i], o, Lags(<<s>>, i)) BY <1>1, <1>3, <1>4
  <1>6. Traced(tr, <<s>>, V, W, o) BY <1>1, <1>2, <1>5, OneList DEF Traced
  <1> QED BY <1>6, OneList DEF Leads

\* A step on the data and the one on the file that follows it.
LEMMA LeadsTwo ==
  ASSUME NEW V, NEW o, Safe(V, o, FALSE), NEW a, NEW U, U = Take(V, a), Safe(U, o, TRUE), Kept(V, U),
         NEW b, b.do = "fil", NEW W, W = Take(U, b), Safe(W, o, FALSE), Kept(U, W)
  PROVE  Leads(<<a, b>>, V, W, o)
  <1> DEFINE tr == [i \in {0, 1, 2} |-> IF i = 0 THEN V ELSE IF i = 1 THEN U ELSE W]
  <1>1. tr[0] = V /\ tr[1] = U /\ tr[2] = W OBVIOUS
  <1> HIDE DEF tr
  <1>2. \A i \in 1 .. 2 : i = 1 \/ i = 2 OBVIOUS
  <1>3. \A i \in 0 .. 2 : i = 0 \/ i = 1 \/ i = 2 OBVIOUS
  <1>4. PICK q : q = <<a, b>> OBVIOUS
  <1>5. q \in Seq({a, b}) /\ Len(q) = 2 /\ q[1] = a /\ q[2] = b BY <1>4
  <1>6. IsList(q) BY <1>5 DEF IsList
  <1>7. Lags(q, 1)
    <2>1. 1 < Len(q) /\ 1 + 1 = 2 BY <1>5
    <2> QED BY <1>5, <2>1 DEF Lags
  <1>8. Safe(V, o, Lags(q, 0)) /\ Safe(W, o, Lags(q, 2)) BY LateSafe
  <1>9. Safe(U, o, Lags(q, 1)) BY <1>7 DEF Safe, FileOf
  <1>10. \A i \in 0 .. 2 : Safe(tr[i], o, Lags(q, i)) BY <1>1, <1>3, <1>8, <1>9
  <1>11. \A i \in 1 .. 2 : tr[i] = Take(tr[i - 1], q[i]) /\ Kept(tr[i - 1], tr[i])
    <2>1. 1 - 1 = 0 /\ 2 - 1 = 1 OBVIOUS
    <2> QED BY <1>1, <1>2, <1>5, <2>1
  <1>12. Traced(tr, q, V, W, o) BY <1>1, <1>5, <1>10, <1>11 DEF Traced
  <1> QED BY <1>4, <1>6, <1>12 DEF Leads

LEMMA LeadsJoin ==
  ASSUME NEW q, NEW r, NEW U, NEW V, NEW W, NEW o, Leads(q, U, V, o), Leads(r, V, W, o)
  PROVE  Leads(q \o r, U, W, o)
  <1>1. PICK a : Traced(a, q, U, V, o) BY DEF Leads
  <1>2. PICK b : Traced(b, r, V, W, o) BY DEF Leads
  <1> DEFINE m == Len(q)
             n == Len(r)
             tr == [i \in 0 .. m + n |-> IF i <= m THEN a[i] ELSE b[i - m]]
  <1>3. IsList(q) /\ IsList(r) BY DEF Leads
  <1>4. /\ IsList(q \o r) /\ m \in Nat /\ n \in Nat /\ Len(q \o r) = m + n
        /\ \A i \in 1 .. m : (q \o r)[i] = q[i]
        /\ \A i \in 1 .. m + n : i > m => (q \o r)[i] = r[i - m]
    BY <1>3, JoinList
  <1> HIDE DEF m, n
  <1>5. /\ \A i \in 0 .. m + n : i <= m => tr[i] = a[i]
        /\ \A i \in 0 .. m + n : i >= m => tr[i] = b[i - m]
    <2>1. a[m] = V /\ b[0] = V BY <1>1, <1>2 DEF Traced, m
    <2>2. \A i \in 0 .. m + n : i <= m => tr[i] = a[i] BY <1>4
    <2>3. ASSUME NEW i \in 0 .. m + n, i > m PROVE tr[i] = b[i - m] BY <1>4, <2>3
    <2>4. m - m = 0 BY <1>4
    <2> HIDE DEF tr
    <2>5. ASSUME NEW i \in 0 .. m + n, i >= m PROVE tr[i] = b[i - m]
      <3>1. CASE i > m BY <2>3, <3>1
      <3>2. CASE i = m BY <2>1, <2>2, <2>4, <3>2, <1>4
      <3> QED BY <3>1, <3>2, <2>5, <1>4
    <2> QED BY <2>2, <2>5
  <1> HIDE DEF tr
  <1>6. tr[0] = U
    <2>1. 0 \in 0 .. m + n /\ 0 <= m BY <1>4
    <2> QED BY <1>1, <1>5, <2>1 DEF Traced
  <1>7. tr[m + n] = W
    <2>1. m + n \in 0 .. m + n /\ m + n >= m /\ (m + n) - m = n BY <1>4
    <2> QED BY <1>2, <1>5, <2>1 DEF Traced, n
  <1>8. ASSUME NEW i \in 1 .. m + n
        PROVE  tr[i] = Take(tr[i - 1], (q \o r)[i]) /\ Kept(tr[i - 1], tr[i])
    <2>0. i \in 0 .. m + n /\ i - 1 \in 0 .. m + n BY <1>4
    <2>1. CASE i <= m
      <3>1. i \in 1 .. m /\ i - 1 <= m BY <1>4, <2>1
      <3> QED BY <1>1, <1>4, <1>5, <2>0, <2>1, <3>1 DEF Traced, m
    <2>2. CASE i > m
      <3>1. i - m \in 1 .. n /\ i - 1 >= m /\ (i - 1) - m = (i - m) - 1 /\ i >= m BY <1>4, <2>2
      <3>2. b[i - m] = Take(b[(i - m) - 1], r[i - m]) /\ Kept(b[(i - m) - 1], b[i - m])
        BY <1>2, <3>1 DEF Traced, n
      <3>3. tr[i] = b[i - m] /\ tr[i - 1] = b[(i - m) - 1] BY <1>5, <2>0, <3>1
      <3> QED BY <1>4, <2>2, <3>2, <3>3
    <2> QED BY <1>4, <2>1, <2>2
  <1>9. ASSUME NEW i \in 0 .. m + n PROVE Safe(tr[i], o, Lags(q \o r, i))
    <2>1. CASE i < m
      <3>1. i \in 0 .. m /\ i + 1 \in 1 .. m BY <1>4, <2>1
      <3>2. Safe(a[i], o, Lags(q, i)) BY <1>1, <3>1 DEF Traced, m
      <3>3. Lags(q, i) => Lags(q \o r, i)
        <4>1. i < m + n /\ (q \o r)[i + 1] = q[i + 1] BY <1>4, <2>1, <3>1
        <4> QED BY <1>4, <4>1 DEF Lags
      <3>4. tr[i] = a[i] BY <1>4, <1>5, <2>1
      <3> QED BY <3>2, <3>3, <3>4 DEF Safe, FileOf
    <2>2. CASE i >= m
      <3>1. i - m \in 0 .. n BY <1>4, <2>2
      <3>2. Safe(b[i - m], o, Lags(r, i - m)) BY <1>2, <3>1 DEF Traced, n
      <3>3. Lags(r, i - m) => Lags(q \o r, i)
        <4>1. ASSUME Lags(r, i - m) PROVE Lags(q \o r, i)
          <5>1. i - m < n /\ r[(i - m) + 1].do = "fil" BY <4>1 DEF Lags, n
          <5>2. i + 1 \in 1 .. m + n /\ i + 1 > m /\ (i + 1) - m = (i - m) + 1 /\ i < m + n BY <1>4, <2>2, <5>1
          <5>3. (q \o r)[i + 1] = r[(i - m) + 1] BY <1>4, <5>2
          <5> QED BY <1>4, <5>1, <5>2, <5>3 DEF Lags
        <4> QED BY <4>1
      <3>4. tr[i] = b[i - m] BY <1>4, <1>5, <2>2
      <3> QED BY <3>2, <3>3, <3>4 DEF Safe, FileOf
    <2> QED BY <1>4, <2>1, <2>2
  <1>10. Traced(tr, q \o r, U, W, o) BY <1>4, <1>6, <1>7, <1>8, <1>9 DEF Traced
  <1> QED BY <1>4, <1>10 DEF Leads

LEMMA LeadsTail ==
  ASSUME NEW q, NEW V, NEW W, NEW o, Leads(q, V, W, o), q # << >>
  PROVE  Leads(Tail(q), Take(V, Head(q)), W, o) /\ Kept(V, Take(V, Head(q)))
  <1>1. PICK a : Traced(a, q, V, W, o) BY DEF Leads
  <1>2. IsList(q) BY DEF Leads
  <1> DEFINE n == Len(q) - 1
             tr == [i \in 0 .. n |-> a[i + 1]]
  <1>3. /\ IsList(Tail(q)) /\ n \in Nat /\ Len(q) = n + 1 /\ Len(Tail(q)) = n /\ Head(q) = q[1]
        /\ \A i \in 1 .. n : Tail(q)[i] = q[i + 1]
    BY <1>2, TailList
  <1>4. \A i \in 0 .. n : tr[i] = a[i + 1] OBVIOUS
  <1> HIDE DEF n, tr
  <1>5. tr[0] = Take(V, Head(q)) /\ Kept(V, tr[0])
    <2>1. 0 \in 0 .. n /\ 1 \in 1 .. n + 1 /\ 1 - 1 = 0 /\ 0 + 1 = 1 BY <1>3
    <2>2. a[1] = Take(a[0], q[1]) /\ Kept(a[0], a[1]) BY <1>1, <1>3, <2>1 DEF Traced
    <2> QED BY <1>1, <1>3, <1>4, <2>1, <2>2 DEF Traced
  <1>6. tr[n] = W
    <2>1. n \in 0 .. n BY <1>3
    <2> QED BY <1>1, <1>3, <1>4, <2>1 DEF Traced
  <1>7. ASSUME NEW i \in 1 .. n PROVE tr[i] = Take(tr[i - 1], Tail(q)[i]) /\ Kept(tr[i - 1], tr[i])
    <2>1. i \in 0 .. n /\ i - 1 \in 0 .. n /\ i + 1 \in 1 .. n + 1 /\ (i + 1) - 1 = i /\ (i - 1) + 1 = i
      BY <1>3
    <2>2. a[i + 1] = Take(a[(i + 1) - 1], q[i + 1]) /\ Kept(a[(i + 1) - 1], a[i + 1])
      BY <1>1, <1>3, <2>1 DEF Traced
    <2>3. tr[i] = a[i + 1] /\ tr[i - 1] = a[i] BY <1>4, <2>1
    <2> QED BY <1>3, <2>1, <2>2, <2>3
  <1>8. ASSUME NEW i \in 0 .. n PROVE Safe(tr[i], o, Lags(Tail(q), i))
    <2>1. i + 1 \in 0 .. n + 1 BY <1>3
    <2>2. Safe(a[i + 1], o, Lags(q, i + 1)) BY <1>1, <1>3, <2>1 DEF Traced
    <2>3. Lags(q, i + 1) => Lags(Tail(q), i)
      <3>1. ASSUME Lags(q, i + 1) PROVE Lags(Tail(q), i)
        <4>1. i + 1 < n + 1 /\ q[(i + 1) + 1].do = "fil" BY <1>3, <3>1 DEF Lags
        <4>2. i < n /\ i + 1 \in 1 .. n BY <1>3, <4>1
        <4>3. Tail(q)[i + 1] = q[(i + 1) + 1] BY <1>3, <4>2
        <4> QED BY <1>3, <4>1, <4>2, <4>3 DEF Lags
      <3> QED BY <3>1
    <2>4. tr[i] = a[i + 1] BY <1>4
    <2> QED BY <2>2, <2>3, <2>4 DEF Safe, FileOf
  <1>9. Traced(tr, Tail(q), Take(V, Head(q)), W, o) BY <1>3, <1>5, <1>6, <1>7, <1>8 DEF Traced
  <1> QED BY <1>3, <1>5, <1>9 DEF Leads

LEMMA LeadsStart ==
  ASSUME NEW q, NEW V, NEW W, NEW o, Leads(q, V, W, o)
  PROVE  /\ Safe(W, o, FALSE) /\ Safe(V, o, q # << >> /\ Head(q).do = "fil")
         /\ q = << >> => V = W
  <1>1. PICK a : Traced(a, q, V, W, o) BY DEF Leads
  <1>2. IsList(q) BY DEF Leads
  <1>3. Len(q) \in Nat /\ (q = << >> <=> Len(q) = 0) BY <1>2, ListLength
  <1>4. Safe(W, o, FALSE)
    <2>1. Safe(W, o, Lags(q, Len(q)))
      <3>1. Len(q) \in 0 .. Len(q) BY <1>3
      <3> QED BY <1>1, <3>1 DEF Traced
    <2>2. ~ Lags(q, Len(q)) BY <1>3 DEF Lags
    <2> QED BY <2>1, <2>2 DEF Safe, FileOf
  <1>5. Safe(V, o, q # << >> /\ Head(q).do = "fil")
    <2>1. Safe(V, o, Lags(q, 0))
      <3>1. 0 \in 0 .. Len(q) BY <1>3
      <3> QED BY <1>1, <3>1 DEF Traced
    <2>2. Lags(q, 0) => q # << >> /\ Head(q).do = "fil"
      <3>1. q # << >> => Head(q) = q[1] BY <1>2, TailList
      <3>2. Lags(q, 0) => 0 < Len(q) /\ q[1].do = "fil"
        <4>1. 0 + 1 = 1 OBVIOUS
        <4> QED BY <4>1 DEF Lags
      <3> QED BY <1>3, <3>1, <3>2
    <2> QED BY <2>1, <2>2 DEF Safe, FileOf
  <1>6. q = << >> => V = W BY <1>1, <1>3 DEF Traced
  <1> QED BY <1>4, <1>5, <1>6

LEMMA KeptSelf == ASSUME NEW V PROVE Kept(V, V)
  BY DEF Kept, KeptOf

LEMMA TakeStill == ASSUME NEW V, Formed(V), NEW s, Still(s) PROVE Take(V, s) = V
  BY DEF Take, Still, Formed

LEMMA LeadsStill ==
  ASSUME NEW V, NEW o, Safe(V, o, FALSE), NEW q, StillList(q) PROVE Leads(q, V, V, o)
  <1>1. IsList(q) /\ \A i \in 1 .. Len(q) : Still(q[i]) BY DEF StillList
  <1>2. Len(q) \in Nat BY <1>1, ListLength
  <1> DEFINE tr == [i \in 0 .. Len(q) |-> V]
  <1>3. \A i \in 0 .. Len(q) : tr[i] = V OBVIOUS
  <1> HIDE DEF tr
  <1>4. ASSUME NEW i \in 1 .. Len(q) PROVE tr[i] = Take(tr[i - 1], q[i]) /\ Kept(tr[i - 1], tr[i])
    <2>1. i \in 0 .. Len(q) /\ i - 1 \in 0 .. Len(q) BY <1>2
    <2>2. Take(V, q[i]) = V BY <1>1, TakeStill DEF Safe
    <2> QED BY <1>3, <2>1, <2>2, KeptSelf
  <1>5. \A i \in 0 .. Len(q) : Safe(tr[i], o, Lags(q, i)) BY <1>3, LateSafe
  <1>6. 0 \in 0 .. Len(q) /\ Len(q) \in 0 .. Len(q) BY <1>2
  <1>7. Traced(tr, q, V, V, o) BY <1>3, <1>4, <1>5, <1>6 DEF Traced
  <1> QED BY <1>1, <1>7 DEF Leads

-----------------------------------------------------------------------------
(* Steps on the table.                                                     *)

\* The calls start from such a volume, and lead to one.
Sound(V, o) == Safe(V, o, FALSE) /\ Sane(Plain(V))

Refat(V, table) == [fat |-> table, dir |-> V.dir, fil |-> V.fil, data |-> V.data, saved |-> V.saved]

\* Another table that has the walks from where files start.
Carries(V, table) ==
    \A c : ~ Unclaimed(Plain(V), c) => \A p : Walk(V.fat, c, p) => Walk(table, c, p)

LEMMA ClaimedByEntry ==
  ASSUME NEW V, NEW n \in Names, V.dir[n] # None PROVE Claims(Plain(V), n, V.dir[n].clust) /\ ~ Unclaimed(Plain(V), V.dir[n].clust)
  BY DEF Claims, Unclaimed, Plain, Owners

LEMMA ClaimedByFile ==
  ASSUME NEW V, NEW t \in Tasks, V.fil[t].name \in Names
  PROVE  Claims(Plain(V), V.fil[t].name, V.fil[t].sclust) /\ ~ Unclaimed(Plain(V), V.fil[t].sclust)
  BY DEF Claims, Unclaimed, Plain, Owners

LEMMA RelinkSafe ==
  ASSUME NEW V, NEW o, Safe(V, o, FALSE), NEW table, DOMAIN table = Clusters, Carries(V, table),
         NEW W, W = Refat(V, table)
  PROVE  Safe(W, o, FALSE) /\ Kept(V, W)
  <1>0. W.fat = table /\ W.dir = V.dir /\ W.fil = V.fil /\ W.data = V.data /\ W.saved = V.saved BY DEF Refat
  <1>1. Formed(V) /\ Formed(W)
    <2>1. Formed(V) BY DEF Safe
    <2>2. W = [fat |-> W.fat, dir |-> W.dir, fil |-> W.fil, data |-> W.data, saved |-> W.saved] BY DEF Refat
    <2> QED BY <1>0, <2>1, <2>2 DEF Formed
  <1>2. ASSUME NEW n \in Names PROVE StoreOf(W, n) /\ KeptOf(V, W, n)
    <2>1. ASSUME NEW p, V.dir[n] # None, Walk(V.fat, V.dir[n].clust, p)
          PROVE  Walk(W.fat, V.dir[n].clust, p) /\ \A i \in 1 .. Len(p) : W.data[p[i]] = V.data[p[i]]
      BY <1>0, <2>1, ClaimedByEntry DEF Carries
    <2>2. StoreOf(V, n) BY DEF Safe
    <2>3. W.dir[n] = V.dir[n] /\ W.saved[n] = V.saved[n] BY <1>0
    <2> QED BY <2>1, <2>2, <2>3, StoreFrame
  <1>3. ASSUME NEW t \in Tasks, V.fil[t].name # None, NEW p, Fine(V, V.fil[t], p) PROVE Fine(W, W.fil[t], p)
    <2>1. PICK f : f = V.fil[t] OBVIOUS
    <2>2. Walk(V.fat, f.sclust, p) /\ f.name \in Names BY <1>3, <2>1 DEF Fine
    <2>3. Walk(W.fat, f.sclust, p) BY <1>0, <2>1, <2>2, ClaimedByFile DEF Carries
    <2>4. Fine(V, f, p) BY <1>3, <2>1
    <2>5. W.dir[f.name] = V.dir[f.name] /\ W.saved[f.name] \in {None, V.saved[f.name]}
          /\ \A i \in 1 .. Len(p) : W.data[p[i]] = V.data[p[i]]
      BY <1>0
    <2>6. Fine(W, f, p) BY <1>1, <2>3, <2>4, <2>5, FineFrame
    <2> QED BY <1>0, <2>1, <2>6
  <1>4. ASSUME NEW t \in Tasks PROVE FileOf(W, o, t, FALSE)
    <2>1. FileOf(V, o, t, FALSE) BY DEF Safe
    <2> QED BY <1>0, <1>3, <2>1 DEF FileOf, Sole
  <1> QED BY <1>1, <1>2, <1>4 DEF Safe, Kept

LEMMA FatTake ==
  ASSUME NEW V, NEW c, NEW x PROVE Take(V, FatStep(c, x)) = Refat(V, [V.fat EXCEPT ![c] = x])
  BY DEF Take, FatStep, Refat

\* A link where there was none.
LEMMA LinkCarries ==
  ASSUME NEW V, DOMAIN V.fat = Clusters, NEW c \in Clusters, V.fat[c] \notin Clusters, NEW x,
         NEW table, table = [V.fat EXCEPT ![c] = x]
  PROVE  DOMAIN table = Clusters /\ Carries(V, table)
  <1>1. ASSUME NEW s, NEW p, Walk(V.fat, s, p) PROVE Walk(table, s, p)
    <2>1. \A i \in 1 .. Len(p) : p[i] \in Clusters BY <1>1, WalkLength
    <2>2. \A i \in 1 .. Len(p) : V.fat[p[i]] \in Clusters => table[p[i]] = V.fat[p[i]] BY <2>1
    <2> QED BY <1>1, <2>2, WalkKept
  <1> QED BY <1>1 DEF Carries

LEMMA RunsSingle == ASSUME NEW v, NEW s, NEW w, NEW all, Runs(<<s>>, v, w, all) PROVE w = Exec(v, s)
  <1>1. PICK q : q = <<s>> OBVIOUS
  <1>2. IsList(q) /\ Len(q) = 1 /\ q[1] = s BY <1>1, OneList
  <1>3. q # << >> /\ Head(q) = s /\ Len(Tail(q)) = 0 /\ IsList(Tail(q)) BY <1>2, ListLength, TailList
  <1>4. Tail(q) = << >> BY <1>3, ListLength
  <1>5. Runs(q, v, w, all) BY <1>1
  <1>6. Runs(Tail(q), Exec(v, Head(q)), w, all) BY <1>3, <1>5, RunsTail
  <1>7. Tail(q) = << >> => Exec(v, Head(q)) = w BY <1>6, RunsStart
  <1> QED BY <1>3, <1>4, <1>7

\* A step that is sound when it is safe.
LEMMA StepSound ==
  ASSUME NEW V, NEW o, Sound(V, o), NEW s, NEW W, W = Take(V, s), Safe(W, o, FALSE), Kept(V, W),
         NEW w, NEW all, Runs(<<s>>, Plain(V), w, all), Sane(w)
  PROVE  Leads(<<s>>, V, W, o) /\ Sound(W, o) /\ Plain(W) = w
  <1>1. w = Exec(Plain(V), s) BY RunsSingle
  <1>2. Plain(W) = w BY <1>1, PlainTake
  <1>3. Leads(<<s>>, V, W, o) BY LeadsOne DEF Sound
  <1> QED BY <1>2, <1>3 DEF Sound

LEMMA PlainFields == ASSUME NEW V PROVE Plain(V).fat = V.fat /\ Plain(V).dir = V.dir /\ Plain(V).fil = V.fil
  BY DEF Plain

\* The volume but for its table.
Beyond(V, W) == W.dir = V.dir /\ W.fil = V.fil /\ W.data = V.data /\ W.saved = V.saved

LEMMA AllocLeads ==
  ASSUME NEW V, NEW o, Sound(V, o), NEW c \in Clusters, V.fat[c] = 0
  PROVE  \E W : /\ Leads(<<FatStep(c, EndOfChain)>>, V, W, o) /\ Sound(W, o) /\ Beyond(V, W)
                /\ W.fat = [V.fat EXCEPT ![c] = EndOfChain] /\ Carries(V, W.fat)
                /\ Alone(W.fat, c) /\ Unclaimed(Plain(W), c)
  <1>1. PICK s : s = FatStep(c, EndOfChain) OBVIOUS
  <1>2. PICK table : table = [V.fat EXCEPT ![c] = EndOfChain] OBVIOUS
  <1>3. PICK W : W = Refat(V, table) OBVIOUS
  <1>4. DOMAIN V.fat = Clusters /\ V.fat[c] \notin Clusters BY ClusterNumbers DEF Sound, Safe, Formed
  <1>5. DOMAIN table = Clusters /\ Carries(V, table) BY <1>2, <1>4, LinkCarries
  <1>6. Safe(W, o, FALSE) /\ Kept(V, W) BY <1>3, <1>5, RelinkSafe DEF Sound
  <1>7. W = Take(V, s) BY <1>1, <1>2, <1>3, FatTake
  <1>8. Sane(Plain(V)) /\ Plain(V).fat[c] = 0 BY PlainFields DEF Sound
  <1>9. PICK w : Runs(<<s>>, Plain(V), w, TRUE) /\ Sane(w) /\ Alone(w.fat, c) /\ Unclaimed(w, c)
    BY <1>1, <1>8, AllocRuns
  <1>10. Leads(<<s>>, V, W, o) /\ Sound(W, o) /\ Plain(W) = w BY <1>6, <1>7, <1>9, StepSound
  <1>11. Plain(W).fat = W.fat BY PlainFields
  <1>12. W.fat = table /\ Beyond(V, W) BY <1>3 DEF Refat, Beyond
  <1> QED BY <1>1, <1>2, <1>5, <1>9, <1>10, <1>11, <1>12

LEMMA LinkLeads ==
  ASSUME NEW V, NEW o, Sound(V, o), NEW c \in Clusters, V.fat[c] \notin Clusters, NEW d \in Clusters,
         Alone(V.fat, d), Unclaimed(Plain(V), d)
  PROVE  \E W : /\ Leads(<<FatStep(c, d)>>, V, W, o) /\ Sound(W, o) /\ Beyond(V, W)
                /\ W.fat = [V.fat EXCEPT ![c] = d] /\ Carries(V, W.fat)
  <1>1. PICK s : s = FatStep(c, d) OBVIOUS
  <1>2. PICK table : table = [V.fat EXCEPT ![c] = d] OBVIOUS
  <1>3. PICK W : W = Refat(V, table) OBVIOUS
  <1>4. DOMAIN V.fat = Clusters BY DEF Sound, Safe, Formed
  <1>5. DOMAIN table = Clusters /\ Carries(V, table) BY <1>2, <1>4, LinkCarries
  <1>6. Safe(W, o, FALSE) /\ Kept(V, W) BY <1>3, <1>5, RelinkSafe DEF Sound
  <1>7. W = Take(V, s) BY <1>1, <1>2, <1>3, FatTake
  <1>8. PICK v : v = Plain(V) OBVIOUS
  <1>9. Sane(v) /\ v.fat = V.fat BY <1>8, PlainFields DEF Sound
  <1>10. v.fat[c] \notin Clusters /\ Alone(v.fat, d) /\ Unclaimed(v, d) BY <1>8, <1>9
  <1>11. PICK w : Runs(<<FatStep(c, d)>>, v, w, TRUE) /\ Sane(w)
    BY <1>9, <1>10, LinkRuns
  <1>12. Leads(<<s>>, V, W, o) /\ Sound(W, o) BY <1>1, <1>6, <1>7, <1>8, <1>11, StepSound
  <1>13. W.fat = table /\ Beyond(V, W) BY <1>3 DEF Refat, Beyond
  <1> QED BY <1>1, <1>2, <1>5, <1>12, <1>13

LEMMA FreedTable ==
  ASSUME NEW table, NEW q, NEW i
  PROVE  /\ DOMAIN Freed(table, q, i) = Clusters
         /\ \A d \in Clusters : Freed(table, q, i)[d] \in Clusters => Freed(table, q, i)[d] = table[d]
         /\ \A d \in Clusters : (\A j \in 1 .. i : q[j] # d) => Freed(table, q, i)[d] = table[d]
  BY ClusterNumbers DEF Freed

\* The clusters that are freed are on no file's walk.
LEMMA FreedCarries ==
  ASSUME NEW V, Sane(Plain(V)), NEW c, c \in Clusters => Alone(V.fat, c) /\ Unclaimed(Plain(V), c),
         NEW q, Path(V.fat, c, q), NEW i \in 0 .. Len(q), NEW j \in 0 .. Len(q)
  PROVE  Carries(Refat(V, Freed(V.fat, q, i)), Freed(V.fat, q, j))
  <1>1. PICK a : a = Freed(V.fat, q, i) OBVIOUS
  <1>2. PICK b : b = Freed(V.fat, q, j) OBVIOUS
  <1>3. PICK U : U = Refat(V, a) OBVIOUS
  <1>4. Linked(V.fat) /\ Apart(Plain(V)) /\ Plain(V).fat = V.fat BY PlainFields DEF Sane
  <1>5. Len(q) \in Nat BY DEF Path
  <1>6. ASSUME NEW s, ~ Unclaimed(Plain(U), s), NEW p, Walk(a, s, p) PROVE Walk(b, s, p)
    <2>1. ~ Unclaimed(Plain(V), s) BY <1>3, <1>6 DEF Unclaimed, Claims, Plain, Refat
    <2>2. \A k \in 1 .. Len(p) : p[k] \in Clusters BY <1>6, WalkLength
    <2>3. \A k \in 1 .. Len(p) : a[p[k]] \in Clusters => V.fat[p[k]] = a[p[k]] BY <1>1, <2>2, FreedTable
    <2>4. Walk(V.fat, s, p) BY <1>6, <2>3, WalkKept
    <2>5. ASSUME NEW k \in 1 .. Len(p), NEW x \in 1 .. j PROVE q[x] # p[k]
      <3>1. x \in 1 .. Len(q) /\ Len(q) # 0 BY <1>5
      <3>2. q # << >> /\ c \in Clusters BY <3>1 DEF Path
      <3>3. Len(p) \in Nat /\ Len(p) # 0 BY <2>4, WalkLength
      <3>4. s \in Clusters /\ p # << >> BY <2>4, <3>3, WalkLength
      <3>5. Path(V.fat, s, p) BY <2>4, <3>4 DEF Walk, Path
      <3>6. s # c BY <2>1, <3>2
      <3>7. Alone(V.fat, s) BY <1>4, <2>1, <3>4 DEF Unclaimed, Apart
      <3>8. \A y \in 1 .. Len(p), z \in 1 .. Len(q) : p[y] # q[z]
        BY <1>4, <3>2, <3>4, <3>5, <3>6, <3>7, ChainsDisjoint
      <3> QED BY <3>1, <3>8
    <2>6. \A k \in 1 .. Len(p) : V.fat[p[k]] \in Clusters => b[p[k]] = V.fat[p[k]] BY <1>2, <2>2, <2>5, FreedTable
    <2> QED BY <2>4, <2>6, WalkKept
  <1>7. U.fat = a BY <1>3 DEF Refat
  <1>8. Carries(U, b) BY <1>6, <1>7 DEF Carries
  <1> QED BY <1>1, <1>2, <1>3, <1>8

LEMMA FreedNext ==
  ASSUME NEW table, NEW q, NEW i \in Nat \ {0}
  PROVE  Freed(table, q, i) = [Freed(table, q, i - 1) EXCEPT ![q[i]] = 0]
  <1>1. PICK a : a = Freed(table, q, i - 1) OBVIOUS
  <1>2. PICK b : b = Freed(table, q, i) OBVIOUS
  <1>3. a = [d \in Clusters |-> IF \E j \in 1 .. i - 1 : q[j] = d THEN 0 ELSE table[d]] BY <1>1 DEF Freed
  <1>4. b = [d \in Clusters |-> IF \E j \in 1 .. i : q[j] = d THEN 0 ELSE table[d]] BY <1>2 DEF Freed
  <1>5. ASSUME NEW d \in Clusters PROVE b[d] = IF d = q[i] THEN 0 ELSE a[d]
    <2>1. \A j \in 1 .. i : j = i \/ j \in 1 .. i - 1 OBVIOUS
    <2>2. \A j \in 1 .. i - 1 : j \in 1 .. i OBVIOUS
    <2>3. i \in 1 .. i OBVIOUS
    <2>4. CASE d = q[i] BY <1>4, <2>3, <2>4
    <2>5. CASE d # q[i]
      <3>1. (\E j \in 1 .. i : q[j] = d) <=> (\E j \in 1 .. i - 1 : q[j] = d) BY <2>1, <2>2, <2>5
      <3> QED BY <1>3, <1>4, <2>5, <3>1
    <2> QED BY <2>4, <2>5
  <1>6. DOMAIN a = Clusters /\ DOMAIN b = Clusters /\ b = [d \in Clusters |-> b[d]] BY <1>3, <1>4
  <1>7. b = [a EXCEPT ![q[i]] = 0] BY <1>5, <1>6
  <1> QED BY <1>1, <1>2, <1>7

LEMMA RemoveLeads ==
  ASSUME NEW V, NEW o, Sound(V, o), V.fat = fat,
         NEW c, c \in Clusters => Alone(V.fat, c) /\ Unclaimed(Plain(V), c)
  PROVE  \E W : Leads(RemoveChain(c), V, W, o) /\ Sound(W, o) /\ Beyond(V, W)
  <1>1. PICK q : q = Chain(fat, c) OBVIOUS
  <1>2. Path(V.fat, c, q) BY <1>1, ChainPath
  <1>3. PICK n : n = Len(q) OBVIOUS
  <1>4. n \in Nat /\ DOMAIN q = 1 .. n /\ \A i \in 1 .. n : q[i] \in Clusters BY <1>2, <1>3 DEF Path
  <1>5. PICK list : list = RemoveChain(c) OBVIOUS
  <1>6. list = [i \in 1 .. n |-> FatStep(q[i], 0)] BY <1>1, <1>4, <1>5 DEF RemoveChain
  <1>7. list = [i \in 1 .. n |-> list[i]] /\ \A i \in 1 .. n : list[i] = FatStep(q[i], 0) BY <1>6
  <1>8. IsList(list) /\ Len(list) = n BY <1>4, <1>7, FunctionList
  <1> DEFINE tr == [i \in 0 .. n |-> Refat(V, Freed(V.fat, q, i))]
  <1>9. \A i \in 0 .. n : tr[i] = Refat(V, Freed(V.fat, q, i)) OBVIOUS
  <1> HIDE DEF tr
  <1>10. Sane(Plain(V)) /\ Plain(V).fat = V.fat /\ Safe(V, o, FALSE) /\ Formed(V) BY PlainFields DEF Sound, Safe
  <1>11. tr[0] = V /\ Freed(V.fat, q, 0) = V.fat
    <2>1. Freed(V.fat, q, 0) = V.fat
      <3>1. \A j \in 1 .. 0 : FALSE OBVIOUS
      <3>2. V.fat = [d \in Clusters |-> V.fat[d]] BY <1>10 DEF Sane, Shape
      <3> QED BY <3>1, <3>2 DEF Freed
    <2>2. Refat(V, V.fat) = V BY <1>10 DEF Refat, Formed
    <2>3. 0 \in 0 .. n BY <1>4
    <2> QED BY <1>9, <2>1, <2>2, <2>3
  <1>12. ASSUME NEW i \in 0 .. n PROVE Safe(tr[i], o, FALSE)
    <2>1. PICK b : b = Freed(V.fat, q, i) OBVIOUS
    <2>2. 0 \in 0 .. Len(q) /\ i \in 0 .. Len(q) BY <1>3, <1>4
    <2>3. Carries(Refat(V, Freed(V.fat, q, 0)), b) BY <1>2, <1>10, <2>1, <2>2, FreedCarries
    <2>4. Carries(V, b)
      <3>1. 0 \in 0 .. n BY <1>4
      <3> QED BY <1>9, <1>11, <2>3, <3>1
    <2>5. DOMAIN b = Clusters BY <2>1, FreedTable
    <2>6. tr[i] = Refat(V, b) BY <1>9, <2>1
    <2> QED BY <1>10, <2>4, <2>5, <2>6, RelinkSafe
  <1>13. ASSUME NEW i \in 1 .. n PROVE tr[i] = Take(tr[i - 1], list[i]) /\ Kept(tr[i - 1], tr[i])
    <2>0. i - 1 \in 0 .. n /\ i \in 0 .. n /\ i \in Nat \ {0} BY <1>4
    <2>1. PICK a : a = Freed(V.fat, q, i - 1) OBVIOUS
    <2>2. PICK b : b = Freed(V.fat, q, i) OBVIOUS
    <2>3. b = [a EXCEPT ![q[i]] = 0] BY <2>0, <2>1, <2>2, FreedNext
    <2>4. PICK U : U = Refat(V, a) OBVIOUS
    <2>5. U.fat = a /\ Refat(U, b) = Refat(V, b) BY <2>4 DEF Refat
    <2>6. tr[i - 1] = U /\ tr[i] = Refat(V, b) BY <1>9, <2>0, <2>1, <2>2, <2>4
    <2>7. Take(U, FatStep(q[i], 0)) = Refat(U, [U.fat EXCEPT ![q[i]] = 0]) BY FatTake
    <2>8. i - 1 \in 0 .. Len(q) /\ i \in 0 .. Len(q) BY <1>3, <2>0
    <2>9. Carries(U, b) BY <1>2, <1>10, <2>1, <2>2, <2>4, <2>8, FreedCarries
    <2>10. Safe(U, o, FALSE) BY <1>12, <2>0, <2>6
    <2>11. DOMAIN b = Clusters BY <2>2, FreedTable
    <2>12. Kept(U, tr[i]) BY <2>5, <2>6, <2>9, <2>10, <2>11, RelinkSafe
    <2> QED BY <1>7, <2>3, <2>5, <2>6, <2>7, <2>12
  <1>14. PICK W : W = tr[n] OBVIOUS
  <1>15. 0 \in 0 .. n /\ n \in 0 .. n BY <1>4
  <1>16. Traced(tr, list, V, W, o) BY <1>8, <1>11, <1>12, <1>13, <1>14, LateSafe DEF Traced
  <1>17. PICK table : table = Freed(V.fat, q, n) OBVIOUS
  <1>18. W = Refat(V, table) BY <1>9, <1>14, <1>15, <1>17
  <1>19. Beyond(V, W) BY <1>18 DEF Refat, Beyond
  <1>20. Sane(Plain(W))
    <2>1. PICK v : v = Plain(V) OBVIOUS
    <2>2. Sane(v) /\ v.fat = V.fat BY <1>10, <2>1
    <2>3. c \in Clusters => Alone(v.fat, c) /\ Unclaimed(v, c) BY <2>1, <2>2
    <2>4. n \in 0 .. Len(q) /\ Path(v.fat, c, q) BY <1>2, <1>3, <1>15, <2>2
    <2>5. Sane(Retabled(v, Freed(v.fat, q, n))) BY <2>2, <2>3, <2>4, FreedSane
    <2>6. Plain(W) = Retabled(v, table) BY <1>18, <2>1 DEF Plain, Refat, Retabled
    <2> QED BY <1>17, <2>2, <2>5, <2>6
  <1>21. Safe(W, o, FALSE) BY <1>12, <1>14, <1>15
  <1>22. Leads(RemoveChain(c), V, W, o) BY <1>5, <1>8, <1>16 DEF Leads
  <1> QED BY <1>19, <1>20, <1>21, <1>22 DEF Sound

LEMMA CarriesOn ==
  ASSUME NEW U, NEW V, NEW W, Beyond(U, V), Carries(U, V.fat), Beyond(V, W), Carries(V, W.fat)
  PROVE  Beyond(U, W) /\ Carries(U, W.fat)
  <1>1. \A c : Unclaimed(Plain(U), c) <=> Unclaimed(Plain(V), c) BY DEF Beyond, Unclaimed, Claims, Plain
  <1>2. Carries(U, W.fat) BY <1>1 DEF Carries
  <1> QED BY <1>2 DEF Beyond

\* create_chain() leads to a volume where the cluster follows on the one it was asked for.
LEMMA CreateLeads ==
  ASSUME NEW o, NEW V, V = Now, Sound(V, o), NEW c \in Starts, NEW r, r = CreateChain(c)
  PROVE  /\ r.clst \in {0, 1} \cup Clusters
         /\ \E W : /\ Leads(r.steps, V, W, o) /\ Sound(W, o) /\ Beyond(V, W) /\ Carries(V, W.fat)
                   /\ c # 0 /\ r.clst \in Clusters => W.fat[c] = r.clst
                   /\ c = 0 /\ r.clst # 0 =>
                         r.clst \in Clusters /\ Alone(W.fat, r.clst) /\ Unclaimed(Plain(W), r.clst)
  <1>1. V.fat = fat /\ Safe(V, o, FALSE) BY DEF Now, Sound
  <1>2. fat \in [Clusters -> 0 .. EndOfChain]
    <2>1. Shape(Plain(V)) /\ Plain(V).fat = V.fat BY PlainFields DEF Sound, Sane
    <2> QED BY <1>1, <2>1 DEF Shape
  <1>3. CASE /\ StillList(r.steps) /\ r.clst \in {0, 1} \cup Clusters
             /\ c = 0 => r.clst = 0
             /\ r.clst \in Clusters => fat[c] = r.clst
    <2>1. Leads(r.steps, V, V, o) BY <1>1, <1>3, LeadsStill
    <2>2. Carries(V, V.fat) /\ Beyond(V, V) BY DEF Carries, Beyond
    <2> QED BY <1>1, <1>3, <2>1, <2>2
  <1>4. CASE /\ r.clst \in Clusters /\ fat[r.clst] = 0 /\ Grown(c, r.clst, r.steps)
             /\ c # 0 => c \in Clusters /\ fat[c] \notin Clusters /\ c # r.clst
    <2>1. PICK new : new = r.clst OBVIOUS
    <2>2. PICK looks : /\ StillList(looks)
                       /\ r.steps = looks \o <<FatStep(new, EndOfChain)>>
                                    \o (IF c = 0 THEN << >> ELSE <<FatStep(c, new)>>) \o <<LastStep(new)>>
      BY <1>4, <2>1 DEF Grown
    <2>3. Leads(looks, V, V, o) BY <1>1, <2>2, LeadsStill
    <2>4. PICK U : /\ Leads(<<FatStep(new, EndOfChain)>>, V, U, o) /\ Sound(U, o) /\ Beyond(V, U)
                   /\ U.fat = [V.fat EXCEPT ![new] = EndOfChain] /\ Carries(V, U.fat)
                   /\ Alone(U.fat, new) /\ Unclaimed(Plain(U), new)
      BY <1>1, <1>4, <2>1, AllocLeads
    <2>5. PICK q : q = looks \o <<FatStep(new, EndOfChain)>> OBVIOUS
    <2>6. Leads(q, V, U, o) BY <2>3, <2>4, <2>5, LeadsJoin
    <2>7. PICK link : link = IF c = 0 THEN << >> ELSE <<FatStep(c, new)>> OBVIOUS
    <2>8. PICK W : /\ Leads(link, U, W, o) /\ Sound(W, o) /\ Beyond(V, W) /\ Carries(V, W.fat)
                   /\ c = 0 => W = U
                   /\ c # 0 => W.fat[c] = new
      <3>1. CASE c = 0
        <4>1. Leads(link, U, U, o)
          <5>1. Safe(U, o, FALSE) BY <2>4 DEF Sound
          <5>2. link = << >> BY <2>7, <3>1
          <5> QED BY <5>1, <5>2, LeadsNone
        <4> QED BY <2>4, <3>1, <4>1
      <3>2. CASE c # 0
        <4>1. c \in Clusters /\ U.fat[c] \notin Clusters BY <1>1, <1>2, <1>4, <2>1, <2>4, <3>2
        <4>2. new \in Clusters BY <1>4, <2>1
        <4>3. link = <<FatStep(c, new)>> BY <2>7, <3>2
        <4>4. PICK W : /\ Leads(<<FatStep(c, new)>>, U, W, o) /\ Sound(W, o) /\ Beyond(U, W)
                       /\ W.fat = [U.fat EXCEPT ![c] = new] /\ Carries(U, W.fat)
          BY <2>4, <4>1, <4>2, LinkLeads
        <4>5. DOMAIN U.fat = Clusters BY <2>4 DEF Sound, Safe, Formed
        <4>6. Beyond(V, W) /\ Carries(V, W.fat) BY <2>4, <4>4, CarriesOn
        <4> QED BY <3>2, <4>1, <4>3, <4>4, <4>5, <4>6
      <3> QED BY <3>1, <3>2
    <2>9. Leads(q \o link, V, W, o) BY <2>6, <2>8, LeadsJoin
    <2>10. StillList(<<LastStep(new)>>) BY StillOne, StillSteps
    <2>11. Leads(<<LastStep(new)>>, W, W, o) BY <2>8, <2>10, LeadsStill DEF Sound
    <2>12. Leads((q \o link) \o <<LastStep(new)>>, V, W, o) BY <2>9, <2>11, LeadsJoin
    <2>13. r.steps = (q \o link) \o <<LastStep(new)>> BY <2>2, <2>5, <2>7
    <2> QED BY <1>4, <2>1, <2>4, <2>8, <2>12, <2>13
  <1> QED BY <1>2, <1>3, <1>4, CreateCases

-----------------------------------------------------------------------------
(* Steps on the open files.                                                *)

\* The same volume but for the open files.
Around(V, W) == W.fat = V.fat /\ W.dir = V.dir /\ W.data = V.data /\ W.saved = V.saved

LEMMA AroundSame ==
  ASSUME NEW V, NEW W, Around(V, W)
  PROVE  /\ \A f, p : Fine(V, f, p) <=> Fine(W, f, p)
         /\ \A n : StoreOf(V, n) <=> StoreOf(W, n)
         /\ \A n, p : Holds(V, n, p) <=> Holds(W, n, p)
  BY DEF Around, Fine, StoreOf, Holds

\* The file f may be the open file of the task t.
Opened(V, o, t, f) ==
    f.name # None =>
        /\ \A u \in Tasks : u # t => V.fil[u].name # f.name
        /\ Busy(o, t) => \E p : Fine(V, f, p)
        /\ ~ Busy(o, t) => \E p : Fine(V, f, p) /\ Rest(f, p)

Refil(V, t, f) == [fat |-> V.fat, dir |-> V.dir, fil |-> [V.fil EXCEPT ![t] = f], data |-> V.data, saved |-> V.saved]

LEMMA FilTake ==
  ASSUME NEW V, NEW t, NEW f
  PROVE  Take(V, FilStep(t, f)) = Refil(V, t, f) /\ Around(V, Refil(V, t, f)) /\ FilStep(t, f).do = "fil"
  BY DEF Take, FilStep, Refil, Around

LEMMA FilSafe ==
  ASSUME NEW V, NEW o, NEW late, Safe(V, o, late), NEW t \in Tasks, late => Busy(o, t),
         NEW f, Opened(V, o, t, f), NEW W, W = Refil(V, t, f)
  PROVE  Safe(W, o, FALSE) /\ Kept(V, W)
  <1>1. Formed(V) BY DEF Safe
  <1>2. Around(V, W) /\ W.fil = [V.fil EXCEPT ![t] = f] BY DEF Refil, Around
  <1>3. Formed(W)
    <2>1. W = [fat |-> W.fat, dir |-> W.dir, fil |-> W.fil, data |-> W.data, saved |-> W.saved] BY DEF Refil
    <2> QED BY <1>1, <1>2, <2>1 DEF Formed, Around
  <1>4. W.fil[t] = f /\ \A u \in Tasks : u # t => W.fil[u] = V.fil[u] BY <1>1, <1>2 DEF Formed
  <1>5. FileOf(W, o, t, FALSE)
    <2>1. \A p : Fine(V, f, p) <=> Fine(W, f, p) BY <1>2, AroundSame
    <2>2. f.name # None => Sole(W, t) BY <1>4 DEF Opened, Sole
    <2> QED BY <1>4, <2>1, <2>2 DEF FileOf, Opened
  <1>6. ASSUME NEW u \in Tasks, u # t PROVE FileOf(W, o, u, FALSE)
    <2>1. FileOf(V, o, u, late) BY DEF Safe
    <2>2. \A p : Fine(V, V.fil[u], p) <=> Fine(W, W.fil[u], p) BY <1>2, <1>4, <1>6, AroundSame
    <2>3. V.fil[u].name # None => Sole(W, u)
      <3>1. ASSUME V.fil[u].name # None PROVE Sole(W, u)
        <4>1. Sole(V, u) BY <2>1, <3>1 DEF FileOf
        <4>2. f.name # V.fil[u].name
          <5>1. CASE f.name = None BY <3>1, <5>1
          <5>2. CASE f.name # None BY <1>6, <5>2 DEF Opened
          <5> QED BY <5>1, <5>2
        <4>3. ASSUME NEW x \in Tasks, x # u PROVE W.fil[x].name # W.fil[u].name
          <5>1. CASE x = t BY <1>4, <1>6, <4>2, <5>1
          <5>2. CASE x # t BY <1>4, <1>6, <4>1, <4>3, <5>2 DEF Sole
          <5> QED BY <5>1, <5>2
        <4> QED BY <4>3 DEF Sole
      <3> QED BY <3>1
    <2>4. Busy(o, u) => ~ late BY <1>6 DEF Busy
    <2>5. W.fil[u] = V.fil[u] BY <1>4, <1>6
    <2> QED BY <2>1, <2>2, <2>3, <2>4, <2>5 DEF FileOf
  <1>7. \A u \in Tasks : FileOf(W, o, u, FALSE) BY <1>5, <1>6
  <1>8. \A n \in Names : StoreOf(W, n) BY <1>2, AroundSame DEF Safe
  <1>9. Kept(V, W) BY <1>2, AroundSame DEF Kept, KeptOf
  <1> QED BY <1>3, <1>7, <1>8, <1>9 DEF Safe

\* What a step on the file of a task leads to.
Gives(V, W, o, t, f) ==
    Sound(W, o) /\ Around(V, W) /\ W.fil = [V.fil EXCEPT ![t] = f] /\ Has(W, t, f) /\ Fits(Plain(W), f)

LEMMA FilLeads ==
  ASSUME NEW V, NEW o, Sound(V, o), NEW t \in Tasks, NEW f, Fits(Plain(V), f), Opened(V, o, t, f)
  PROVE  \E W : Leads(<<FilStep(t, f)>>, V, W, o) /\ Gives(V, W, o, t, f)
  <1>1. PICK s : s = FilStep(t, f) OBVIOUS
  <1>2. PICK W : W = Refil(V, t, f) OBVIOUS
  <1>3. W = Take(V, s) /\ Around(V, W) BY <1>1, <1>2, FilTake
  <1>4. Safe(W, o, FALSE) /\ Kept(V, W) BY <1>2, FilSafe DEF Sound
  <1>5. PICK v : v = Plain(V) OBVIOUS
  <1>6. Fits(v, f) BY <1>5
  <1>7. PICK w : Runs(<<FilStep(t, f)>>, v, w, TRUE) /\ Sane(w) /\ Fits(w, f) BY <1>6, FilFits
  <1>8. Leads(<<s>>, V, W, o) /\ Sound(W, o) /\ Plain(W) = w BY <1>1, <1>3, <1>4, <1>5, <1>7, StepSound
  <1>9. W.fil = [V.fil EXCEPT ![t] = f] BY <1>2 DEF Refil
  <1>10. Has(W, t, f)
    <2>1. DOMAIN V.fil = Tasks BY DEF Sound, Safe, Formed
    <2> QED BY <1>9, <2>1 DEF Has
  <1> QED BY <1>1, <1>3, <1>7, <1>8, <1>9, <1>10 DEF Gives

\* The data goes to the disk, and then the file is marked.
LEMMA DataFilLeads ==
  ASSUME NEW V, NEW o, Sound(V, o), NEW c, NEW x,
         NEW U, U = Take(V, DataStep(c, x)), NEW late, Safe(U, o, late), Kept(V, U),
         NEW t \in Tasks, late => Busy(o, t), NEW f, Fits(Plain(V), f), Opened(U, o, t, f)
  PROVE  \E W : Leads(<<DataStep(c, x), FilStep(t, f)>>, V, W, o) /\ Gives(U, W, o, t, f)
  <1>1. PICK a : a = DataStep(c, x) OBVIOUS
  <1>2. PICK s : s = FilStep(t, f) OBVIOUS
  <1>3. PICK W : W = Refil(U, t, f) OBVIOUS
  <1>4. W = Take(U, s) /\ Around(U, W) /\ s.do = "fil" BY <1>2, <1>3, FilTake
  <1>5. Safe(W, o, FALSE) /\ Kept(U, W) BY <1>3, FilSafe
  <1>6. Safe(U, o, TRUE) BY DEF Safe, FileOf
  <1>7. Leads(<<a, s>>, V, W, o) BY <1>1, <1>4, <1>5, <1>6, LeadsTwo DEF Sound
  <1>8. PICK v : v = Plain(V) OBVIOUS
  <1>9. Plain(U) = v
    <2>1. Plain(U) = Exec(v, a) BY <1>1, <1>8, PlainTake
    <2>2. Shape(v) /\ Quiet(a) BY <1>1, <1>8, QuietSteps DEF Sound, Sane
    <2> QED BY <2>1, <2>2, QuietStep
  <1>10. Fits(v, f) BY <1>8
  <1>11. PICK w : Runs(<<FilStep(t, f)>>, v, w, TRUE) /\ Sane(w) /\ Fits(w, f) BY <1>10, FilFits
  <1>12. w = Exec(v, s) BY <1>2, <1>11, RunsSingle
  <1>13. Plain(W) = w BY <1>4, <1>9, <1>12, PlainTake
  <1>14. W.fil = [U.fil EXCEPT ![t] = f] BY <1>3 DEF Refil
  <1>15. Has(W, t, f)
    <2>1. DOMAIN U.fil = Tasks BY DEF Safe, Formed
    <2> QED BY <1>14, <2>1 DEF Has
  <1>16. Sound(W, o) BY <1>5, <1>11, <1>13 DEF Sound
  <1>17. Gives(U, W, o, t, f) BY <1>4, <1>11, <1>13, <1>14, <1>15, <1>16 DEF Gives
  <1> QED BY <1>1, <1>2, <1>7, <1>17

-----------------------------------------------------------------------------
(* Steps on the directory, and what is saved.                              *)

\* The same volume but for what has the name n.
Except(V, W, n) ==
    /\ Formed(W) /\ W.fat = V.fat /\ W.fil = V.fil /\ W.data = V.data
    /\ \A m \in Names : m # n => W.dir[m] = V.dir[m] /\ W.saved[m] = V.saved[m]

LEMMA NameSafe ==
  ASSUME NEW V, NEW o, Safe(V, o, FALSE), NEW n \in Names, NEW W, Except(V, W, n),
         StoreOf(W, n), KeptOf(V, W, n),
         \A t \in Tasks : V.fil[t].name = n => \A p : Fine(V, V.fil[t], p) => Fine(W, V.fil[t], p)
  PROVE  Safe(W, o, FALSE) /\ Kept(V, W)
  <1>1. Formed(V) /\ Formed(W) BY DEF Safe, Except
  <1>2. ASSUME NEW m \in Names PROVE StoreOf(W, m) /\ KeptOf(V, W, m)
    <2>1. CASE m = n BY <2>1
    <2>2. CASE m # n
      <3>1. StoreOf(V, m) BY DEF Safe
      <3>2. W.dir[m] = V.dir[m] /\ W.saved[m] = V.saved[m] BY <2>2 DEF Except
      <3>3. \A p : V.dir[m] # None /\ Walk(V.fat, V.dir[m].clust, p) =>
                   Walk(W.fat, V.dir[m].clust, p) /\ \A i \in 1 .. Len(p) : W.data[p[i]] = V.data[p[i]]
        BY DEF Except
      <3> QED BY <3>1, <3>2, <3>3, StoreFrame
    <2> QED BY <2>1, <2>2
  <1>3. ASSUME NEW t \in Tasks, NEW p, Fine(V, V.fil[t], p) PROVE Fine(W, V.fil[t], p)
    <2>1. CASE V.fil[t].name = n BY <1>3, <2>1
    <2>2. CASE V.fil[t].name # n
      <3>1. PICK f : f = V.fil[t] OBVIOUS
      <3>2. Fine(V, f, p) /\ f.name # n BY <1>3, <2>2, <3>1
      <3>3. Walk(W.fat, f.sclust, p) /\ f.name \in Names BY <3>2 DEF Fine, Except
      <3>4. /\ W.dir[f.name] = V.dir[f.name] /\ W.saved[f.name] \in {None, V.saved[f.name]}
            /\ \A i \in 1 .. Len(p) : W.data[p[i]] = V.data[p[i]]
        BY <3>2, <3>3 DEF Except
      <3>5. Fine(W, f, p) BY <1>1, <3>2, <3>3, <3>4, FineFrame
      <3> QED BY <3>1, <3>5
    <2> QED BY <2>1, <2>2
  <1>4. ASSUME NEW t \in Tasks PROVE FileOf(W, o, t, FALSE)
    <2>1. FileOf(V, o, t, FALSE) BY DEF Safe
    <2>2. W.fil = V.fil BY DEF Except
    <2> QED BY <1>3, <2>1, <2>2 DEF FileOf, Sole
  <1> QED BY <1>1, <1>2, <1>4 DEF Safe, Kept

Redir(V, n, e) ==
    [fat |-> V.fat, dir |-> [V.dir EXCEPT ![n] = e], fil |-> V.fil, data |-> V.data, saved |-> V.saved]
Resave(V, n, text) ==
    [fat |-> V.fat, dir |-> V.dir, fil |-> V.fil, data |-> V.data, saved |-> [V.saved EXCEPT ![n] = text]]

LEMMA DirTake == ASSUME NEW V, NEW n, NEW e PROVE Take(V, DirStep(n, e)) = Redir(V, n, e)
  BY DEF Take, DirStep, Redir

LEMMA SavedTake == ASSUME NEW V, NEW n, NEW text PROVE Take(V, SavedStep(n, text)) = Resave(V, n, text)
  BY DEF Take, SavedStep, Resave

LEMMA RedirExcept ==
  ASSUME NEW V, Formed(V), NEW n \in Names, NEW e, NEW W, W = Redir(V, n, e)
  PROVE  /\ Except(V, W, n) /\ W.saved = V.saved /\ W.dir = [V.dir EXCEPT ![n] = e] /\ W.dir[n] = e
  <1>1. W.fat = V.fat /\ W.fil = V.fil /\ W.data = V.data /\ W.saved = V.saved /\ W.dir = [V.dir EXCEPT ![n] = e]
    BY DEF Redir
  <1>2. DOMAIN V.dir = Names BY DEF Formed
  <1>3. DOMAIN W.dir = Names /\ W.dir[n] = e /\ \A m \in Names : m # n => W.dir[m] = V.dir[m] BY <1>1, <1>2
  <1>4. W = [fat |-> W.fat, dir |-> W.dir, fil |-> W.fil, data |-> W.data, saved |-> W.saved] BY DEF Redir
  <1>5. Formed(W) BY <1>1, <1>3, <1>4 DEF Formed
  <1> QED BY <1>1, <1>3, <1>5 DEF Except

LEMMA ResaveExcept ==
  ASSUME NEW V, Formed(V), NEW n \in Names, NEW text, NEW W, W = Resave(V, n, text)
  PROVE  /\ Except(V, W, n) /\ W.dir = V.dir /\ W.saved = [V.saved EXCEPT ![n] = text] /\ W.saved[n] = text
  <1>1. W.fat = V.fat /\ W.fil = V.fil /\ W.data = V.data /\ W.dir = V.dir /\ W.saved = [V.saved EXCEPT ![n] = text]
    BY DEF Resave
  <1>2. DOMAIN V.saved = Names BY DEF Formed
  <1>3. DOMAIN W.saved = Names /\ W.saved[n] = text /\ \A m \in Names : m # n => W.saved[m] = V.saved[m]
    BY <1>1, <1>2
  <1>4. W = [fat |-> W.fat, dir |-> W.dir, fil |-> W.fil, data |-> W.data, saved |-> W.saved] BY DEF Resave
  <1>5. Formed(W) BY <1>1, <1>3, <1>4 DEF Formed
  <1> QED BY <1>1, <1>3, <1>5 DEF Except

\* The entry e has clusters for its size.
Covered(V, e) == e # None => e.size \in Nat /\ \E p : Walk(V.fat, e.clust, p) /\ e.size <= Units * Len(p)

\* The entry of a name that no file is open under and nothing is saved under.
LEMMA DirSafe ==
  ASSUME NEW V, NEW o, Safe(V, o, FALSE), NEW n \in Names, V.saved[n] = None, \A t \in Tasks : V.fil[t].name # n,
         NEW e, Covered(V, e), NEW W, W = Redir(V, n, e)
  PROVE  Safe(W, o, FALSE) /\ Kept(V, W)
  <1>0. Formed(V) BY DEF Safe
  <1>1. Except(V, W, n) /\ W.saved = V.saved /\ W.dir = [V.dir EXCEPT ![n] = e] /\ W.dir[n] = e BY <1>0, RedirExcept
  <1>2. W.fat = V.fat BY <1>1 DEF Except
  <1>3. StoreOf(W, n) BY <1>1, <1>2 DEF StoreOf, Covered
  <1>4. KeptOf(V, W, n) BY <1>1 DEF KeptOf
  <1>5. \A t \in Tasks : V.fil[t].name = n => \A p : Fine(V, V.fil[t], p) => Fine(W, V.fil[t], p) OBVIOUS
  <1>6. Except(V, W, n) BY <1>1
  <1> QED BY <1>3, <1>4, <1>5, <1>6, NameSafe

LEMMA DirLeads ==
  ASSUME NEW V, NEW o, Sound(V, o), NEW n \in Names, V.saved[n] = None, \A t \in Tasks : V.fil[t].name # n,
         NEW e, Covered(V, e), e # None => e.clust \in Starts /\ Claimable(Plain(V), n, e.clust)
  PROVE  \E W : /\ Leads(<<DirStep(n, e)>>, V, W, o) /\ Sound(W, o)
                /\ Except(V, W, n) /\ W.saved = V.saved /\ W.dir = [V.dir EXCEPT ![n] = e] /\ W.dir[n] = e
  <1>1. PICK s : s = DirStep(n, e) OBVIOUS
  <1>2. PICK W : W = Redir(V, n, e) OBVIOUS
  <1>3. W = Take(V, s) BY <1>1, <1>2, DirTake
  <1>4. Safe(W, o, FALSE) /\ Kept(V, W) BY <1>2, DirSafe DEF Sound
  <1>5. PICK v : v = Plain(V) OBVIOUS
  <1>6. Sane(v) /\ (e # None => e.clust \in Starts /\ Claimable(v, n, e.clust)) BY <1>5 DEF Sound
  <1>7. PICK w : Runs(<<DirStep(n, e)>>, v, w, TRUE) /\ Sane(w) BY <1>6, DirRuns
  <1>8. Leads(<<s>>, V, W, o) /\ Sound(W, o) BY <1>1, <1>3, <1>4, <1>5, <1>7, StepSound
  <1>9. /\ Except(V, W, n) /\ W.saved = V.saved /\ W.dir = [V.dir EXCEPT ![n] = e] /\ W.dir[n] = e
    BY <1>2, RedirExcept DEF Sound, Safe
  <1> QED BY <1>1, <1>8, <1>9

\* Other names are forgotten.
LEMMA ForgetSafe ==
  ASSUME NEW V, NEW o, Safe(V, o, FALSE), NEW W,
         W = [fat |-> V.fat, dir |-> V.dir, fil |-> V.fil, data |-> V.data, saved |-> W.saved],
         DOMAIN W.saved = Names, \A n \in Names : W.saved[n] \in {None, V.saved[n]}
  PROVE  Safe(W, o, FALSE) /\ Kept(V, W)
  <1>1. W.fat = V.fat /\ W.dir = V.dir /\ W.fil = V.fil /\ W.data = V.data OBVIOUS
  <1>2. Formed(V) BY DEF Safe
  <1>3. W = [fat |-> W.fat, dir |-> W.dir, fil |-> W.fil, data |-> W.data, saved |-> W.saved] BY <1>1
  <1>4. Formed(W) BY <1>1, <1>2, <1>3 DEF Formed
  <1>5. ASSUME NEW n \in Names PROVE StoreOf(W, n) /\ KeptOf(V, W, n)
    <2>1. W.saved[n] # None => W.saved[n] = V.saved[n] OBVIOUS
    <2>2. W.saved[n] # None => \A p : Holds(V, n, p) <=> Holds(W, n, p) BY <1>1, <2>1 DEF Holds
    <2>3. StoreOf(V, n) BY DEF Safe
    <2>4. StoreOf(W, n) BY <1>1, <2>1, <2>2, <2>3 DEF StoreOf
    <2> QED BY <2>2, <2>4 DEF KeptOf
  <1>6. ASSUME NEW t \in Tasks, NEW p, Fine(V, V.fil[t], p) PROVE Fine(W, W.fil[t], p)
    <2>1. V.fil[t].name \in Names BY <1>6 DEF Fine
    <2>2. W.saved[V.fil[t].name] # None => W.saved[V.fil[t].name] = V.saved[V.fil[t].name] BY <2>1
    <2> QED BY <1>1, <1>6, <2>2 DEF Fine
  <1>7. ASSUME NEW t \in Tasks PROVE FileOf(W, o, t, FALSE)
    <2>1. FileOf(V, o, t, FALSE) BY DEF Safe
    <2> QED BY <1>1, <1>6, <2>1 DEF FileOf, Sole
  <1> QED BY <1>4, <1>5, <1>7 DEF Safe, Kept

-----------------------------------------------------------------------------
(* Steps on the data.                                                      *)

\* The walks of two names have no cluster in common.
LEMMA WalksOfTwo ==
  ASSUME NEW V, Sane(Plain(V)), NEW m \in Owners, NEW n \in Owners, m # n,
         NEW s, Claims(Plain(V), m, s), NEW r, Claims(Plain(V), n, r),
         NEW p, Walk(V.fat, s, p), NEW q, Walk(V.fat, r, q), NEW i \in 1 .. Len(p), NEW j \in 1 .. Len(q)
  PROVE  p[i] # q[j]
  <1>1. Linked(V.fat) /\ Apart(Plain(V)) /\ Plain(V).fat = V.fat BY PlainFields DEF Sane
  <1>2. Len(p) # 0 /\ Len(q) # 0
    <2>1. Len(p) \in Nat /\ Len(q) \in Nat BY WalkLength
    <2> QED BY <2>1
  <1>3. s \in Clusters BY <1>2, WalkLength
  <1>4. r \in Clusters BY <1>2, WalkLength
  <1>5. Alone(V.fat, s) /\ Alone(V.fat, r) /\ s # r BY <1>1, <1>3, <1>4 DEF Apart
  <1> QED BY <1>1, <1>5, WalksApart

Redata(V, c, x) ==
    [fat |-> V.fat, dir |-> V.dir, fil |-> V.fil, data |-> [V.data EXCEPT ![c] = x], saved |-> V.saved]

LEMMA DataTake == ASSUME NEW V, NEW c, NEW x PROVE Take(V, DataStep(c, x)) = Redata(V, c, x)
  BY DEF Take, DataStep, Redata

LEMMA RedataFields ==
  ASSUME NEW V, Formed(V), NEW c \in Clusters, NEW x, DOMAIN x = 1 .. Units, NEW U, U = Redata(V, c, x)
  PROVE  /\ Formed(U) /\ U.fat = V.fat /\ U.dir = V.dir /\ U.fil = V.fil /\ U.saved = V.saved
         /\ U.data = [V.data EXCEPT ![c] = x] /\ U.data[c] = x
         /\ \A d \in Clusters : d # c => U.data[d] = V.data[d]
  <1>1. U.fat = V.fat /\ U.dir = V.dir /\ U.fil = V.fil /\ U.saved = V.saved /\ U.data = [V.data EXCEPT ![c] = x]
    BY DEF Redata
  <1>2. DOMAIN V.data = Clusters /\ \A d \in Clusters : DOMAIN V.data[d] = 1 .. Units BY DEF Formed
  <1>3. DOMAIN U.data = Clusters /\ U.data[c] = x /\ \A d \in Clusters : d # c => U.data[d] = V.data[d]
    BY <1>1, <1>2
  <1>4. \A d \in Clusters : DOMAIN U.data[d] = 1 .. Units BY <1>2, <1>3
  <1>5. U = [fat |-> U.fat, dir |-> U.dir, fil |-> U.fil, data |-> U.data, saved |-> U.saved] BY DEF Redata
  <1>6. Formed(U) BY <1>1, <1>3, <1>4, <1>5 DEF Formed
  <1> QED BY <1>1, <1>3, <1>6

\* A cluster of a task's file is written: the other files do not notice.
LEMMA DataSafe ==
  ASSUME NEW V, NEW o, Sound(V, o), NEW t \in Tasks, NEW f, f = V.fil[t], f.name # None,
         NEW p, Walk(V.fat, f.sclust, p), NEW k \in 1 .. Len(p), NEW c, c = p[k], NEW x, DOMAIN x = 1 .. Units,
         NEW U, U = Redata(V, c, x), StoreOf(U, f.name), KeptOf(V, U, f.name),
         NEW late, late => Busy(o, t), ~ late => \A q : Fine(V, f, q) => Fine(U, f, q)
  PROVE  Safe(U, o, late) /\ Kept(V, U)
  <1>1. Safe(V, o, FALSE) /\ Sane(Plain(V)) /\ Formed(V) BY DEF Sound, Safe
  <1>2. f.name \in Names /\ f.name \in Owners
    <2>1. FileOf(V, o, t, FALSE) BY <1>1 DEF Safe
    <2> QED BY <2>1 DEF FileOf, Fine, Owners
  <1>3. c \in Clusters BY <1>2, WalkLength
  <1>4. /\ Formed(U) /\ U.fat = V.fat /\ U.dir = V.dir /\ U.fil = V.fil /\ U.saved = V.saved
        /\ U.data = [V.data EXCEPT ![c] = x] /\ U.data[c] = x
        /\ \A d \in Clusters : d # c => U.data[d] = V.data[d]
    BY <1>1, <1>3, RedataFields
  <1>5. Claims(Plain(V), f.name, f.sclust) BY <1>2, ClaimedByFile
  <1>6. ASSUME NEW m \in Names, m # f.name, NEW s, Claims(Plain(V), m, s), NEW q, Walk(V.fat, s, q),
               NEW i \in 1 .. Len(q)
        PROVE  U.data[q[i]] = V.data[q[i]]
    <2>1. m \in Owners BY DEF Owners
    <2>2. q[i] # p[k] BY <1>1, <1>2, <1>5, <1>6, <2>1, WalksOfTwo
    <2>3. q[i] \in Clusters BY <1>6, WalkLength
    <2> QED BY <1>4, <2>2, <2>3
  <1>7. ASSUME NEW m \in Names PROVE StoreOf(U, m) /\ KeptOf(V, U, m)
    <2>1. CASE m = f.name BY <2>1
    <2>2. CASE m # f.name
      <3>1. StoreOf(V, m) BY <1>1 DEF Safe
      <3>2. U.dir[m] = V.dir[m] /\ U.saved[m] = V.saved[m] BY <1>4
      <3>3. ASSUME NEW q, V.dir[m] # None, Walk(V.fat, V.dir[m].clust, q)
            PROVE  Walk(U.fat, V.dir[m].clust, q) /\ \A i \in 1 .. Len(q) : U.data[q[i]] = V.data[q[i]]
        <4>1. Claims(Plain(V), m, V.dir[m].clust) BY <3>3, ClaimedByEntry
        <4>2. \A i \in 1 .. Len(q) : U.data[q[i]] = V.data[q[i]] BY <1>6, <2>2, <3>3, <4>1
        <4> QED BY <1>4, <3>3, <4>2
      <3> QED BY <3>1, <3>2, <3>3, StoreFrame
    <2> QED BY <2>1, <2>2
  <1>8. FileOf(V, o, t, FALSE) BY <1>1 DEF Safe
  <1>9. FileOf(U, o, t, late)
    <2>1. Sole(V, t) /\ \E q : Fine(V, f, q) BY <1>8 DEF FileOf
    <2>2. Sole(U, t) BY <1>4, <2>1 DEF Sole
    <2>3. CASE late BY <2>2, <2>3 DEF FileOf
    <2>4. CASE ~ late BY <1>4, <1>8, <2>2, <2>4 DEF FileOf
    <2> QED BY <2>3, <2>4
  <1>10. ASSUME NEW u \in Tasks, u # t PROVE FileOf(U, o, u, late)
    <2>1. FileOf(V, o, u, FALSE) BY <1>1 DEF Safe
    <2>2. PICK g : g = V.fil[u] OBVIOUS
    <2>3. ASSUME g.name # None, NEW q, Fine(V, g, q) PROVE Fine(U, g, q)
      <3>1. Sole(V, u) BY <2>1, <2>2, <2>3 DEF FileOf
      <3>2. g.name # f.name BY <1>10, <2>2, <3>1 DEF Sole
      <3>3. g.name \in Names /\ Walk(V.fat, g.sclust, q) BY <2>3 DEF Fine
      <3>4. Claims(Plain(V), g.name, g.sclust) BY <2>2, <3>3, ClaimedByFile
      <3>5. \A i \in 1 .. Len(q) : U.data[q[i]] = V.data[q[i]] BY <1>6, <3>2, <3>3, <3>4
      <3>6. Walk(U.fat, g.sclust, q) /\ U.dir[g.name] = V.dir[g.name] /\ U.saved[g.name] \in {None, V.saved[g.name]}
        BY <1>4, <3>3
      <3> QED BY <1>1, <1>4, <2>3, <3>5, <3>6, FineFrame
    <2>4. U.fil[u] = g BY <1>4, <2>2
    <2>5. V.fil[u].name # None => Sole(U, u) BY <1>4, <2>1 DEF FileOf, Sole
    <2> QED BY <2>1, <2>2, <2>3, <2>4, <2>5 DEF FileOf
  <1>11. \A u \in Tasks : FileOf(U, o, u, late) BY <1>9, <1>10
  <1> QED BY <1>4, <1>7, <1>11 DEF Safe, Kept

\* What is saved of a file is in its text, so where the text is it is too.
LEMMA SavedInText ==
  ASSUME NEW V, NEW f, NEW p, Fine(V, f, p), NEW n, n = f.name, StoreOf(V, n), V.saved[n] # None,
         NEW q, Holds(V, n, q), NEW data,
         \A i \in 1 .. Len(V.saved[n]) : i <= Len(f.text) => f.text[i] \in {Unknown, data[p[At(i)]][In(i)]}
  PROVE  Match(V.saved[n], q, data)
  <1>1. PICK text : text = V.saved[n] OBVIOUS
  <1>2. /\ Len(text) \in Nat /\ Len(f.text) \in Nat /\ Units \in Nat
        /\ Len(text) <= V.dir[n].size /\ V.dir[n].size \in Nat
    <2>1. IsList(text) /\ IsList(f.text) BY <1>1 DEF StoreOf, Fine
    <2> QED BY <1>1, <2>1, ListLength, FatAssumption DEF StoreOf
  <1>3. Walk(V.fat, V.dir[n].clust, q) /\ Len(text) <= Units * Len(q) BY <1>1 DEF Holds
  <1>4. /\ Walk(V.fat, f.sclust, p) /\ Len(f.text) <= Units * Len(p)
        /\ V.dir[n].size <= f.fsize /\ f.fsize <= Len(f.text) /\ f.fsize \in Nat
        /\ V.dir[n].clust \in {0, f.sclust}
        /\ \A i \in 1 .. Len(text) : text[i] \in {Unknown, f.text[i]}
    BY <1>1 DEF Fine
  <1>5. ASSUME NEW i \in 1 .. Len(text) PROVE text[i] \in {Unknown, data[q[At(i)]][In(i)]}
    <2>1. i \in Nat \ {0} /\ i <= Len(f.text) BY <1>2, <1>4
    <2>2. Len(q) \in Nat BY <1>3, WalkLength
    <2>3. Len(p) \in Nat BY <1>4, WalkLength
    <2>4. i <= Units * Len(q) /\ i <= Units * Len(p)
      <3>1. Units * Len(q) \in Nat /\ Units * Len(p) \in Nat BY <1>2, <2>2, <2>3
      <3> QED BY <1>2, <1>3, <1>4, <2>1, <3>1
    <2>5. At(i) \in 1 .. Len(q) /\ At(i) \in 1 .. Len(p) BY <2>1, <2>2, <2>3, <2>4, Place
    <2>6. V.dir[n].clust = f.sclust
      <3>1. Len(q) # 0 BY <2>2, <2>5
      <3>2. V.dir[n].clust \in Clusters BY <1>3, <3>1, WalkLength
      <3> QED BY <1>4, <3>2, ClusterNumbers
    <2>7. q[At(i)] = p[At(i)] BY <1>3, <1>4, <2>5, <2>6, WalksAgree
    <2>8. f.text[i] \in {Unknown, data[p[At(i)]][In(i)]} BY <1>1, <2>1
    <2> QED BY <1>4, <2>7, <2>8
  <1> QED BY <1>1, <1>5 DEF Match

-----------------------------------------------------------------------------
(* The buffer of a file goes to the disk.                                  *)

Clean(f) == [f EXCEPT !.dirty = FALSE]

\* The files f and g differ in their flags at most.
Twins(f, g) ==
    /\ DOMAIN f = DOMAIN Closed /\ DOMAIN g = DOMAIN Closed
    /\ f.name = g.name /\ f.sclust = g.sclust /\ f.clust = g.clust /\ f.fptr = g.fptr /\ f.fsize = g.fsize
    /\ f.dsect = g.dsect /\ f.buf = g.buf /\ f.text = g.text /\ f.err = g.err

LEMMA CleanTwins ==
  ASSUME NEW f, DOMAIN f = DOMAIN Closed PROVE Twins(Clean(f), f) /\ ~ Clean(f).dirty /\ Clean(f).written = f.written
  BY DEF Clean, Twins, Closed

LEMMA TwinsFits ==
  ASSUME NEW v, NEW f, NEW g, Fits(v, f), Twins(g, f) PROVE Fits(v, g)
  BY DEF Fits, Twins, FileOK

LEMMA TwinsPlaced ==
  ASSUME NEW f, NEW g, Twins(g, f), NEW p
  PROVE  (Placed(f, p) => Placed(g, p)) /\ (Rest(f, p) => Rest(g, p))
  BY DEF Twins, Placed, Rest

\* The volume V with the buffer of f on the disk.
Flushed(V, U, f) ==
    Formed(U) /\ U.fat = V.fat /\ U.dir = V.dir /\ U.saved = V.saved /\ U.data = Sectors(V.data, f)

LEMMA FineClean ==
  ASSUME NEW V, Formed(V), NEW f, NEW p, Fine(V, f, p), NEW g, Twins(g, f), ~ g.dirty, NEW U, Flushed(V, U, f)
  PROVE  Fine(U, g, p)
  <1>1. U.fat = V.fat /\ U.dir = V.dir /\ U.saved = V.saved /\ U.data = Sectors(V.data, f) BY DEF Flushed
  <1>2. /\ g.name = f.name /\ g.sclust = f.sclust /\ g.fptr = f.fptr /\ g.fsize = f.fsize
        /\ g.dsect = f.dsect /\ g.buf = f.buf /\ g.text = f.text
    BY DEF Twins
  <1>3. Sectors(U.data, g) = Sectors(V.data, f) BY <1>1 DEF Sectors
  <1>4. g.dsect # 0 => g.buf = U.data[g.dsect]
    <2>1. ASSUME f.dsect # 0 PROVE f.buf = U.data[f.dsect]
      <3>1. CASE ~ f.dirty
        <4>1. f.buf = V.data[f.dsect] BY <2>1, <3>1 DEF Fine
        <4>2. U.data = V.data BY <1>1, <3>1 DEF Sectors
        <4> QED BY <4>1, <4>2
      <3>2. CASE f.dirty
        <4>1. U.data = [V.data EXCEPT ![f.dsect] = f.buf] BY <1>1, <3>2 DEF Sectors
        <4>2. Walk(V.fat, f.sclust, p) /\ \E i \in 1 .. Len(p) : p[i] = f.dsect BY <2>1 DEF Fine
        <4>3. f.dsect \in Clusters BY <4>2, WalkLength
        <4>4. DOMAIN V.data = Clusters BY DEF Formed
        <4> QED BY <4>1, <4>3, <4>4
      <3> QED BY <3>1, <3>2
    <2> QED BY <1>2, <2>1
  <1> QED BY <1>1, <1>2, <1>3, <1>4 DEF Fine

LEMMA FineFlushed ==
  ASSUME NEW V, Formed(V), NEW f, f.dirty, NEW p, Fine(V, f, p), NEW U, Flushed(V, U, f)
  PROVE  Fine(U, f, p)
  <1>1. U.fat = V.fat /\ U.dir = V.dir /\ U.saved = V.saved /\ U.data = Sectors(V.data, f) BY DEF Flushed
  <1>2. Walk(V.fat, f.sclust, p) /\ (f.dsect # 0 => \E i \in 1 .. Len(p) : p[i] = f.dsect) BY DEF Fine
  <1>3. f.dsect \in Clusters BY <1>2, WalkLength DEF Fine
  <1>4. U.data = [V.data EXCEPT ![f.dsect] = f.buf] BY <1>1 DEF Sectors
  <1>5. Sectors(U.data, f) = U.data
    <2>1. Sectors(U.data, f) = [U.data EXCEPT ![f.dsect] = f.buf] BY DEF Sectors
    <2>2. DOMAIN V.data = Clusters BY DEF Formed
    <2> QED BY <1>3, <1>4, <2>1, <2>2
  <1>6. Sectors(U.data, f) = Sectors(V.data, f) BY <1>1, <1>5
  <1> QED BY <1>1, <1>6 DEF Fine

LEMMA FlushedOwn ==
  ASSUME NEW V, NEW f, NEW p, Fine(V, f, p), StoreOf(V, f.name), NEW U, Flushed(V, U, f)
  PROVE  StoreOf(U, f.name) /\ KeptOf(V, U, f.name)
  <1>1. U.fat = V.fat /\ U.dir = V.dir /\ U.saved = V.saved /\ U.data = Sectors(V.data, f) BY DEF Flushed
  <1>2. ASSUME V.saved[f.name] # None, NEW q, Holds(V, f.name, q) PROVE Holds(U, f.name, q)
    <2>1. PICK n : n = f.name OBVIOUS
    <2>2. \A i \in 1 .. Len(V.saved[n]) : i <= Len(f.text) => f.text[i] \in {Unknown, U.data[p[At(i)]][In(i)]}
      <3>1. IsList(f.text) /\ Match(f.text, p, U.data) BY <1>1 DEF Fine
      <3>2. Len(f.text) \in Nat BY <3>1, ListLength
      <3>3. IsList(V.saved[n]) BY <1>2, <2>1 DEF StoreOf
      <3>4. Len(V.saved[n]) \in Nat BY <3>3, ListLength
      <3>5. \A i \in 1 .. Len(V.saved[n]) : i <= Len(f.text) => i \in 1 .. Len(f.text) BY <3>2, <3>4
      <3> QED BY <3>1, <3>5 DEF Match
    <2>3. StoreOf(V, n) /\ V.saved[n] # None /\ Holds(V, n, q) BY <1>2, <2>1
    <2>4. Match(V.saved[n], q, U.data) BY <2>1, <2>2, <2>3, SavedInText
    <2> QED BY <1>1, <1>2, <2>1, <2>4 DEF Holds
  <1>3. StoreOf(U, f.name) BY <1>1, <1>2 DEF StoreOf
  <1> QED BY <1>2, <1>3, <1>1 DEF KeptOf

LEMMA FlushLeads ==
  ASSUME NEW V, NEW o, Sound(V, o), NEW t \in Tasks, NEW h, Has(V, t, h), h.name # None, NEW p, Fine(V, h, p),
         NEW f, Fits(Plain(V), f), f.name = h.name, f.dirty = h.dirty, f.dsect = h.dsect, f.buf = h.buf,
         NEW q, Fine(V, f, q), Busy(o, t) \/ Rest(f, q)
  PROVE  \E W : /\ Leads(FlushBuffer(t, f), V, W, o) /\ Sound(W, o) /\ Flushed(V, W, f)
                /\ W.fil[t] \in {h, Clean(f)} /\ Fits(Plain(W), Clean(f)) /\ Fine(W, Clean(f), q)
  <1>1. Formed(V) /\ Safe(V, o, FALSE) /\ Sane(Plain(V)) /\ h = V.fil[t] /\ StoreOf(V, h.name)
    <2>1. h.name \in Names BY DEF Fine
    <2> QED BY <2>1 DEF Sound, Safe, Has
  <1>2. PICK g : g = Clean(f) OBVIOUS
  <1>3. DOMAIN f = DOMAIN Closed BY DEF Fits, FileOK
  <1>4. Twins(g, f) /\ ~ g.dirty BY <1>2, <1>3, CleanTwins
  <1>5. Fits(Plain(V), g)
    <2>1. PICK v : v = Plain(V) OBVIOUS
    <2>2. Fits(v, f) BY <2>1
    <2>3. Fits(v, g) BY <1>4, <2>2, TwinsFits
    <2> QED BY <2>1, <2>3
  <1>6. CASE ~ f.dirty
    <2>1. FlushBuffer(t, f) = << >> BY <1>6 DEF FlushBuffer
    <2>2. Flushed(V, V, f) BY <1>1, <1>6 DEF Flushed, Sectors
    <2>3. Fine(V, g, q) BY <1>1, <1>4, <2>2, FineClean
    <2>4. Leads(FlushBuffer(t, f), V, V, o) BY <1>1, <2>1, LeadsNone
    <2> QED BY <1>1, <1>2, <1>5, <2>2, <2>3, <2>4
  <1>7. CASE f.dirty
    <2>1. PICK c : c = f.dsect OBVIOUS
    <2>2. PICK x : x = f.buf OBVIOUS
    <2>3. PICK k \in 1 .. Len(p) : c = p[k]
      <3>1. h.dirty BY <1>7
      <3> QED BY <2>1, <3>1 DEF Fine
    <2>4. c \in Clusters
      <3>1. Walk(V.fat, h.sclust, p) BY DEF Fine
      <3> QED BY <2>3, <3>1, WalkLength
    <2>5. DOMAIN x = 1 .. Units BY <2>2 DEF Fine
    <2>6. PICK U : U = Redata(V, c, x) OBVIOUS
    <2>7. /\ Formed(U) /\ U.fat = V.fat /\ U.dir = V.dir /\ U.fil = V.fil /\ U.saved = V.saved
          /\ U.data = [V.data EXCEPT ![c] = x]
      BY <1>1, <2>4, <2>5, <2>6, RedataFields
    <2>8. Flushed(V, U, f) /\ Flushed(V, U, h)
      <3>1. Sectors(V.data, f) = [V.data EXCEPT ![c] = x] BY <1>7, <2>1, <2>2 DEF Sectors
      <3>2. Sectors(V.data, h) = [V.data EXCEPT ![c] = x] BY <1>7, <2>1, <2>2 DEF Sectors
      <3> QED BY <2>7, <3>1, <3>2 DEF Flushed
    <2>9. StoreOf(U, h.name) /\ KeptOf(V, U, h.name) BY <1>1, <2>8, FlushedOwn
    <2>10. \A r : Fine(V, h, r) => Fine(U, h, r)
      <3>1. h.dirty BY <1>7
      <3> QED BY <1>1, <2>8, <3>1, FineFlushed
    <2>11. Safe(U, o, FALSE) /\ Kept(V, U)
      <3>1. Walk(V.fat, h.sclust, p) BY DEF Fine
      <3> QED BY <1>1, <2>3, <2>5, <2>6, <2>9, <2>10, <3>1, DataSafe
    <2>12. Fine(U, g, q) BY <1>1, <1>4, <2>8, FineClean
    <2>13. Opened(U, o, t, g)
      <3>1. FileOf(V, o, t, FALSE) BY <1>1 DEF Safe
      <3>2. g.name = h.name BY <1>4 DEF Twins
      <3>3. \A u \in Tasks : u # t => U.fil[u].name # g.name BY <1>1, <2>7, <3>1, <3>2 DEF FileOf, Sole
      <3>4. ~ Busy(o, t) => Rest(g, q) BY <1>4, TwinsPlaced
      <3> QED BY <2>12, <3>3, <3>4 DEF Opened
    <2>14. U = Take(V, DataStep(c, x)) BY <2>6, DataTake
    <2>15. PICK W : Leads(<<DataStep(c, x), FilStep(t, g)>>, V, W, o) /\ Gives(U, W, o, t, g)
      BY <1>5, <2>11, <2>13, <2>14, DataFilLeads
    <2>16. FlushBuffer(t, f) = <<DataStep(c, x), FilStep(t, g)>>
      BY <1>2, <1>7, <2>1, <2>2 DEF FlushBuffer, Clean
    <2>17. Around(U, W) /\ Sound(W, o) /\ W.fil[t] = g /\ Fits(Plain(W), g) BY <2>15 DEF Gives, Has
    <2>18. Fine(W, g, q) BY <2>12, <2>17, AroundSame
    <2>19. Flushed(V, W, f)
      <3>1. Formed(W) BY <2>17 DEF Sound, Safe
      <3> QED BY <2>8, <2>17, <3>1 DEF Flushed, Around
    <2> QED BY <1>2, <2>15, <2>16, <2>17, <2>18, <2>19
  <1> QED BY <1>6, <1>7

-----------------------------------------------------------------------------
(* f_sync() and f_close().                                                 *)

LEMMA EntryLeads ==
  ASSUME NEW V, NEW o, Sound(V, o), NEW t \in Tasks, NEW h, Has(V, t, h), NEW f, Fits(Plain(V), f), f.name # None,
         h.name = f.name, h.sclust = f.sclust, h.fsize = f.fsize, NEW p, Fine(V, f, p),
         NEW e, e = [clust |-> f.sclust, size |-> f.fsize]
  PROVE  \E W : /\ Leads(<<DirStep(f.name, e)>>, V, W, o) /\ Sound(W, o)
                /\ W.fat = V.fat /\ W.data = V.data /\ W.saved = V.saved /\ W.fil = V.fil /\ W.dir[f.name] = e
                /\ Fits(Plain(W), f) /\ Fine(W, f, p)
  <1>1. PICK n : n = f.name OBVIOUS
  <1>2. n \in Names /\ n \in Owners BY <1>1 DEF Fine, Owners
  <1>3. Formed(V) /\ Safe(V, o, FALSE) /\ h = V.fil[t] /\ StoreOf(V, n) BY <1>2 DEF Sound, Safe, Has
  <1>4. PICK s : s = DirStep(n, e) OBVIOUS
  <1>5. PICK W : W = Redir(V, n, e) OBVIOUS
  <1>6. W = Take(V, s) BY <1>4, <1>5, DirTake
  <1>7. Except(V, W, n) /\ W.saved = V.saved /\ W.dir = [V.dir EXCEPT ![n] = e] /\ W.dir[n] = e
    BY <1>2, <1>3, <1>5, RedirExcept
  <1>8. W.fat = V.fat /\ W.fil = V.fil /\ W.data = V.data BY <1>7 DEF Except
  <1>9. f.sclust \in Starts /\ f.fsize \in Nat /\ e.clust = f.sclust /\ e.size = f.fsize /\ e # None
    <2>1. f.sclust \in Starts /\ f.fsize \in Nat BY DEF Fits, FileOK, Fine
    <2>2. e \in Entries BY <2>1 DEF Entries, Starts
    <2> QED BY <2>1, <2>2, FatAssumption
  <1>10. /\ V.dir[n] # None /\ V.dir[n].clust \in {0, f.sclust} /\ V.dir[n].size <= f.fsize
         /\ Walk(V.fat, f.sclust, p) /\ f.fsize <= Len(f.text) /\ Len(f.text) <= Units * Len(p)
    BY <1>1 DEF Fine
  <1>11. f.fsize <= Units * Len(p)
    <2>1. IsList(f.text) BY DEF Fine
    <2>2. Len(f.text) \in Nat BY <2>1, ListLength
    <2>3. Len(p) \in Nat BY <1>10, WalkLength
    <2>4. Units * Len(p) \in Nat BY <2>3, FatAssumption
    <2> QED BY <1>9, <1>10, <2>2, <2>4
  <1>12. ASSUME NEW q, V.saved[n] # None, Holds(V, n, q) PROVE Holds(W, n, q)
    <2>1. Walk(V.fat, V.dir[n].clust, q) BY <1>12 DEF Holds
    <2>2. Walk(W.fat, f.sclust, q)
      <3>1. CASE V.dir[n].clust = f.sclust BY <1>8, <2>1, <3>1
      <3>2. CASE V.dir[n].clust # f.sclust
        <4>1. V.dir[n].clust \notin Clusters BY <1>10, <3>2, ClusterNumbers
        <4>2. Len(q) = 0 BY <2>1, <4>1, WalkLength
        <4>3. q = << >> BY <2>1, <4>2, WalkLength
        <4> QED BY <4>3, EmptyWalk
      <3> QED BY <3>1, <3>2
    <2> QED BY <1>7, <1>8, <1>9, <1>12, <2>2 DEF Holds
  <1>13. StoreOf(W, n)
    <2>1. V.saved[n] # None => IsList(V.saved[n]) /\ Len(V.saved[n]) <= f.fsize
      <3>1. ASSUME V.saved[n] # None PROVE IsList(V.saved[n]) /\ Len(V.saved[n]) <= f.fsize
        <4>1. IsList(V.saved[n]) /\ Len(V.saved[n]) <= V.dir[n].size /\ V.dir[n].size \in Nat
          BY <1>3, <3>1 DEF StoreOf
        <4>2. Len(V.saved[n]) \in Nat BY <4>1, ListLength
        <4> QED BY <1>9, <1>10, <4>1, <4>2
      <3> QED BY <3>1
    <2> QED BY <1>3, <1>7, <1>8, <1>9, <1>10, <1>11, <1>12, <2>1 DEF StoreOf
  <1>14. KeptOf(V, W, n) BY <1>7, <1>12 DEF KeptOf
  <1>15. ASSUME NEW g, g.name = n, g.sclust = f.sclust, g.fsize = f.fsize, NEW q, Fine(V, g, q) PROVE Fine(W, g, q)
    BY <1>7, <1>8, <1>9, <1>15 DEF Fine
  <1>16. \A u \in Tasks : V.fil[u].name = n => \A q : Fine(V, V.fil[u], q) => Fine(W, V.fil[u], q)
    <2>1. FileOf(V, o, t, FALSE) BY <1>3 DEF Safe
    <2>2. \A u \in Tasks : V.fil[u].name = n => u = t BY <1>1, <1>3, <2>1 DEF FileOf, Sole
    <2>3. h.name = n BY <1>1
    <2> QED BY <1>3, <1>15, <2>2, <2>3
  <1>17. Except(V, W, n) BY <1>7
  <1>18. Safe(W, o, FALSE) /\ Kept(V, W) BY <1>2, <1>3, <1>13, <1>14, <1>16, <1>17, NameSafe
  <1>19. PICK v : v = Plain(V) OBVIOUS
  <1>20. Sane(v) /\ e.clust \in Starts /\ Claimable(v, n, e.clust)
    BY <1>1, <1>9, <1>19 DEF Fits
  <1>21. PICK w : Runs(<<DirStep(n, e)>>, v, w, TRUE) /\ Sane(w) BY <1>2, <1>20, DirRuns
  <1>22. Leads(<<s>>, V, W, o) /\ Sound(W, o) BY <1>4, <1>6, <1>18, <1>19, <1>21, StepSound
  <1>23. Fits(Plain(W), f)
    <2>1. PICK x : x = Plain(W) OBVIOUS
    <2>2. Sane(x) BY <1>22, <2>1 DEF Sound
    <2>3. Claims(x, n, f.sclust)
      <3>1. W.dir[n] # None /\ W.dir[n].clust = f.sclust BY <1>7, <1>9
      <3> QED BY <1>2, <2>1, <3>1, ClaimedByEntry
    <2>4. Claimable(x, n, f.sclust) BY <1>2, <1>9, <2>2, <2>3, ClaimedClaimable
    <2> QED BY <1>1, <2>1, <2>2, <2>4 DEF Fits
  <1>24. Fine(W, f, p) BY <1>1, <1>15
  <1> QED BY <1>1, <1>4, <1>7, <1>8, <1>22, <1>23, <1>24

LEMMA BeginList ==
  ASSUME NEW q, IsList(q), NEW n \in Nat, n <= Len(q)
  PROVE  /\ IsList(SubSeq(q, 1, n)) /\ Len(SubSeq(q, 1, n)) = n
         /\ \A i \in 1 .. n : SubSeq(q, 1, n)[i] = q[i]
  <1>1. PICK Z : q \in Seq(Z) BY DEF IsList
  <1>2. Len(q) \in Nat BY <1>1
  <1>3. SubSeq(q, 1, n) \in Seq(Z) /\ Len(SubSeq(q, 1, n)) = n BY <1>1, <1>2
  <1>4. \A i \in 1 .. n : SubSeq(q, 1, n)[i] = q[i] BY <1>1, <1>2
  <1> QED BY <1>3, <1>4 DEF IsList

LEMMA SavedLeads ==
  ASSUME NEW V, NEW o, Sound(V, o), NEW t \in Tasks, NEW h, Has(V, t, h), h.name # None, ~ h.dirty,
         NEW p, Fine(V, h, p), NEW n, n = h.name, V.dir[n] = [clust |-> h.sclust, size |-> h.fsize],
         NEW text, text = SubSeq(h.text, 1, h.fsize)
  PROVE  \E W : Leads(<<SavedStep(n, text)>>, V, W, o) /\ Sound(W, o)
  <1>1. n \in Names BY DEF Fine
  <1>2. Formed(V) /\ Safe(V, o, FALSE) /\ h = V.fil[t] /\ StoreOf(V, n) BY <1>1 DEF Sound, Safe, Has
  <1>3. PICK s : s = SavedStep(n, text) OBVIOUS
  <1>4. PICK W : W = Resave(V, n, text) OBVIOUS
  <1>5. W = Take(V, s) BY <1>3, <1>4, SavedTake
  <1>6. Except(V, W, n) /\ W.dir = V.dir /\ W.saved = [V.saved EXCEPT ![n] = text] /\ W.saved[n] = text
    BY ONLY <1>1, <1>2, <1>4, ResaveExcept
  <1>7. W.fat = V.fat /\ W.fil = V.fil /\ W.data = V.data BY <1>6 DEF Except
  <1>8. IsList(h.text) /\ h.fsize \in Nat /\ h.fsize <= Len(h.text) /\ Len(h.text) <= Units * Len(p)
        /\ Walk(V.fat, h.sclust, p) /\ Match(h.text, p, V.data)
    BY DEF Fine, Sectors
  <1>9. Len(h.text) \in Nat /\ h.fsize <= Units * Len(p)
    <2>1. Len(h.text) \in Nat BY <1>8, ListLength
    <2>2. Len(p) \in Nat BY <1>8, WalkLength
    <2>3. Units * Len(p) \in Nat BY <2>2, FatAssumption
    <2> QED BY <1>8, <2>1, <2>3
  <1>10. IsList(text) /\ Len(text) = h.fsize /\ \A i \in 1 .. h.fsize : text[i] = h.text[i] BY <1>8, BeginList
  <1>11. Match(text, p, W.data)
    <2>1. \A i \in 1 .. Len(text) : i \in 1 .. Len(h.text) BY <1>8, <1>9, <1>10
    <2> QED BY <1>7, <1>8, <1>10, <2>1 DEF Match
  <1>12. W.dir[n] = V.dir[n] /\ W.dir[n].clust = h.sclust /\ W.dir[n].size = h.fsize BY <1>6
  <1>13. Holds(W, n, p) BY <1>6, <1>7, <1>8, <1>9, <1>10, <1>11, <1>12 DEF Holds
  <1>14. StoreOf(W, n)
    <2>1. V.dir[n] # None BY DEF Fine
    <2>2. W.dir[n].size \in Nat /\ Walk(W.fat, W.dir[n].clust, p) /\ W.dir[n].size <= Units * Len(p)
      BY <1>7, <1>8, <1>9, <1>12
    <2>3. W.saved[n] = text /\ Len(text) = W.dir[n].size /\ IsList(text) /\ W.dir[n] # None BY <1>6, <1>10, <1>12, <2>1
    <2>4. Len(W.saved[n]) <= W.dir[n].size BY ONLY <2>2, <2>3
    <2> QED BY ONLY <1>13, <2>2, <2>3, <2>4 DEF StoreOf
  <1>15. KeptOf(V, W, n) BY <1>6, <1>7 DEF KeptOf, Holds
  <1>16. ASSUME NEW q, Fine(V, h, q) PROVE Fine(W, h, q)
    <2>1. \A i \in 1 .. Len(W.saved[h.name]) : W.saved[h.name][i] \in {Unknown, h.text[i]} BY <1>6, <1>10
    <2> QED BY <1>6, <1>7, <1>16, <2>1 DEF Fine
  <1>17. \A u \in Tasks : V.fil[u].name = n => \A q : Fine(V, V.fil[u], q) => Fine(W, V.fil[u], q)
    <2>1. FileOf(V, o, t, FALSE) BY <1>2 DEF Safe
    <2>2. \A u \in Tasks : V.fil[u].name = n => u = t BY <1>2, <2>1 DEF FileOf, Sole
    <2> QED BY <1>2, <1>16, <2>2
  <1>18. Except(V, W, n) BY <1>6
  <1>19. Safe(W, o, FALSE) /\ Kept(V, W) BY <1>1, <1>2, <1>14, <1>15, <1>17, <1>18, NameSafe
  <1>20. Leads(<<s>>, V, W, o) BY <1>2, <1>5, <1>19, LeadsOne
  <1>21. Plain(W) = Plain(V) BY <1>6, <1>7 DEF Plain
  <1>22. Sound(W, o) BY <1>19, <1>21 DEF Sound
  <1> QED BY <1>3, <1>20, <1>22

LEMMA LeadsFour ==
  ASSUME NEW a, NEW b, NEW c, NEW d, NEW U, NEW V, NEW W, NEW X, NEW Y, NEW o,
         Leads(<<a>>, U, V, o), Leads(<<b>>, V, W, o), Leads(<<c>>, W, X, o), Leads(<<d>>, X, Y, o)
  PROVE  Leads(<<a, b, c, d>>, U, Y, o)
  <1>1. PICK q : q = <<a>> \o <<b>> OBVIOUS
  <1>2. Leads(q, U, W, o) BY <1>1, LeadsJoin
  <1>3. PICK r : r = q \o <<c>> OBVIOUS
  <1>4. Leads(r, U, X, o) BY <1>2, <1>3, LeadsJoin
  <1>5. Leads(r \o <<d>>, U, Y, o) BY <1>4, LeadsJoin
  <1>6. <<a, b, c, d>> = ((<<a>> \o <<b>>) \o <<c>>) \o <<d>> BY FourSteps
  <1>7. <<a, b, c, d>> = r \o <<d>> BY ONLY <1>1, <1>3, <1>6
  <1> QED BY ONLY <1>5, <1>7

\* What the call of a task starts with when it does not move the file's pointer.
LEMMA SyncLeads ==
  ASSUME NEW V, V = Now, NEW o, Sound(V, o), NEW t \in Tasks, fil[t].name # None, ~ Busy(o, t)
  PROVE  \E W : Leads(SyncSteps(t), V, W, o) /\ Sound(W, o)
  <1>1. PICK f : f = fil[t] OBVIOUS
  <1>2. V.fil = fil /\ V.dir = dir /\ Has(V, t, f) BY <1>1 DEF Now, Has
  <1>3. FileOf(V, o, t, FALSE) BY DEF Sound, Safe
  <1>4. PICK p : Fine(V, f, p) /\ Rest(f, p) BY <1>1, <1>2, <1>3 DEF FileOf
  <1>5. PICK v : v = Plain(V) OBVIOUS
  <1>6. Sane(v) /\ f = v.fil[t] BY <1>1, <1>2, <1>5, PlainFields DEF Sound
  <1>7. Fits(v, f) BY <1>6, FileFits
  <1>8. CASE ~ f.written
    <2>1. SyncSteps(t) = << >> BY <1>1, <1>8 DEF SyncSteps
    <2>2. Leads(SyncSteps(t), V, V, o) BY <2>1, LeadsNone DEF Sound
    <2> QED BY <2>2
  <1>9. CASE f.written
    <2>1. PICK g : g = Clean(f) OBVIOUS
    <2>2. Fits(Plain(V), f) BY <1>5, <1>7
    <2>3. PICK A : /\ Leads(FlushBuffer(t, f), V, A, o) /\ Sound(A, o) /\ Flushed(V, A, f)
                   /\ A.fil[t] \in {f, g} /\ Fits(Plain(A), g) /\ Fine(A, g, p)
      BY <1>1, <1>2, <1>4, <2>1, <2>2, FlushLeads
    <2>4. DOMAIN f = DOMAIN Closed BY <1>7 DEF Fits, FileOK
    <2>5. Twins(g, f) /\ ~ g.dirty BY <2>1, <2>4, CleanTwins
    <2>6. PICK h : h = A.fil[t] OBVIOUS
    <2>7. Has(A, t, h) /\ h.name = g.name /\ h.sclust = g.sclust /\ h.fsize = g.fsize /\ g.name # None
      BY <1>1, <2>3, <2>5, <2>6 DEF Twins, Has
    <2>8. PICK e : e = [clust |-> g.sclust, size |-> g.fsize] OBVIOUS
    <2>9. PICK B : /\ Leads(<<DirStep(g.name, e)>>, A, B, o) /\ Sound(B, o)
                   /\ B.fat = A.fat /\ B.data = A.data /\ B.saved = A.saved /\ B.fil = A.fil /\ B.dir[g.name] = e
                   /\ Fits(Plain(B), g) /\ Fine(B, g, p)
      BY <2>3, <2>7, <2>8, EntryLeads
    <2>10. PICK k : k = [f EXCEPT !.dirty = FALSE, !.written = FALSE] OBVIOUS
    <2>11. Twins(k, g) /\ ~ k.dirty /\ k.text = f.text
      BY <2>4, <2>1, <2>10 DEF Twins, Clean, Closed
    <2>12. Fits(Plain(B), k)
      <3>1. PICK x : x = Plain(B) OBVIOUS
      <3>2. Fits(x, g) BY <2>9, <3>1
      <3>3. Fits(x, k) BY <2>11, <3>2, TwinsFits
      <3> QED BY <3>1, <3>3
    <2>13. Fine(B, k, p)
      <3>1. Formed(B) BY <2>9 DEF Sound, Safe
      <3>2. Flushed(B, B, g) BY <2>5, <3>1 DEF Flushed, Sectors
      <3> QED BY <2>9, <2>11, <3>1, <3>2, FineClean
    <2>14. Opened(B, o, t, k)
      <3>1. FileOf(B, o, t, FALSE) BY <2>9 DEF Sound, Safe
      <3>2. B.fil[t].name = k.name /\ k.name # None
        BY <2>6, <2>7, <2>9, <2>11 DEF Twins
      <3>3. \A u \in Tasks : u # t => B.fil[u].name # k.name BY <3>1, <3>2 DEF FileOf, Sole
      <3>4. Rest(g, p) BY <1>4, <2>5, TwinsPlaced
      <3>5. Rest(k, p) BY <2>11, <3>4, TwinsPlaced
      <3> QED BY <2>13, <3>3, <3>5 DEF Opened
    <2>15. PICK C : Leads(<<FilStep(t, k)>>, B, C, o) /\ Gives(B, C, o, t, k)
      BY <2>9, <2>12, <2>14, FilLeads
    <2>16. Sound(C, o) /\ Around(B, C) /\ Has(C, t, k) BY <2>15 DEF Gives
    <2>17. Leads(<<FlushStep>>, C, C, o)
      <3>1. StillList(<<FlushStep>>) BY StillOne, StillSteps
      <3> QED BY <2>16, <3>1, LeadsStill DEF Sound
    <2>18. PICK text : text = SubSeq(k.text, 1, k.fsize) OBVIOUS
    <2>19. PICK D : Leads(<<SavedStep(k.name, text)>>, C, D, o) /\ Sound(D, o)
      <3>1. Fine(C, k, p) BY <2>13, <2>16, AroundSame
      <3>2. k.name # None /\ k.name = g.name /\ k.sclust = g.sclust /\ k.fsize = g.fsize
        BY <2>7, <2>11 DEF Twins
      <3>3. C.dir[k.name] = [clust |-> k.sclust, size |-> k.fsize] BY <2>8, <2>9, <2>16, <3>2 DEF Around
      <3> QED BY <2>11, <2>16, <2>18, <3>1, <3>2, <3>3, SavedLeads
    <2>20. Leads(<<DirStep(g.name, e), FilStep(t, k), FlushStep, SavedStep(k.name, text)>>, A, D, o)
      BY <2>9, <2>15, <2>17, <2>19, LeadsFour
    <2>21. SyncSteps(t) = FlushBuffer(t, f) \o <<DirStep(g.name, e), FilStep(t, k), FlushStep, SavedStep(k.name, text)>>
      <3>1. g.name = f.name /\ g.sclust = f.sclust /\ g.fsize = f.fsize BY <2>5 DEF Twins
      <3>2. k.name = f.name /\ k.fsize = f.fsize /\ k.text = f.text BY <2>5, <2>11 DEF Twins
      <3>3. dir[f.name] # None BY <1>2, <1>4 DEF Fine
      <3>4. e # None
        <4>1. e \in Entries BY <2>3, <2>8 DEF Fits, FileOK, Fine, Entries, Starts
        <4> QED BY <4>1, FatAssumption
      <3> QED BY <1>1, <1>9, <2>8, <2>10, <2>18, <3>1, <3>2, <3>3, <3>4 DEF SyncSteps
    <2>22. Leads(SyncSteps(t), V, D, o) BY <2>3, <2>20, <2>21, LeadsJoin
    <2> QED BY <2>19, <2>22
  <1> QED BY <1>8, <1>9

LEMMA CloseLeads ==
  ASSUME NEW V, V = Now, NEW o, Sound(V, o), NEW t \in Tasks, fil[t].name # None, ~ Busy(o, t)
  PROVE  \E W : Leads(SyncSteps(t) \o <<FilStep(t, Closed)>>, V, W, o) /\ Sound(W, o)
  <1>1. PICK U : Leads(SyncSteps(t), V, U, o) /\ Sound(U, o) BY SyncLeads
  <1>2. Fits(Plain(U), Closed)
    <2>1. PICK x : x = Plain(U) OBVIOUS
    <2>2. Sane(x) BY <1>1, <2>1 DEF Sound
    <2>3. Fits(x, Closed) BY <2>2, ClosedFile DEF Fits, Claimable
    <2> QED BY <2>1, <2>3
  <1>3. Opened(U, o, t, Closed) BY ClosedFile DEF Opened
  <1>4. PICK W : Leads(<<FilStep(t, Closed)>>, U, W, o) /\ Gives(U, W, o, t, Closed) BY <1>1, <1>2, <1>3, FilLeads
  <1>5. Leads(SyncSteps(t) \o <<FilStep(t, Closed)>>, V, W, o) BY <1>1, <1>4, LeadsJoin
  <1> QED BY <1>4, <1>5 DEF Gives

-----------------------------------------------------------------------------
(* The clusters that f_write() and f_lseek() go to.                        *)

\* More clusters of the chain.
LEMMA FineLonger ==
  ASSUME NEW V, NEW f, NEW p, Fine(V, f, p), NEW q, Walk(V.fat, f.sclust, q), Len(p) <= Len(q),
         \A i \in 1 .. Len(p) : q[i] = p[i]
  PROVE  Fine(V, f, q)
  <1>1. Walk(V.fat, f.sclust, p) /\ IsList(f.text) /\ Len(f.text) <= Units * Len(p) /\ Match(f.text, p, Sectors(V.data, f))
    BY DEF Fine
  <1>2. Len(p) \in Nat BY <1>1, WalkLength
  <1>3. Len(q) \in Nat BY WalkLength
  <1>4. Len(f.text) \in Nat /\ Units \in Nat BY <1>1, ListLength, FatAssumption
  <1>5. Units * Len(p) \in Nat /\ Units * Len(q) \in Nat /\ Units * Len(p) <= Units * Len(q) BY <1>2, <1>3, <1>4
  <1>6. Len(f.text) <= Units * Len(q) BY <1>1, <1>4, <1>5
  <1>7. ASSUME NEW i \in 1 .. Len(f.text) PROVE q[At(i)] = p[At(i)]
    <2>1. i \in Nat \ {0} /\ i <= Units * Len(p) BY <1>1, <1>4, <1>5
    <2>2. At(i) \in 1 .. Len(p) BY <1>2, <2>1, Place
    <2> QED BY <2>2
  <1>8. Match(f.text, q, Sectors(V.data, f)) BY <1>1, <1>7 DEF Match
  <1>9. f.dsect # 0 => \E i \in 1 .. Len(q) : q[i] = f.dsect
    <2>1. \A i \in 1 .. Len(p) : i \in 1 .. Len(q) BY <1>2, <1>3
    <2> QED BY <2>1 DEF Fine
  <1> QED BY <1>6, <1>8, <1>9 DEF Fine

\* The file g is f but for the place of its pointer and its flags.
Moved(g, f) ==
    /\ DOMAIN f = DOMAIN Closed /\ DOMAIN g = DOMAIN Closed
    /\ g.name = f.name /\ g.fsize = f.fsize /\ g.text = f.text
    /\ g.dsect = f.dsect /\ g.buf = f.buf /\ g.dirty = f.dirty

LEMMA FineMoved ==
  ASSUME NEW V, NEW f, NEW p, Fine(V, f, p), NEW g, Moved(g, f), g.sclust = f.sclust, g.fptr \in Nat,
         Len(f.text) <= f.fsize \/ Len(f.text) <= g.fptr
  PROVE  Fine(V, g, p)
  <1>1. Sectors(V.data, g) = Sectors(V.data, f) BY DEF Sectors, Moved
  <1> QED BY <1>1 DEF Fine, Moved

LEMMA FineBeyond ==
  ASSUME NEW V, NEW o, Sound(V, o), NEW W, Sound(W, o), Beyond(V, W), Carries(V, W.fat),
         NEW t \in Tasks, NEW f, Has(V, t, f), NEW p, Fine(V, f, p)
  PROVE  Fine(W, f, p) /\ Has(W, t, f) /\ Fits(Plain(W), f) /\ Walk(W.fat, f.sclust, p)
  <1>1. Formed(V) /\ Formed(W) BY DEF Sound, Safe
  <1>2. f = V.fil[t] /\ f = W.fil[t] BY DEF Has, Beyond
  <1>3. Walk(V.fat, f.sclust, p) /\ f.name \in Names BY DEF Fine
  <1>4. Walk(W.fat, f.sclust, p) BY <1>2, <1>3, ClaimedByFile DEF Carries
  <1>5. /\ W.dir[f.name] = V.dir[f.name] /\ W.saved[f.name] \in {None, V.saved[f.name]}
        /\ \A i \in 1 .. Len(p) : W.data[p[i]] = V.data[p[i]]
    BY DEF Beyond
  <1>6. Fine(W, f, p) BY <1>1, <1>4, <1>5, FineFrame
  <1>7. Fits(Plain(W), f)
    <2>1. PICK x : x = Plain(W) OBVIOUS
    <2>2. Sane(x) /\ x.fil[t] = f BY <1>2, <2>1, PlainFields DEF Sound
    <2>3. Fits(x, f) BY <2>2, FileFits
    <2> QED BY <2>1, <2>3
  <1> QED BY <1>2, <1>4, <1>6, <1>7 DEF Has

\* The walk q goes through the clusters of p, and to c in the place k.
Reaches(q, p, k, c) ==
    /\ Len(p) <= Len(q) /\ \A i \in 1 .. Len(p) : q[i] = p[i]
    /\ k \in 1 .. Len(q) /\ q[k] = c

LEMMA NextLeads ==
  ASSUME NEW V, V = Now, NEW o, Sound(V, o), NEW t \in Tasks, NEW f, Has(V, t, f), NEW p, Fine(V, f, p),
         NEW k \in 1 .. Len(p), f.clust = p[k], NEW r, r = CreateChain(f.clust)
  PROVE  /\ r.clst \in {0, 1} \cup Clusters /\ f.sclust \in Clusters
         /\ \E W : /\ Leads(r.steps, V, W, o) /\ Sound(W, o) /\ Beyond(V, W)
                   /\ Has(W, t, f) /\ Fits(Plain(W), f) /\ Fine(W, f, p)
                   /\ r.clst \in Clusters => \E q : Fine(W, f, q) /\ Reaches(q, p, k + 1, r.clst)
  <1>1. Walk(V.fat, f.sclust, p) /\ f.name \in Names BY DEF Fine
  <1>2. Len(p) \in Nat \ {0} /\ p # << >> /\ p[k] \in Clusters
    <2>1. Len(p) \in Nat BY <1>1, WalkLength
    <2>2. Len(p) # 0 BY <2>1
    <2> QED BY <1>1, <2>1, <2>2, WalkLength
  <1>3. f.sclust \in Clusters BY <1>1, <1>2, WalkLength
  <1>4. f.clust \in Clusters /\ f.clust \in Starts /\ f.clust # 0 BY <1>2, ClusterNumbers DEF Starts
  <1>5. r.clst \in {0, 1} \cup Clusters BY <1>4, CreateLeads
  <1>6. PICK W : /\ Leads(r.steps, V, W, o) /\ Sound(W, o) /\ Beyond(V, W) /\ Carries(V, W.fat)
                 /\ r.clst \in Clusters => W.fat[f.clust] = r.clst
    BY <1>4, CreateLeads
  <1>7. Fine(W, f, p) /\ Has(W, t, f) /\ Fits(Plain(W), f) /\ Walk(W.fat, f.sclust, p) BY <1>6, FineBeyond
  <1>8. ASSUME r.clst \in Clusters PROVE \E q : Fine(W, f, q) /\ Reaches(q, p, k + 1, r.clst)
    <2>1. W.fat[p[k]] = r.clst BY <1>6, <1>8
    <2>2. CASE k = Len(p)
      <3>1. Linked(W.fat) /\ Alone(W.fat, f.sclust)
        <4>1. Sane(Plain(W)) /\ Plain(W).fat = W.fat BY <1>6, PlainFields DEF Sound
        <4>2. Claims(Plain(W), f.name, f.sclust) BY <1>1, <1>7, ClaimedByFile DEF Has
        <4>3. f.name \in Owners BY <1>1 DEF Owners
        <4> QED BY <1>3, <4>1, <4>2, <4>3 DEF Sane, Apart
      <3>2. W.fat[p[Len(p)]] = r.clst BY <2>1, <2>2
      <3>3. PICK q : q = Append(p, r.clst) OBVIOUS
      <3>4. /\ Walk(W.fat, f.sclust, q) /\ Len(q) = Len(p) + 1 /\ \A i \in 1 .. Len(p) : q[i] = p[i]
            /\ q[Len(p) + 1] = r.clst
        BY <1>2, <1>3, <1>7, <1>8, <3>1, <3>2, <3>3, WalkOn
      <3>5. Len(p) <= Len(q) /\ k + 1 \in 1 .. Len(q) BY <1>2, <2>2, <3>4
      <3>6. Fine(W, f, q) BY <1>7, <3>4, <3>5, FineLonger
      <3> QED BY <2>2, <3>4, <3>5, <3>6 DEF Reaches
    <2>3. CASE k # Len(p)
      <3>1. k + 1 \in 1 .. Len(p) BY <1>2, <2>3
      <3>2. W.fat[p[k]] = p[k + 1] BY <1>7, <3>1, WalkLength
      <3> QED BY <1>2, <1>7, <2>1, <3>1, <3>2 DEF Reaches
    <2> QED BY <2>2, <2>3
  <1> QED BY <1>3, <1>5, <1>6, <1>7, <1>8

\* The chain of a file that has none yet begins with the cluster that CreateChain finds.
LEMMA BeginLeads ==
  ASSUME NEW V, V = Now, NEW o, Sound(V, o), NEW t \in Tasks, NEW f, Has(V, t, f), NEW p, Fine(V, f, p),
         NEW r, \/ r.clst = f.sclust /\ r.steps = << >> /\ f.sclust # 0
                \/ r = CreateChain(0) /\ f.sclust = 0,
         NEW g, Moved(g, f), g.fptr = 0, g.sclust = r.clst, g.clust = r.clst, Len(f.text) <= f.fsize
  PROVE  /\ r.clst \in {0} \cup Clusters /\ (r.clst = 0 => g.sclust = f.sclust)
         /\ \E W : /\ Leads(r.steps, V, W, o) /\ Sound(W, o) /\ Beyond(V, W)
                   /\ Has(W, t, f) /\ Fits(Plain(W), g)
                   /\ \E q : Fine(W, g, q) /\ (r.clst # 0 => Len(q) # 0 /\ q[1] = r.clst)
  <1>1. Walk(V.fat, f.sclust, p) /\ f.name \in Names BY DEF Fine
  <1>2. PICK v : v = Plain(V) OBVIOUS
  <1>3. Sane(v) /\ v.fil[t] = f BY <1>2, PlainFields DEF Sound, Has
  <1>4. Fits(v, f) BY <1>3, FileFits
  <1>5. f.sclust \in Starts /\ DOMAIN f = DOMAIN Closed BY <1>4 DEF Fits, FileOK
  <1>6. ASSUME NEW W, Sound(W, o), Beyond(V, W), Carries(V, W.fat), g.sclust = f.sclust
        PROVE  /\ Has(W, t, f) /\ Fits(Plain(W), g) /\ Fine(W, g, p)
    <2>1. Fine(W, f, p) /\ Has(W, t, f) /\ Fits(Plain(W), f) BY <1>6, FineBeyond
    <2>2. Fine(W, g, p) BY <1>6, <2>1, FineMoved
    <2>3. Fits(Plain(W), g)
      <3>1. PICK x : x = Plain(W) OBVIOUS
      <3>2. Fits(x, f) BY <2>1, <3>1
      <3>3. Alike(g, f) /\ g.clust \in Starts BY <1>5, <1>6 DEF Alike, Moved
      <3>4. Fits(x, g) BY <3>2, <3>3, AlikeFits
      <3> QED BY <3>1, <3>4
    <2> QED BY <2>1, <2>2, <2>3
  <1>7. CASE r.clst = f.sclust /\ r.steps = << >> /\ f.sclust # 0
    <2>1. Leads(r.steps, V, V, o) BY <1>7, LeadsNone DEF Sound
    <2>2. Beyond(V, V) /\ Carries(V, V.fat) BY DEF Beyond, Carries
    <2>3. Has(V, t, f) /\ Fits(Plain(V), g) /\ Fine(V, g, p) BY <1>6, <1>7, <2>2
    <2>4. r.clst \in Clusters BY <1>5, <1>7 DEF Starts
    <2>5. \E q : Fine(V, g, q) /\ Len(q) # 0 /\ q[1] = r.clst
      <3>1. CASE Len(p) # 0
        <4>1. p[1] = f.sclust BY <1>1, <3>1, WalkLength
        <4> QED BY <1>7, <2>3, <3>1, <4>1
      <3>2. CASE Len(p) = 0
        <4>1. PICK q : q = <<r.clst>> OBVIOUS
        <4>2. Walk(V.fat, g.sclust, q) /\ Len(q) = 1 /\ q[1] = r.clst BY <2>4, <4>1, FirstWalk
        <4>3. Len(p) <= Len(q) /\ \A i \in 1 .. Len(p) : q[i] = p[i] BY <3>2, <4>2
        <4>4. Fine(V, g, q) BY <2>3, <4>2, <4>3, FineLonger
        <4> QED BY <4>2, <4>4
      <3> QED BY <3>1, <3>2
    <2> QED BY <1>7, <2>1, <2>2, <2>3, <2>4, <2>5
  <1>8. CASE r = CreateChain(0) /\ f.sclust = 0
    <2>1. 0 \in Starts BY DEF Starts
    <2>2. PICK W : /\ Leads(r.steps, V, W, o) /\ Sound(W, o) /\ Beyond(V, W) /\ Carries(V, W.fat)
                   /\ r.clst # 0 => r.clst \in Clusters /\ Alone(W.fat, r.clst) /\ Unclaimed(Plain(W), r.clst)
      BY <1>8, <2>1, CreateLeads
    <2>3. CASE r.clst = 0
      <3>1. g.sclust = f.sclust BY <1>8, <2>3
      <3> QED BY <1>6, <2>2, <2>3, <3>1
    <2>4. CASE r.clst # 0
      <3>1. r.clst \in Clusters BY <2>2, <2>4
      <3>2. Fine(W, f, p) /\ Has(W, t, f) /\ Fits(Plain(W), f) BY <2>2, FineBeyond
      <3>3. Len(p) = 0 BY <1>1, <1>8, ClusterNumbers, WalkLength
      <3>4. PICK q : q = <<r.clst>> OBVIOUS
      <3>5. Walk(W.fat, g.sclust, q) /\ Len(q) = 1 /\ q[1] = r.clst BY <3>1, <3>4, FirstWalk
      <3>6. Fine(W, g, q)
        <4>1. IsList(f.text) /\ Len(f.text) <= Units * Len(p) /\ f.fsize \in Nat /\ f.fsize <= Len(f.text) BY <3>2 DEF Fine
        <4>2. Len(f.text) \in Nat /\ Units \in Nat BY <4>1, ListLength, FatAssumption
        <4>3. Len(f.text) = 0 /\ f.fsize = 0 /\ Len(f.text) <= Units * Len(q) BY <3>3, <3>5, <4>1, <4>2
        <4>4. f.dsect = 0 BY <3>2, <3>3 DEF Fine
        <4>5. Match(g.text, q, Sectors(W.data, g)) BY <4>3 DEF Match, Moved
        <4>6. W.dir[f.name].clust = 0 BY <1>8, <3>2 DEF Fine
        <4> QED BY <3>2, <3>5, <4>1, <4>3, <4>4, <4>5, <4>6 DEF Fine, Moved
      <3>7. Fits(Plain(W), g)
        <4>1. PICK x : x = Plain(W) OBVIOUS
        <4>2. Sane(x) /\ x.fat = W.fat BY <2>2, <4>1, PlainFields DEF Sound
        <4>3. FileOK(g)
          <5>1. FileOK(f) BY <3>2 DEF Fits
          <5> QED BY <3>1, <5>1 DEF FileOK, Moved, Starts
        <4>4. Claimable(x, g.name, g.sclust) BY <2>2, <2>4, <4>1, <4>2 DEF Claimable, Unclaimed
        <4> QED BY <4>1, <4>2, <4>3, <4>4 DEF Fits
      <3> QED BY <2>2, <2>4, <3>1, <3>2, <3>5, <3>6, <3>7
    <2> QED BY <2>3, <2>4
  <1> QED BY <1>7, <1>8

-----------------------------------------------------------------------------
(* f_write().                                                              *)

\* Before a turn of the loop: what is written over is not saved.
Writing(V, f, p) ==
    /\ ~ f.err /\ f.name # None /\ Placed(f, p) /\ f.fptr <= Len(f.text)
    /\ V.saved[f.name] # None => f.fptr >= f.fsize

LEMMA PutList ==
  ASSUME NEW text, IsList(text), NEW m \in Nat, NEW k \in Nat, NEW x, NEW new, new = Put(text, m, k, x)
  PROVE  /\ IsList(new) /\ Len(text) \in Nat /\ Len(new) \in Nat
         /\ Len(new) = IF m + k > Len(text) THEN m + k ELSE Len(text)
         /\ \A i \in 1 .. Len(new) :
               /\ i \in m + 1 .. m + k => new[i] = x
               /\ i \notin m + 1 .. m + k /\ i <= Len(text) => new[i] = text[i]
               /\ i \notin m + 1 .. m + k /\ ~ (i <= Len(text)) => new[i] = Unknown
  <1>1. Len(text) \in Nat BY ListLength
  <1>2. PICK n : n = IF m + k > Len(text) THEN m + k ELSE Len(text) OBVIOUS
  <1>3. n \in Nat BY <1>1, <1>2
  <1>4. new = [i \in 1 .. n |-> IF i \in m + 1 .. m + k THEN x ELSE IF i <= Len(text) THEN text[i] ELSE Unknown]
    BY <1>2 DEF Put
  <1>5. new = [i \in 1 .. n |-> new[i]] BY <1>4
  <1>6. IsList(new) /\ Len(new) = n BY <1>3, <1>5, FunctionList
  <1>7. ASSUME NEW i \in 1 .. n
        PROVE  /\ i \in m + 1 .. m + k => new[i] = x
               /\ i \notin m + 1 .. m + k /\ i <= Len(text) => new[i] = text[i]
               /\ i \notin m + 1 .. m + k /\ ~ (i <= Len(text)) => new[i] = Unknown
    BY ONLY <1>4
  <1> QED BY <1>1, <1>2, <1>3, <1>6, <1>7

\* Writing at the end of what is saved, or after it, leaves it in the text.
LEMMA PutSaved ==
  ASSUME NEW V, NEW f, NEW p, Fine(V, f, p), NEW n, n = f.name, StoreOf(V, n), V.saved[n] # None, f.fptr >= f.fsize,
         NEW k \in Nat, NEW x, NEW new, new = Put(f.text, f.fptr, k, x)
  PROVE  /\ \A i \in 1 .. Len(V.saved[n]) : V.saved[n][i] \in {Unknown, new[i]}
         /\ Len(V.saved[n]) \in Nat /\ Len(V.saved[n]) <= f.fptr
  <1>1. PICK text : text = V.saved[n] OBVIOUS
  <1>2. Len(text) \in Nat /\ Len(text) <= V.dir[n].size /\ V.dir[n].size \in Nat
    <2>1. IsList(text) BY <1>1 DEF StoreOf
    <2> QED BY <1>1, <2>1, ListLength DEF StoreOf
  <1>3. /\ V.dir[n].size <= f.fsize /\ f.fsize <= Len(f.text) /\ f.fsize \in Nat /\ f.fptr \in Nat /\ IsList(f.text)
        /\ \A i \in 1 .. Len(text) : text[i] \in {Unknown, f.text[i]}
    BY <1>1 DEF Fine
  <1>4. /\ Len(f.text) \in Nat /\ Len(new) \in Nat
        /\ Len(new) = IF f.fptr + k > Len(f.text) THEN f.fptr + k ELSE Len(f.text)
        /\ \A i \in 1 .. Len(new) : i \notin f.fptr + 1 .. f.fptr + k /\ i <= Len(f.text) => new[i] = f.text[i]
    BY <1>3, PutList
  <1>5. ASSUME NEW i \in 1 .. Len(text) PROVE text[i] \in {Unknown, new[i]}
    <2>1. i <= f.fptr /\ i <= Len(f.text) BY <1>2, <1>3
    <2>2. i \in 1 .. Len(new) /\ i \notin f.fptr + 1 .. f.fptr + k BY <1>2, <1>3, <1>4, <2>1
    <2>3. new[i] = f.text[i] BY <1>4, <2>1, <2>2
    <2> QED BY <1>3, <2>3
  <1>6. Len(text) <= f.fptr BY <1>2, <1>3
  <1> QED BY <1>1, <1>2, <1>5, <1>6

\* The chain has a cluster for the data at the file's pointer.
Aimed(f, p, k, r) ==
    /\ k \in Nat /\ r \in 0 .. Units - 1 /\ f.fptr = Units * k + r
    /\ k + 1 \in 1 .. Len(p) /\ f.clust = p[k + 1]

LEMMA AimedPlace ==
  ASSUME NEW f, NEW p, NEW k, NEW r, Aimed(f, p, k, r), NEW table, NEW s, Walk(table, s, p)
  PROVE  /\ f.fptr \in Nat /\ Len(p) \in Nat /\ f.clust \in Clusters
         /\ Units * k \in Nat /\ Units * k + Units <= Units * Len(p)
         /\ At(f.fptr + 1) = k + 1 /\ In(f.fptr + 1) = r + 1
         /\ \A i \in Nat \ {0} : At(i) = k + 1 => i = Units * k + In(i) /\ In(i) \in 1 .. Units
         /\ \A i \in Nat \ {0} : i <= Units * k => At(i) <= k
         /\ \A i \in Nat \ {0} : i > Units * k /\ i <= Units * k + Units => At(i) = k + 1
  <1>1. k \in Nat /\ r \in 0 .. Units - 1 /\ f.fptr = Units * k + r /\ k + 1 \in 1 .. Len(p) /\ f.clust = p[k + 1]
    BY DEF Aimed
  <1>2. Units \in Nat \ {0} BY FatAssumption
  <1>3. Len(p) \in Nat /\ p[k + 1] \in Clusters BY <1>1, WalkLength
  <1>4. Units * k \in Nat /\ Units * (k + 1) = Units * k + Units /\ Units * (k + 1) <= Units * Len(p)
    <2>1. PICK j : j = k + 1 OBVIOUS
    <2>2. j \in Nat /\ Len(p) \in Nat /\ j <= Len(p) /\ k <= j BY <1>1, <1>3, <2>1
    <2>3. Units * k \in Nat /\ Units * (k + 1) = Units * k + Units BY <1>1, <2>2, UnitsTimes
    <2>4. Units * j <= Units * Len(p) BY <2>2, UnitsTimes
    <2> QED BY <2>1, <2>3, <2>4
  <1>5. f.fptr \in Nat BY <1>1, <1>4
  <1>6. At(f.fptr + 1) = k + 1 /\ In(f.fptr + 1) = r + 1
    <2>1. (f.fptr + 1) - 1 = Units * k + r BY <1>1, <1>4
    <2>2. (Units * k + r) \div Units = k /\ ((Units * k + r) % Units) = r BY <1>1, Quotient
    <2> QED BY <2>1, <2>2 DEF At, In
  <1>7. ASSUME NEW i \in Nat \ {0}, At(i) = k + 1 PROVE i = Units * k + In(i) /\ In(i) \in 1 .. Units
    <2>1. At(i) \in Nat \ {0} /\ In(i) \in 1 .. Units /\ i = Units * (At(i) - 1) + In(i) BY Place
    <2>2. At(i) - 1 = k BY <1>1, <1>7
    <2> QED BY <2>1, <2>2
  <1>8. ASSUME NEW i \in Nat \ {0}, i <= Units * k PROVE At(i) <= k BY <1>1, <1>8, Place
  <1>9. ASSUME NEW i \in Nat \ {0}, i > Units * k, i <= Units * k + Units PROVE At(i) = k + 1
    <2>1. At(i) \in Nat /\ At(i) > k BY <1>1, <1>9, Place
    <2>2. i <= Units * (k + 1) /\ k + 1 \in Nat BY <1>1, <1>4, <1>9
    <2>3. At(i) <= k + 1 BY <2>2, Place
    <2> QED BY <1>1, <2>1, <2>3
  <1> QED BY <1>1, <1>3, <1>4, <1>5, <1>6, <1>7, <1>8, <1>9

\* The file g is f after k units x were written at its pointer, but for its buffer.
Written(g, f, k, x) ==
    /\ DOMAIN f = DOMAIN Closed /\ DOMAIN g = DOMAIN Closed
    /\ g.name = f.name /\ g.err = f.err /\ g.sclust = f.sclust /\ g.clust = f.clust /\ g.fsize = f.fsize
    /\ g.fptr = f.fptr + k /\ g.text = Put(f.text, f.fptr, k, x)

\* All of it but for the data.
LEMMA WrittenFine ==
  ASSUME NEW V, NEW f, NEW p, Fine(V, f, p), NEW j, NEW r, Aimed(f, p, j, r), StoreOf(V, f.name),
         f.name # None, ~ f.err, V.saved[f.name] # None => f.fptr >= f.fsize,
         NEW k \in Nat \ {0}, r + k <= Units, NEW x, NEW g, Written(g, f, k, x), NEW W,
         W.fat = V.fat, W.dir = V.dir, W.saved = V.saved, Match(g.text, p, Sectors(W.data, g)),
         g.dsect # 0 => \E i \in 1 .. Len(p) : p[i] = g.dsect, g.dirty => g.dsect # 0,
         ~ g.dirty /\ g.dsect # 0 => g.buf = W.data[g.dsect], DOMAIN g.buf = 1 .. Units,
         r + k # Units => g.dsect = g.clust
  PROVE  Fine(W, g, p) /\ Writing(W, g, p)
  <1>1. /\ g.name = f.name /\ g.err = f.err /\ g.sclust = f.sclust /\ g.clust = f.clust /\ g.fsize = f.fsize
        /\ g.fptr = f.fptr + k /\ g.text = Put(f.text, f.fptr, k, x)
    BY DEF Written
  <1>2. /\ Walk(V.fat, f.sclust, p) /\ f.fsize \in Nat /\ f.fptr \in Nat /\ IsList(f.text)
        /\ f.fsize <= Len(f.text) /\ Len(f.text) <= Units * Len(p)
        /\ Len(f.text) <= f.fsize \/ Len(f.text) <= f.fptr
    BY DEF Fine
  <1>3. /\ Len(p) \in Nat /\ Units * j \in Nat /\ Units * j + Units <= Units * Len(p)
        /\ \A i \in Nat \ {0} : i > Units * j /\ i <= Units * j + Units => At(i) = j + 1
    <2>1. PICK table : table = V.fat OBVIOUS
    <2>2. PICK s : s = f.sclust OBVIOUS
    <2>3. Aimed(f, p, j, r) /\ Walk(table, s, p) BY <1>2, <2>1, <2>2
    <2> QED BY ONLY <2>3, AimedPlace
  <1>4. /\ j \in Nat /\ r \in 0 .. Units - 1 /\ f.fptr = Units * j + r /\ f.clust = p[j + 1] /\ Units \in Nat \ {0}
    BY FatAssumption DEF Aimed
  <1>5. IsList(g.text) /\ Len(f.text) \in Nat /\ Len(g.text) \in Nat
        /\ Len(g.text) = IF f.fptr + k > Len(f.text) THEN f.fptr + k ELSE Len(f.text)
    BY <1>1, <1>2, PutList
  <1>6. f.fptr + k <= Units * Len(p) BY <1>2, <1>3, <1>4
  <1>7. Len(g.text) <= Units * Len(p) /\ g.fsize <= Len(g.text) BY <1>1, <1>2, <1>5, <1>6
  <1>8. Len(g.text) <= g.fsize \/ Len(g.text) <= g.fptr BY <1>1, <1>2, <1>5
  <1>9. g.fptr \in Nat /\ g.fptr <= Len(g.text) /\ g.fptr > 0 BY <1>1, <1>2, <1>5
  <1>10. W.saved[g.name] # None => \A i \in 1 .. Len(W.saved[g.name]) : W.saved[g.name][i] \in {Unknown, g.text[i]}
    <2>1. PICK n : n = f.name OBVIOUS
    <2>2. PICK new : new = Put(f.text, f.fptr, k, x) OBVIOUS
    <2>3. ASSUME V.saved[n] # None PROVE \A i \in 1 .. Len(V.saved[n]) : V.saved[n][i] \in {Unknown, new[i]}
      <3>1. StoreOf(V, n) /\ f.fptr >= f.fsize /\ k \in Nat BY <2>1, <2>3
      <3>2. Fine(V, f, p) OBVIOUS
      <3> QED BY ONLY <2>1, <2>2, <2>3, <3>1, <3>2, PutSaved
    <2> QED BY <1>1, <2>1, <2>2, <2>3
  <1>11. W.saved[g.name] # None => g.fptr >= g.fsize BY <1>1, <1>2
  <1>12. Fine(W, g, p)
    BY <1>1, <1>2, <1>5, <1>7, <1>8, <1>9, <1>10 DEF Fine
  <1>13. Placed(g, p)
    <2>1. At(g.fptr) = j + 1 BY <1>1, <1>3, <1>4, <1>9
    <2>2. g.clust = p[At(g.fptr)] BY <1>1, <1>4, <2>1
    <2>3. (g.fptr % Units) # 0 => r + k # Units
      <3>1. ASSUME r + k = Units PROVE (g.fptr % Units) = 0
        <4>1. g.fptr = Units * (j + 1) + 0 BY <1>1, <1>4, <3>1
        <4>2. j + 1 \in Nat /\ 0 \in 0 .. Units - 1 BY <1>4
        <4>3. ((Units * (j + 1) + 0) % Units) = 0 BY <4>2, Quotient
        <4> QED BY <4>1, <4>3
      <3> QED BY <3>1
    <2> QED BY <1>1, <1>6, <2>2, <2>3 DEF Placed
  <1> QED BY <1>1, <1>9, <1>11, <1>12, <1>13 DEF Writing

\* Where the loop of f_write() gets the next cluster from.
NextChain(f, r) ==
    \/ f.fptr > 0 /\ r = CreateChain(f.clust)
    \/ f.fptr = 0 /\ f.sclust # 0 /\ r.clst = f.sclust /\ r.steps = << >>
    \/ f.fptr = 0 /\ f.sclust = 0 /\ r = CreateChain(0)

\* The file f with that cluster.
Onward(g, f, c) ==
    /\ Moved(g, f) /\ g.fptr = f.fptr /\ g.err = f.err
    /\ g.clust = c /\ g.sclust = IF f.sclust = 0 THEN c ELSE f.sclust

LEMMA Boundary ==
  ASSUME NEW m \in Nat, (m % Units) = 0, NEW k, k = m \div Units
  PROVE  k \in Nat /\ m = Units * k /\ (m # 0 => At(m) = k /\ k # 0)
  <1>1. k \in Nat /\ m = Units * k /\ Units \in Nat \ {0}
    <2>1. m = Units * (m \div Units) + (m % Units) /\ m \div Units \in Nat BY Division
    <2>2. Units \in Nat \ {0} BY FatAssumption
    <2>3. Units * k \in Nat BY <2>1, <2>2
    <2> QED BY <2>1, <2>2, <2>3
  <1>2. ASSUME m # 0 PROVE At(m) = k /\ k # 0
    <2>1. k # 0 BY <1>1, <1>2
    <2>2. At(m) \in Nat /\ At(m) <= k
      <3>1. m \in Nat \ {0} /\ k \in Nat /\ m <= Units * k BY <1>1, <1>2
      <3> QED BY ONLY <3>1, Place
    <2>3. k - 1 \in Nat BY <1>1, <2>1
    <2>4. m > Units * (k - 1)
      <3>1. Units * (k - 1) = Units * k - Units BY <1>1, <2>3
      <3>2. Units * k \in Nat BY <1>1
      <3> QED BY <1>1, <3>1, <3>2
    <2>5. At(m) > k - 1 BY <1>2, <2>3, <2>4, Place
    <2> QED BY <1>1, <2>1, <2>2, <2>3, <2>5
  <1> QED BY <1>1, <1>2

LEMMA AimLeads ==
  ASSUME NEW V, V = Now, NEW o, Sound(V, o), NEW t \in Tasks, NEW f, Has(V, t, f), NEW p, Fine(V, f, p),
         Placed(f, p), (f.fptr % Units) = 0, NEW r, NextChain(f, r), r.clst \notin {0, 1},
         NEW g, Onward(g, f, r.clst), NEW k, k = f.fptr \div Units
  PROVE  \E W : /\ Leads(r.steps, V, W, o) /\ Sound(W, o) /\ Beyond(V, W) /\ Has(W, t, f) /\ Fits(Plain(W), g)
                /\ \E q : Fine(W, g, q) /\ Aimed(g, q, k, 0)
  <1>1. /\ Walk(V.fat, f.sclust, p) /\ f.fptr \in Nat /\ IsList(f.text) /\ f.fsize \in Nat
        /\ Len(f.text) <= f.fsize \/ Len(f.text) <= f.fptr
    BY DEF Fine
  <1>2. Moved(g, f) /\ g.fptr = f.fptr /\ g.clust = r.clst BY DEF Onward
  <1>3. Units \in Nat \ {0} /\ 0 \in 0 .. Units - 1 BY FatAssumption
  <1>4. k \in Nat /\ f.fptr = Units * k /\ (f.fptr # 0 => At(f.fptr) = k /\ k # 0) BY <1>1, Boundary
  <1>5. Len(p) \in Nat BY <1>1, WalkLength
  <1>6. ASSUME f.fptr > 0, r = CreateChain(f.clust)
        PROVE  \E W : /\ Leads(r.steps, V, W, o) /\ Sound(W, o) /\ Beyond(V, W) /\ Has(W, t, f) /\ Fits(Plain(W), g)
                      /\ \E q : Fine(W, g, q) /\ Aimed(g, q, k, 0)
    <2>1. k \in 1 .. Len(p) /\ f.clust = p[k]
      <3>1. f.fptr \in Nat \ {0} BY <1>1, <1>6
      <3>2. f.fptr <= Units * Len(p) /\ f.clust = p[At(f.fptr)] BY <1>6 DEF Placed
      <3>3. At(f.fptr) <= Len(p) BY <1>5, <3>1, <3>2, Place
      <3> QED BY <1>4, <1>5, <3>1, <3>2, <3>3
    <2>2. /\ r.clst \in {0, 1} \cup Clusters /\ f.sclust \in Clusters
          /\ \E W : /\ Leads(r.steps, V, W, o) /\ Sound(W, o) /\ Beyond(V, W)
                    /\ Has(W, t, f) /\ Fits(Plain(W), f) /\ Fine(W, f, p)
                    /\ r.clst \in Clusters => \E q : Fine(W, f, q) /\ Reaches(q, p, k + 1, r.clst)
      BY <1>6, <2>1, NextLeads
    <2>3. r.clst \in Clusters /\ f.sclust # 0 BY <2>2, ClusterNumbers
    <2>4. PICK W : /\ Leads(r.steps, V, W, o) /\ Sound(W, o) /\ Beyond(V, W)
                   /\ Has(W, t, f) /\ Fits(Plain(W), f)
                   /\ \E q : Fine(W, f, q) /\ Reaches(q, p, k + 1, r.clst)
      BY <2>2, <2>3
    <2>5. PICK q : Fine(W, f, q) /\ Reaches(q, p, k + 1, r.clst) BY <2>4
    <2>6. g.sclust = f.sclust BY <2>3 DEF Onward
    <2>7. Fine(W, g, q) BY <1>1, <1>2, <2>5, <2>6, FineMoved
    <2>8. Aimed(g, q, k, 0)
      <3>1. k + 1 \in 1 .. Len(q) /\ q[k + 1] = r.clst BY <2>5 DEF Reaches
      <3>2. g.fptr = Units * k + 0 BY <1>2, <1>3, <1>4
      <3> QED BY <1>2, <1>3, <1>4, <3>1, <3>2 DEF Aimed
    <2>9. Fits(Plain(W), g)
      <3>1. PICK x : x = Plain(W) OBVIOUS
      <3>2. Fits(x, f) BY <2>4, <3>1
      <3>3. Alike(g, f) BY <1>2, <2>6 DEF Alike, Moved
      <3>4. g.clust \in Starts BY <1>2, <2>3 DEF Starts
      <3>5. Fits(x, g) BY <1>2, <3>2, <3>3, <3>4, AlikeFits
      <3> QED BY <3>1, <3>5
    <2> QED BY <2>4, <2>7, <2>8, <2>9
  <1>7. ASSUME f.fptr = 0, \/ r.clst = f.sclust /\ r.steps = << >> /\ f.sclust # 0
                           \/ r = CreateChain(0) /\ f.sclust = 0
        PROVE  \E W : /\ Leads(r.steps, V, W, o) /\ Sound(W, o) /\ Beyond(V, W) /\ Has(W, t, f) /\ Fits(Plain(W), g)
                      /\ \E q : Fine(W, g, q) /\ Aimed(g, q, k, 0)
    <2>1. Len(f.text) \in Nat BY <1>1, ListLength
    <2>2. Len(f.text) <= f.fsize BY <1>1, <1>7, <2>1
    <2>3. g.fptr = 0 /\ g.sclust = r.clst BY <1>2, <1>7 DEF Onward
    <2>4. \E W : /\ Leads(r.steps, V, W, o) /\ Sound(W, o) /\ Beyond(V, W)
                 /\ Has(W, t, f) /\ Fits(Plain(W), g)
                 /\ \E q : Fine(W, g, q) /\ (r.clst # 0 => Len(q) # 0 /\ q[1] = r.clst)
      BY <1>2, <1>7, <2>2, <2>3, BeginLeads
    <2>5. PICK W : /\ Leads(r.steps, V, W, o) /\ Sound(W, o) /\ Beyond(V, W)
                   /\ Has(W, t, f) /\ Fits(Plain(W), g)
                   /\ \E q : Fine(W, g, q) /\ (r.clst # 0 => Len(q) # 0 /\ q[1] = r.clst)
      BY <2>4
    <2>6. PICK q : Fine(W, g, q) /\ (r.clst # 0 => Len(q) # 0 /\ q[1] = r.clst) BY <2>5
    <2>7. Aimed(g, q, k, 0)
      <3>1. k = 0 BY <1>3, <1>4, <1>7
      <3>2. Walk(W.fat, g.sclust, q) BY <2>6 DEF Fine
      <3>3. Len(q) \in Nat BY <3>2, WalkLength
      <3>4. 0 + 1 \in 1 .. Len(q) /\ q[0 + 1] = r.clst BY <2>6, <3>3
      <3>5. g.fptr = Units * 0 + 0 BY <1>3, <2>3
      <3> QED BY <1>2, <1>3, <3>1, <3>4, <3>5 DEF Aimed
    <2> QED BY <2>5, <2>6, <2>7
  <1> QED BY <1>6, <1>7 DEF NextChain

\* Up to the data: the next cluster, and the buffer to the disk.
LEMMA AdvanceLeads ==
  ASSUME NEW V, V = Now, NEW o, Sound(V, o), NEW t \in Tasks, Busy(o, t), NEW f, Has(V, t, f), NEW p, Fine(V, f, p),
         Placed(f, p), (f.fptr % Units) = 0, NEW r, NextChain(f, r), r.clst \notin {0, 1},
         NEW g, Onward(g, f, r.clst), NEW k, k = f.fptr \div Units
  PROVE  \E W : /\ Leads(r.steps \o <<FilStep(t, g)>> \o FlushBuffer(t, g), V, W, o) /\ Sound(W, o)
                /\ W.dir = V.dir /\ W.saved = V.saved /\ W.data = Sectors(V.data, g)
                /\ W.fil[t] \in {g, Clean(g)} /\ Fits(Plain(W), Clean(g))
                /\ \E q : Fine(W, Clean(g), q) /\ Aimed(g, q, k, 0)
  <1>1. PICK A : /\ Leads(r.steps, V, A, o) /\ Sound(A, o) /\ Beyond(V, A) /\ Has(A, t, f) /\ Fits(Plain(A), g)
                 /\ \E q : Fine(A, g, q) /\ Aimed(g, q, k, 0)
    BY AimLeads
  <1>2. PICK q : Fine(A, g, q) /\ Aimed(g, q, k, 0) BY <1>1
  <1>3. g.name # None
    <2>1. g.name \in Names BY <1>2 DEF Fine
    <2> QED BY <2>1, FatAssumption
  <1>4. Opened(A, o, t, g)
    <2>1. FileOf(A, o, t, FALSE) BY <1>1 DEF Sound, Safe
    <2>2. g.name = f.name /\ f = A.fil[t] BY <1>1 DEF Onward, Moved, Has
    <2>3. Sole(A, t) BY <1>3, <2>1, <2>2 DEF FileOf
    <2> QED BY <1>2, <2>2, <2>3 DEF Opened, Sole
  <1>5. PICK B : Leads(<<FilStep(t, g)>>, A, B, o) /\ Gives(A, B, o, t, g) BY <1>1, <1>4, FilLeads
  <1>6. Sound(B, o) /\ Around(A, B) /\ Has(B, t, g) /\ Fits(Plain(B), g) BY <1>5 DEF Gives
  <1>7. Fine(B, g, q) BY <1>2, <1>6, AroundSame
  <1>8. PICK W : /\ Leads(FlushBuffer(t, g), B, W, o) /\ Sound(W, o) /\ Flushed(B, W, g)
                 /\ W.fil[t] \in {g, Clean(g)} /\ Fits(Plain(W), Clean(g)) /\ Fine(W, Clean(g), q)
    BY <1>3, <1>6, <1>7, FlushLeads
  <1>9. Leads(r.steps \o <<FilStep(t, g)>>, V, B, o) BY <1>1, <1>5, LeadsJoin
  <1>10. Leads(r.steps \o <<FilStep(t, g)>> \o FlushBuffer(t, g), V, W, o) BY <1>8, <1>9, LeadsJoin
  <1>11. W.dir = V.dir /\ W.saved = V.saved /\ W.data = Sectors(V.data, g)
    BY <1>1, <1>6, <1>8 DEF Beyond, Around, Flushed
  <1> QED BY <1>2, <1>8, <1>10, <1>11

\* The task's file is about to become f and be written at its pointer.
Poised(V, t, f, p, k, r) ==
    /\ Fine(V, f, p) /\ Aimed(f, p, k, r) /\ Fits(Plain(V), f) /\ ~ f.err
    /\ V.saved[f.name] # None => f.fptr >= f.fsize
    /\ V.fil[t].name = f.name /\ V.fil[t].sclust = f.sclust

LEMMA PoisedFacts ==
  ASSUME NEW V, NEW o, Sound(V, o), NEW t \in Tasks, NEW f, NEW p, NEW k, NEW r, Poised(V, t, f, p, k, r)
  PROVE  /\ Walk(V.fat, f.sclust, p) /\ f.name \in Names /\ f.name # None /\ StoreOf(V, f.name)
         /\ f.clust \in Clusters /\ f.sclust \in Clusters /\ f.sclust # 0 /\ k + 1 \in 1 .. Len(p) /\ f.clust = p[k + 1]
         /\ IsList(f.text) /\ Len(f.text) \in Nat /\ f.fptr \in Nat /\ f.fsize \in Nat
         /\ \A u \in Tasks : u # t => V.fil[u].name # f.name
  <1>1. Fine(V, f, p) /\ Aimed(f, p, k, r) /\ V.fil[t].name = f.name BY DEF Poised
  <1>2. Walk(V.fat, f.sclust, p) /\ f.name \in Names /\ IsList(f.text) /\ f.fptr \in Nat /\ f.fsize \in Nat BY <1>1 DEF Fine
  <1>3. f.name # None BY <1>2, FatAssumption
  <1>4. StoreOf(V, f.name) /\ FileOf(V, o, t, FALSE) BY <1>2 DEF Sound, Safe
  <1>5. Sole(V, t) BY <1>1, <1>3, <1>4 DEF FileOf
  <1>6. k + 1 \in 1 .. Len(p) /\ f.clust = p[k + 1] BY <1>1 DEF Aimed
  <1>7. Len(p) \in Nat BY <1>2, WalkLength
  <1>8. p[k + 1] \in Clusters /\ Len(p) # 0
    <2>1. \A i \in 1 .. Len(p) : p[i] \in Clusters BY <1>2, WalkLength
    <2> QED BY <1>6, <1>7, <2>1
  <1>9. f.sclust \in Clusters BY <1>2, <1>8, WalkLength
  <1>10. f.sclust # 0 BY <1>9, ClusterNumbers
  <1> QED BY <1>1, <1>2, <1>3, <1>4, <1>5, <1>6, <1>8, <1>9, <1>10, ListLength DEF Sole

LEMMA PoisedFits ==
  ASSUME NEW V, NEW o, Sound(V, o), NEW t \in Tasks, Busy(o, t), NEW f, NEW p, NEW j, NEW r, Poised(V, t, f, p, j, r),
         NEW k, NEW x, NEW g, Written(g, f, k, x),
         NEW U, U.fil = V.fil, Fine(U, g, p)
  PROVE  Fits(Plain(V), g) /\ Opened(U, o, t, g)
  <1>1. g.name = f.name /\ g.sclust = f.sclust /\ g.clust = f.clust /\ DOMAIN g = DOMAIN f BY DEF Written
  <1>2. f.clust \in Clusters /\ f.sclust # 0 /\ \A u \in Tasks : u # t => V.fil[u].name # f.name BY PoisedFacts
  <1>3. Fits(Plain(V), g)
    <2>1. PICK v : v = Plain(V) OBVIOUS
    <2>2. Fits(v, f) BY <2>1 DEF Poised
    <2>3. Alike(g, f) BY <1>1 DEF Alike
    <2>4. g.clust \in Starts BY <1>1, <1>2 DEF Starts
    <2>5. Fits(v, g) BY <1>2, <2>2, <2>3, <2>4, AlikeFits
    <2> QED BY <2>1, <2>5
  <1> QED BY <1>1, <1>2, <1>3 DEF Opened

\* A whole sector goes to the disk past the buffer.
LEMMA WholeLeads ==
  ASSUME NEW V, NEW o, Sound(V, o), NEW t \in Tasks, Busy(o, t), NEW f, NEW p, NEW k, Poised(V, t, f, p, k, 0), ~ f.dirty,
         NEW x, NEW full, full = [i \in 1 .. Units |-> x],
         NEW g, Written(g, f, Units, x), ~ g.dirty, g.dsect = f.dsect, g.buf = IF f.dsect = f.clust THEN full ELSE f.buf
  PROVE  \E W : /\ Leads(<<DataStep(f.clust, full), FilStep(t, g)>>, V, W, o) /\ Sound(W, o)
                /\ Has(W, t, g) /\ \E q : Fine(W, g, q) /\ Writing(W, g, q)
  <1>1. /\ Walk(V.fat, f.sclust, p) /\ f.name \in Names /\ f.name # None /\ StoreOf(V, f.name)
        /\ f.clust \in Clusters /\ f.sclust \in Clusters /\ f.sclust # 0 /\ k + 1 \in 1 .. Len(p) /\ f.clust = p[k + 1]
        /\ IsList(f.text) /\ Len(f.text) \in Nat /\ f.fptr \in Nat /\ f.fsize \in Nat
        /\ \A u \in Tasks : u # t => V.fil[u].name # f.name
    BY PoisedFacts
  <1>2. Fine(V, f, p) /\ Aimed(f, p, k, 0) /\ ~ f.err /\ (V.saved[f.name] # None => f.fptr >= f.fsize) BY DEF Poised
  <1>3. PICK c : c = f.clust OBVIOUS
  <1>4. PICK U : U = Redata(V, c, full) OBVIOUS
  <1>5. /\ Formed(U) /\ U.fat = V.fat /\ U.dir = V.dir /\ U.fil = V.fil /\ U.saved = V.saved
        /\ U.data = [V.data EXCEPT ![c] = full] /\ U.data[c] = full
        /\ \A d \in Clusters : d # c => U.data[d] = V.data[d]
    <2>1. Formed(V) BY DEF Sound, Safe
    <2>2. DOMAIN full = 1 .. Units OBVIOUS
    <2>3. c \in Clusters BY <1>1, <1>3
    <2> QED BY ONLY <1>4, <2>1, <2>2, <2>3, RedataFields
  <1>6. /\ f.fptr = Units * k /\ k \in Nat /\ Units \in Nat \ {0} /\ Units * k \in Nat /\ Len(p) \in Nat
        /\ \A i \in Nat \ {0} : At(i) = k + 1 => i = Units * k + In(i) /\ In(i) \in 1 .. Units
        /\ \A i \in Nat \ {0} : i <= Units * k => At(i) <= k
        /\ \A i \in Nat \ {0} : i > Units * k /\ i <= Units * k + Units => At(i) = k + 1
    <2>1. PICK table : table = V.fat OBVIOUS
    <2>2. PICK s : s = f.sclust OBVIOUS
    <2>3. PICK r : r = 0 OBVIOUS
    <2>4. Aimed(f, p, k, r) /\ Walk(table, s, p) BY <1>1, <1>2, <2>1, <2>2, <2>3
    <2>5. /\ Len(p) \in Nat /\ Units * k \in Nat
          /\ \A i \in Nat \ {0} : At(i) = k + 1 => i = Units * k + In(i) /\ In(i) \in 1 .. Units
          /\ \A i \in Nat \ {0} : i <= Units * k => At(i) <= k
          /\ \A i \in Nat \ {0} : i > Units * k /\ i <= Units * k + Units => At(i) = k + 1
      BY ONLY <2>4, AimedPlace
    <2>6. f.fptr = Units * k + 0 /\ k \in Nat BY <1>2 DEF Aimed
    <2> QED BY <2>5, <2>6, FatAssumption
  \* Where the old text is, but in the cluster c.
  <1>7. ASSUME NEW i \in Nat \ {0}, i <= Len(f.text), At(i) # k + 1
        PROVE  f.text[i] \in {Unknown, U.data[p[At(i)]][In(i)]}
    <2>1. Match(f.text, p, V.data) /\ Len(f.text) <= Units * Len(p) BY <1>2 DEF Fine, Sectors
    <2>2. f.text[i] \in {Unknown, V.data[p[At(i)]][In(i)]} BY <1>1, <1>7, <2>1 DEF Match
    <2>3. At(i) \in 1 .. Len(p)
      <3>1. Units * Len(p) \in Nat BY <1>6
      <3>2. i <= Units * Len(p) BY <1>1, <1>7, <2>1, <3>1
      <3> QED BY <1>6, <3>2, Place
    <2>4. p[At(i)] \in Clusters /\ p[At(i)] # c
      <3>1. p[At(i)] # p[k + 1] BY <1>1, <1>7, <2>3 DEF Walk
      <3> QED BY <1>1, <1>3, <2>3, <3>1, WalkLength
    <2> QED BY <1>5, <2>2, <2>4
  <1>8. StoreOf(U, f.name) /\ KeptOf(V, U, f.name)
    <2>1. ASSUME V.saved[f.name] # None, NEW q, Holds(V, f.name, q) PROVE Holds(U, f.name, q)
      <3>1. PICK n : n = f.name OBVIOUS
      <3>2. PICK data : data = U.data OBVIOUS
      <3>3. StoreOf(V, n) /\ V.saved[n] # None /\ Holds(V, n, q) /\ Fine(V, f, p) BY <1>1, <1>2, <2>1, <3>1
      <3>4. Len(V.saved[n]) \in Nat /\ Len(V.saved[n]) <= f.fptr
        <4>1. IsList(V.saved[n]) /\ Len(V.saved[n]) <= V.dir[n].size BY <3>3 DEF StoreOf
        <4>2. V.dir[n].size <= f.fsize /\ V.dir[n] # None BY <3>1, <3>3 DEF Fine
        <4>3. V.dir[n].size \in Nat BY <3>3 DEF StoreOf
        <4> QED BY <1>1, <1>2, <3>1, <3>3, <4>1, <4>2, <4>3, ListLength
      <3>5. \A i \in 1 .. Len(V.saved[n]) : i <= Len(f.text) => f.text[i] \in {Unknown, data[p[At(i)]][In(i)]}
        <4>1. ASSUME NEW i \in 1 .. Len(V.saved[n]), i <= Len(f.text) PROVE f.text[i] \in {Unknown, data[p[At(i)]][In(i)]}
          <5>1. i \in Nat \ {0} /\ i <= Units * k BY <1>6, <3>4
          <5>2. At(i) <= k /\ At(i) \in Nat BY <1>6, <5>1, Place
          <5>3. At(i) # k + 1 BY <1>6, <5>2
          <5> QED BY <1>7, <3>2, <4>1, <5>1, <5>3
        <4> QED BY <4>1
      <3>6. Match(V.saved[n], q, data) BY ONLY <3>1, <3>3, <3>5, SavedInText
      <3> QED BY <1>5, <2>1, <3>1, <3>2, <3>6 DEF Holds
    <2> QED BY <1>1, <1>5, <2>1 DEF StoreOf, KeptOf
  <1>9. Safe(U, o, TRUE) /\ Kept(V, U)
    <2>1. PICK h : h = V.fil[t] OBVIOUS
    <2>2. h.name = f.name /\ h.sclust = f.sclust BY <2>1 DEF Poised
    <2>3. PICK late : late = TRUE OBVIOUS
    <2>4. PICK j : j = k + 1 OBVIOUS
    <2>5. h.name # None /\ Walk(V.fat, h.sclust, p) /\ j \in 1 .. Len(p) /\ c = p[j] /\ DOMAIN full = 1 .. Units
      BY <1>1, <1>3, <2>2, <2>4
    <2>6. StoreOf(U, h.name) /\ KeptOf(V, U, h.name) BY <1>8, <2>2
    <2>7. (late => Busy(o, t)) /\ (~ late => \A q : Fine(V, h, q) => Fine(U, h, q)) BY <2>3
    <2>8. Sound(V, o) OBVIOUS
    <2>9. Safe(U, o, late) /\ Kept(V, U) BY ONLY t \in Tasks, <1>4, <2>1, <2>5, <2>6, <2>7, <2>8, DataSafe
    <2> QED BY <2>3, <2>9
  <1>10. Fine(U, g, p) /\ Writing(U, g, p)
    <2>1. /\ g.name = f.name /\ g.clust = f.clust /\ g.fptr = f.fptr + Units /\ g.text = Put(f.text, f.fptr, Units, x)
      BY DEF Written
    <2>2. Match(g.text, p, Sectors(U.data, g))
      <3>1. Sectors(U.data, g) = U.data BY DEF Sectors
      <3>2. ASSUME NEW i \in 1 .. Len(g.text) PROVE g.text[i] \in {Unknown, U.data[p[At(i)]][In(i)]}
        <4>1. PICK new : new = g.text OBVIOUS
        <4>2. PICK m : m = f.fptr OBVIOUS
        <4>3. new = Put(f.text, m, Units, x) /\ m \in Nat /\ Units \in Nat /\ IsList(f.text) BY <1>1, <1>6, <2>1, <4>1, <4>2
        <4>4. /\ Len(new) \in Nat
              /\ \A l \in 1 .. Len(new) :
                    /\ l \in m + 1 .. m + Units => new[l] = x
                    /\ l \notin m + 1 .. m + Units /\ l <= Len(f.text) => new[l] = f.text[l]
                    /\ l \notin m + 1 .. m + Units /\ ~ (l <= Len(f.text)) => new[l] = Unknown
          BY ONLY <4>3, PutList
        <4>5. i \in 1 .. Len(new) /\ i \in Nat \ {0} BY <4>1, <4>4
        <4>6. CASE i \in m + 1 .. m + Units
          <5>1. At(i) = k + 1 BY <1>6, <4>2, <4>5, <4>6
          <5>2. In(i) \in 1 .. Units BY <1>6, <4>5, <5>1
          <5>3. U.data[p[At(i)]][In(i)] = x
            <6>1. p[At(i)] = c BY <1>1, <1>3, <5>1
            <6>2. full[In(i)] = x BY <5>2
            <6> QED BY <1>5, <6>1, <6>2
          <5> QED BY <4>1, <4>4, <4>5, <4>6, <5>3
        <4>7. CASE i \notin m + 1 .. m + Units /\ i <= Len(f.text)
          <5>1. At(i) # k + 1 BY <1>6, <4>2, <4>5, <4>7
          <5>2. f.text[i] \in {Unknown, U.data[p[At(i)]][In(i)]} BY <1>7, <4>5, <4>7, <5>1
          <5> QED BY <4>1, <4>4, <4>5, <4>7, <5>2
        <4>8. CASE i \notin m + 1 .. m + Units /\ ~ (i <= Len(f.text)) BY <4>1, <4>4, <4>5, <4>8
        <4> QED BY <4>6, <4>7, <4>8
      <3> QED BY <3>1, <3>2 DEF Match
    <2>3. g.dsect # 0 => \E i \in 1 .. Len(p) : p[i] = g.dsect BY <1>2 DEF Fine
    <2>4. ~ g.dirty /\ g.dsect # 0 => g.buf = U.data[g.dsect]
      <3>1. CASE f.dsect = c BY <1>3, <1>5, <3>1
      <3>2. CASE f.dsect # c /\ f.dsect # 0
        <4>1. f.buf = V.data[f.dsect] /\ \E i \in 1 .. Len(p) : p[i] = f.dsect BY <1>2, <3>2 DEF Fine
        <4>2. f.dsect \in Clusters BY <1>1, <4>1, WalkLength
        <4> QED BY <1>3, <1>5, <3>2, <4>1, <4>2
      <3> QED BY <3>1, <3>2
    <2>5. DOMAIN g.buf = 1 .. Units
      <3>1. DOMAIN f.buf = 1 .. Units BY <1>2 DEF Fine
      <3> QED BY <3>1
    <2>6. PICK r : r = 0 OBVIOUS
    <2>7. PICK u : u = Units OBVIOUS
    <2>8. /\ Aimed(f, p, k, r) /\ u \in Nat \ {0} /\ r + u <= Units /\ Written(g, f, u, x)
          /\ (r + u # Units => g.dsect = g.clust) /\ (g.dirty => g.dsect # 0)
      BY <1>2, <1>6, <2>6, <2>7
    <2>9. U.fat = V.fat /\ U.dir = V.dir /\ U.saved = V.saved BY <1>5
    <2>10. Fine(V, f, p) /\ StoreOf(V, f.name) /\ f.name # None /\ ~ f.err /\ (V.saved[f.name] # None => f.fptr >= f.fsize)
      BY <1>1, <1>2
    <2> QED BY ONLY <2>2, <2>3, <2>4, <2>5, <2>8, <2>9, <2>10, WrittenFine
  <1>11. Fits(Plain(V), g) /\ Opened(U, o, t, g)
    <2>1. PICK r : r = 0 OBVIOUS
    <2>2. PICK u : u = Units OBVIOUS
    <2>3. Poised(V, t, f, p, k, r) /\ Written(g, f, u, x) /\ U.fil = V.fil /\ Fine(U, g, p) BY <1>5, <1>10, <2>1, <2>2
    <2> QED BY <2>3, PoisedFits
  <1>12. U = Take(V, DataStep(c, full)) BY <1>4, DataTake
  <1>13. PICK W : Leads(<<DataStep(c, full), FilStep(t, g)>>, V, W, o) /\ Gives(U, W, o, t, g)
    <2>1. PICK late : late = TRUE OBVIOUS
    <2>2. Safe(U, o, late) /\ (late => Busy(o, t)) BY <1>9, <2>1
    <2> QED BY <1>9, <1>11, <1>12, <2>2, DataFilLeads
  <1>14. Sound(W, o) /\ Around(U, W) /\ Has(W, t, g) BY <1>13 DEF Gives
  <1>15. Fine(W, g, p) BY <1>10, <1>14, AroundSame
  <1>16. Writing(W, g, p) BY <1>10, <1>14 DEF Writing, Around
  <1> QED BY <1>3, <1>13, <1>14, <1>15, <1>16

\* The sector buffer has the cluster of f, or is about to have it.
Loaded(V, f, r, buf) ==
    /\ DOMAIN buf = 1 .. Units
    /\ \/ f.dsect = f.clust /\ buf = f.buf
       \/ ~ f.dirty /\ r = 0 /\ (f.fptr < f.fsize => buf = V.data[f.clust])

\* A unit is written to the buffer.
LEMMA PartLeads ==
  ASSUME NEW V, NEW o, Sound(V, o), NEW t \in Tasks, Busy(o, t), NEW f, NEW p, NEW k, NEW r, Poised(V, t, f, p, k, r),
         NEW buf, Loaded(V, f, r, buf), NEW x,
         NEW g, Written(g, f, 1, x), g.dirty, g.dsect = f.clust, g.buf = [buf EXCEPT ![r + 1] = x]
  PROVE  \E W : /\ Leads(<<FilStep(t, g)>>, V, W, o) /\ Sound(W, o)
                /\ Has(W, t, g) /\ \E q : Fine(W, g, q) /\ Writing(W, g, q)
  <1>1. /\ Walk(V.fat, f.sclust, p) /\ f.name \in Names /\ f.name # None /\ StoreOf(V, f.name)
        /\ f.clust \in Clusters /\ f.sclust \in Clusters /\ f.sclust # 0 /\ k + 1 \in 1 .. Len(p) /\ f.clust = p[k + 1]
        /\ IsList(f.text) /\ Len(f.text) \in Nat /\ f.fptr \in Nat /\ f.fsize \in Nat
        /\ \A u \in Tasks : u # t => V.fil[u].name # f.name
    BY PoisedFacts
  <1>2. Fine(V, f, p) /\ Aimed(f, p, k, r) /\ ~ f.err /\ (V.saved[f.name] # None => f.fptr >= f.fsize) BY DEF Poised
  <1>3. PICK c : c = f.clust OBVIOUS
  <1>4. DOMAIN V.data = Clusters BY DEF Sound, Safe, Formed
  <1>5. /\ Len(p) \in Nat /\ Units * k \in Nat
        /\ At(f.fptr + 1) = k + 1 /\ In(f.fptr + 1) = r + 1
        /\ \A i \in Nat \ {0} : At(i) = k + 1 => i = Units * k + In(i) /\ In(i) \in 1 .. Units
    <2>1. PICK table : table = V.fat OBVIOUS
    <2>2. PICK s : s = f.sclust OBVIOUS
    <2>3. Aimed(f, p, k, r) /\ Walk(table, s, p) BY <1>1, <1>2, <2>1, <2>2
    <2> QED BY ONLY <2>3, AimedPlace
  <1>6. /\ f.fptr = Units * k + r /\ k \in Nat /\ r \in 0 .. Units - 1 /\ Units \in Nat \ {0} /\ r + 1 \in 1 .. Units
    BY <1>2, FatAssumption DEF Aimed
  <1>7. /\ g.name = f.name /\ g.clust = f.clust /\ g.fptr = f.fptr + 1 /\ g.text = Put(f.text, f.fptr, 1, x)
    BY DEF Written
  <1>8. /\ Sectors(V.data, g)[c] = g.buf /\ \A d \in Clusters : d # c => Sectors(V.data, g)[d] = V.data[d]
    <2>1. Sectors(V.data, g) = [V.data EXCEPT ![c] = g.buf] BY <1>3 DEF Sectors
    <2> QED BY <1>1, <1>3, <1>4, <2>1
  <1>9. DOMAIN buf = 1 .. Units /\ DOMAIN g.buf = 1 .. Units /\ g.buf[r + 1] = x /\ \A i \in 1 .. Units : i # r + 1 => g.buf[i] = buf[i]
    BY <1>6 DEF Loaded
  \* Where the old text is.
  <1>10. ASSUME NEW i \in Nat \ {0}, i <= Len(f.text), i # f.fptr + 1
         PROVE  f.text[i] \in {Unknown, Sectors(V.data, g)[p[At(i)]][In(i)]}
    <2>1. Match(f.text, p, Sectors(V.data, f)) /\ Len(f.text) <= Units * Len(p) BY <1>2 DEF Fine
    <2>2. f.text[i] \in {Unknown, Sectors(V.data, f)[p[At(i)]][In(i)]} BY <1>1, <1>10, <2>1 DEF Match
    <2>3. At(i) \in 1 .. Len(p)
      <3>1. Units * Len(p) \in Nat BY <1>5, <1>6
      <3>2. i <= Units * Len(p) BY <1>1, <1>10, <2>1, <3>1
      <3> QED BY <1>5, <3>2, Place
    <2>4. p[At(i)] \in Clusters BY <1>1, <2>3, WalkLength
    <2>5. CASE At(i) # k + 1
      <3>1. p[At(i)] # c
        <4>1. p[At(i)] # p[k + 1] BY <1>1, <2>3, <2>5 DEF Walk
        <4> QED BY <1>1, <1>3, <4>1
      <3>2. Sectors(V.data, f)[p[At(i)]] = V.data[p[At(i)]]
        <4>1. CASE ~ f.dirty BY <4>1 DEF Sectors
        <4>2. CASE f.dirty
          <5>1. f.dsect = c BY <1>3, <4>2 DEF Loaded
          <5>2. Sectors(V.data, f) = [V.data EXCEPT ![c] = f.buf] BY <4>2, <5>1 DEF Sectors
          <5> QED BY <1>4, <2>4, <3>1, <5>2
        <4> QED BY <4>1, <4>2
      <3> QED BY <1>8, <2>2, <2>4, <3>1, <3>2
    <2>6. CASE At(i) = k + 1
      <3>1. i = Units * k + In(i) /\ In(i) \in 1 .. Units BY <1>5, <2>6
      <3>2. In(i) # r + 1 BY <1>5, <1>6, <1>10, <3>1
      <3>3. Sectors(V.data, g)[p[At(i)]] = g.buf /\ g.buf[In(i)] = buf[In(i)] BY <1>1, <1>3, <1>8, <1>9, <2>6, <3>1, <3>2
      <3>4. Sectors(V.data, f)[p[At(i)]] = buf
        <4>1. p[At(i)] = c BY <1>1, <1>3, <2>6
        <4>2. CASE f.dsect = f.clust /\ buf = f.buf
          <5>1. CASE f.dirty
            <6>1. Sectors(V.data, f) = [V.data EXCEPT ![c] = f.buf] BY <1>3, <4>2, <5>1 DEF Sectors
            <6> QED BY <1>1, <1>3, <1>4, <4>1, <4>2, <6>1
          <5>2. CASE ~ f.dirty
            <6>1. f.buf = V.data[f.dsect]
              <7>1. f.dsect # 0 BY <1>1, <4>2, ClusterNumbers
              <7> QED BY <1>2, <5>2, <7>1 DEF Fine
            <6>2. Sectors(V.data, f) = V.data BY <5>2 DEF Sectors
            <6> QED BY <1>3, <4>1, <4>2, <6>1, <6>2
          <5> QED BY <5>1, <5>2
        <4>3. CASE ~ f.dirty /\ r = 0 /\ (f.fptr < f.fsize => buf = V.data[f.clust])
          <5>1. i > f.fptr BY <1>5, <1>6, <3>1, <4>3
          <5>2. f.fptr < f.fsize
            <6>1. Len(f.text) <= f.fsize \/ Len(f.text) <= f.fptr BY <1>2 DEF Fine
            <6> QED BY <1>1, <1>10, <5>1, <6>1
          <5>3. Sectors(V.data, f) = V.data BY <4>3 DEF Sectors
          <5> QED BY <1>3, <4>1, <4>3, <5>2, <5>3
        <4> QED BY <4>2, <4>3 DEF Loaded
      <3> QED BY <2>2, <3>3, <3>4
    <2> QED BY <2>5, <2>6
  <1>11. Match(g.text, p, Sectors(V.data, g))
    <2>1. ASSUME NEW i \in 1 .. Len(g.text) PROVE g.text[i] \in {Unknown, Sectors(V.data, g)[p[At(i)]][In(i)]}
      <3>1. PICK new : new = g.text OBVIOUS
      <3>2. PICK m : m = f.fptr OBVIOUS
      <3>3. new = Put(f.text, m, 1, x) /\ m \in Nat /\ 1 \in Nat /\ IsList(f.text) BY <1>1, <1>7, <3>1, <3>2
      <3>4. /\ Len(new) \in Nat
            /\ \A l \in 1 .. Len(new) :
                  /\ l \in m + 1 .. m + 1 => new[l] = x
                  /\ l \notin m + 1 .. m + 1 /\ l <= Len(f.text) => new[l] = f.text[l]
                  /\ l \notin m + 1 .. m + 1 /\ ~ (l <= Len(f.text)) => new[l] = Unknown
        BY ONLY <3>3, PutList
      <3>5. i \in 1 .. Len(new) /\ i \in Nat \ {0} BY <3>1, <3>4
      <3>6. CASE i = m + 1
        <4>1. new[i] = x BY <3>3, <3>4, <3>5, <3>6
        <4>2. At(i) = k + 1 /\ In(i) = r + 1 BY <1>5, <3>2, <3>6
        <4>3. p[At(i)] = c BY <1>1, <1>3, <4>2
        <4> QED BY <1>8, <1>9, <3>1, <4>1, <4>2, <4>3
      <3>7. CASE i # m + 1 /\ i <= Len(f.text)
        <4>1. new[i] = f.text[i] BY <3>3, <3>4, <3>5, <3>7
        <4>2. i # f.fptr + 1 /\ i <= Len(f.text) BY <3>2, <3>7
        <4>3. f.text[i] \in {Unknown, Sectors(V.data, g)[p[At(i)]][In(i)]} BY <1>10, <3>5, <4>2
        <4> QED BY <3>1, <4>1, <4>3
      <3>8. CASE i # m + 1 /\ ~ (i <= Len(f.text)) BY <3>1, <3>3, <3>4, <3>5, <3>8
      <3> QED BY <3>6, <3>7, <3>8
    <2> QED BY <2>1 DEF Match
  <1>12. Fine(V, g, p) /\ Writing(V, g, p)
    <2>1. PICK u : u = 1 OBVIOUS
    <2>2. /\ u \in Nat \ {0} /\ r + u <= Units /\ Written(g, f, u, x)
          /\ (r + u # Units => g.dsect = g.clust) /\ (g.dirty => g.dsect # 0) /\ DOMAIN g.buf = 1 .. Units
      BY <1>1, <1>6, <1>7, <1>9, <2>1, ClusterNumbers
    <2>3. g.dsect # 0 => \E i \in 1 .. Len(p) : p[i] = g.dsect BY <1>1
    <2>4. ~ g.dirty /\ g.dsect # 0 => g.buf = V.data[g.dsect] OBVIOUS
    <2>5. V.fat = V.fat /\ V.dir = V.dir /\ V.saved = V.saved OBVIOUS
    <2> QED BY ONLY <1>1, <1>2, <1>11, <2>2, <2>3, <2>4, <2>5, WrittenFine
  <1>13. Fits(Plain(V), g) /\ Opened(V, o, t, g) BY <1>12, PoisedFits
  <1>14. PICK W : Leads(<<FilStep(t, g)>>, V, W, o) /\ Gives(V, W, o, t, g) BY <1>13, FilLeads
  <1>15. Sound(W, o) /\ Around(V, W) /\ Has(W, t, g) BY <1>14 DEF Gives
  <1>16. Fine(W, g, p) BY <1>12, <1>15, AroundSame
  <1>17. Writing(W, g, p) BY <1>12, <1>15 DEF Writing, Around
  <1> QED BY <1>14, <1>15, <1>16, <1>17

-----------------------------------------------------------------------------
(* What is saved becomes so after the window is written back.              *)

\* The flag is that of the window before the steps.
SavedAfter(list, flag) ==
    \A i \in 1 .. Len(list) : list[i].do = "saved" =>
        /\ i = 1 => ~ flag
        /\ i # 1 => list[i - 1].do = "flush"

Settled(q) == IsList(q) /\ SavedAfter(q, TRUE)

LEMMA SettledAny == ASSUME NEW q, Settled(q), NEW flag PROVE SavedAfter(q, flag)
  BY DEF Settled, SavedAfter

LEMMA SettledNone == Settled(<< >>)
  BY NoList DEF Settled, SavedAfter

LEMMA SettledOne == ASSUME NEW s, s.do # "saved" PROVE Settled(<<s>>)
  <1>1. \A i \in 1 .. 1 : i = 1 OBVIOUS
  <1> QED BY <1>1, OneList DEF Settled, SavedAfter

LEMMA SettledFree ==
  ASSUME NEW q, IsList(q), \A i \in 1 .. Len(q) : q[i].do # "saved" PROVE Settled(q)
  BY DEF Settled, SavedAfter

LEMMA SettledStill == ASSUME NEW q, StillList(q) PROVE Settled(q)
  BY SettledFree DEF StillList, Still

LEMMA SettledJoin == ASSUME NEW q, NEW r, Settled(q), Settled(r) PROVE Settled(q \o r)
  <1>1. /\ IsList(q \o r) /\ Len(q) \in Nat /\ Len(r) \in Nat /\ Len(q \o r) = Len(q) + Len(r)
        /\ \A i \in 1 .. Len(q) : (q \o r)[i] = q[i]
        /\ \A i \in 1 .. Len(q) + Len(r) : i > Len(q) => (q \o r)[i] = r[i - Len(q)]
    BY JoinList DEF Settled
  <1>2. ASSUME NEW i \in 1 .. Len(q) + Len(r), (q \o r)[i].do = "saved"
        PROVE  i # 1 /\ (q \o r)[i - 1].do = "flush"
    <2>1. CASE i <= Len(q)
      <3>1. i \in 1 .. Len(q) BY <1>1, <2>1
      <3>2. i # 1 /\ q[i - 1].do = "flush" BY <1>1, <1>2, <3>1 DEF Settled, SavedAfter
      <3>3. i - 1 \in 1 .. Len(q) BY <1>1, <3>1, <3>2
      <3> QED BY <1>1, <3>2, <3>3
    <2>2. CASE i > Len(q)
      <3>1. PICK j : j = i - Len(q) OBVIOUS
      <3>2. j \in 1 .. Len(r) BY <1>1, <2>2, <3>1
      <3>3. (q \o r)[i] = r[j] BY <1>1, <2>2, <3>1
      <3>4. j # 1 /\ r[j - 1].do = "flush" BY <1>2, <3>2, <3>3 DEF Settled, SavedAfter
      <3>5. i - 1 \in 1 .. Len(q) + Len(r) /\ i - 1 > Len(q) /\ (i - 1) - Len(q) = j - 1 BY <1>1, <3>1, <3>2, <3>4
      <3>6. (q \o r)[i - 1] = r[(i - 1) - Len(q)] BY <1>1, <3>5
      <3> QED BY <1>1, <3>1, <3>2, <3>4, <3>5, <3>6
    <2> QED BY <1>1, <2>1, <2>2
  <1> QED BY <1>1, <1>2 DEF Settled, SavedAfter

LEMMA SettledSteps ==
  /\ \A x : LookStep(x).do # "saved" /\ LastStep(x).do # "saved"
  /\ \A x, y : FatStep(x, y).do # "saved" /\ DirStep(x, y).do # "saved" /\ DataStep(x, y).do # "saved" /\ FilStep(x, y).do # "saved"
  /\ FlushStep.do # "saved"
  BY DEF LookStep, LastStep, FatStep, DirStep, DataStep, FilStep, FlushStep

LEMMA SettledTwo == ASSUME NEW a, NEW b, a.do # "saved", b.do # "saved" PROVE Settled(<<a, b>>)
  <1>1. Settled(<<a>> \o <<b>>) BY SettledOne, SettledJoin
  <1>2. PICK q : q = <<a, b>> OBVIOUS
  <1>3. PICK r : r = <<a>> \o <<b>> OBVIOUS
  <1>4. q = r BY <1>2, <1>3, TwoSteps
  <1> QED BY ONLY <1>1, <1>2, <1>3, <1>4

LEMMA SettledBuffer == ASSUME NEW t, NEW f PROVE Settled(FlushBuffer(t, f))
  <1>1. CASE f.dirty
    <2>1. PICK a : a = DataStep(f.dsect, f.buf) OBVIOUS
    <2>2. PICK b : b = FilStep(t, [f EXCEPT !.dirty = FALSE]) OBVIOUS
    <2>3. FlushBuffer(t, f) = <<a, b>> BY <1>1, <2>1, <2>2 DEF FlushBuffer
    <2>4. a.do # "saved" /\ b.do # "saved" BY <2>1, <2>2, SettledSteps
    <2> QED BY <2>3, <2>4, SettledTwo
  <1>2. CASE ~ f.dirty BY <1>2, SettledNone DEF FlushBuffer
  <1> QED BY <1>1, <1>2

LEMMA SettledRemove == ASSUME NEW c PROVE Settled(RemoveChain(c))
  <1>1. PICK q : q = Chain(fat, c) OBVIOUS
  <1>2. Path(fat, c, q) BY <1>1, ChainPath
  <1>3. PICK n : n = Len(q) OBVIOUS
  <1>4. n \in Nat /\ DOMAIN q = 1 .. n BY <1>2, <1>3 DEF Path
  <1>5. PICK list : list = RemoveChain(c) OBVIOUS
  <1>6. list = [i \in 1 .. n |-> FatStep(q[i], 0)] BY <1>1, <1>4, <1>5 DEF RemoveChain
  <1>7. IsList(list) /\ Len(list) = n
    <2>1. list = [i \in 1 .. n |-> list[i]] BY <1>6
    <2> QED BY <1>4, <2>1, FunctionList
  <1>8. \A i \in 1 .. n : list[i].do # "saved" BY <1>6, SettledSteps
  <1> QED BY <1>5, <1>7, <1>8, SettledFree

LEMMA SettledCreate ==
  ASSUME fat \in [Clusters -> 0 .. EndOfChain], NEW c \in Starts, NEW r, r = CreateChain(c) PROVE Settled(r.steps)
  <1>1. \/ StillList(r.steps)
        \/ Grown(c, r.clst, r.steps)
    BY CreateCases
  <1>2. CASE StillList(r.steps) BY <1>2, SettledStill
  <1>3. CASE Grown(c, r.clst, r.steps)
    <2>1. PICK looks : /\ StillList(looks)
                       /\ r.steps = looks \o <<FatStep(r.clst, EndOfChain)>>
                                     \o (IF c = 0 THEN << >> ELSE <<FatStep(c, r.clst)>>) \o <<LastStep(r.clst)>>
      BY <1>3 DEF Grown
    <2>2. PICK link : link = IF c = 0 THEN << >> ELSE <<FatStep(c, r.clst)>> OBVIOUS
    <2>3. Settled(link)
      <3>1. CASE c = 0 BY <2>2, <3>1, SettledNone
      <3>2. CASE c # 0 BY <2>2, <3>2, SettledOne, SettledSteps
      <3> QED BY <3>1, <3>2
    <2>4. Settled(<<FatStep(r.clst, EndOfChain)>>) BY SettledOne, SettledSteps
    <2>5. Settled(<<LastStep(r.clst)>>) BY SettledOne, SettledSteps
    <2>6. Settled(looks \o <<FatStep(r.clst, EndOfChain)>>) BY <2>1, <2>4, SettledStill, SettledJoin
    <2>7. Settled((looks \o <<FatStep(r.clst, EndOfChain)>>) \o link) BY <2>3, <2>6, SettledJoin
    <2>8. Settled(((looks \o <<FatStep(r.clst, EndOfChain)>>) \o link) \o <<LastStep(r.clst)>>) BY <2>5, <2>7, SettledJoin
    <2> QED BY <2>1, <2>2, <2>8
  <1> QED BY <1>1, <1>2, <1>3

-----------------------------------------------------------------------------
(* The inductive invariant.                                                *)

\* Before a turn of the loop of f_lseek(): what is left is beyond the current cluster.
Seeking(f, p, left) ==
    /\ ~ f.err /\ (f.fptr % Units) = 0 /\ Len(f.text) <= f.fsize
    /\ left # 0 => f.fptr < Units * Len(p) /\ f.clust = p[f.fptr \div Units + 1]
    /\ left = 0 => f.fptr = 0

\* Where the steps of the call o end, its file is fit for the next turn of the loop.
Ends(o, W) ==
    LET f == W.fil[o.task]
    IN  /\ o.kind = "write" => o.left \in Nat /\ \E p : Fine(W, f, p) /\ Writing(W, f, p)
        /\ o.kind = "seek" => o.left \in Nat /\ \E p : Fine(W, f, p) /\ Seeking(f, p, o.left)
        /\ o.kind = "last" => \E p : Fine(W, f, p) /\ Rest(f, p)

Follows(list, V, o) == \E W : Leads(list, V, W, o) /\ Ends(o, W)

\* The disk has all that is saved, where the window shows it.
StoredOf(d, V, n) ==
    /\ d.dir[n] # None =>
          /\ d.dir[n].size \in Nat
          /\ \E p : Walk(d.fat, d.dir[n].clust, p) /\ d.dir[n].size <= Units * Len(p)
    /\ V.saved[n] # None =>
          /\ d.dir[n] # None /\ Len(V.saved[n]) <= d.dir[n].size
          /\ \E p : Holds(V, n, p) /\ Walk(d.fat, d.dir[n].clust, p)

DataInv ==
    ~ renameCut =>
        /\ Follows(todo, Now, op)
        /\ SavedAfter(todo, wflag)
        /\ \A n \in Names : StoredOf(disk, Now, n)

\* Between calls, and between the turns of a loop.
LEMMA BetweenSafe ==
  ASSUME DataInv, ~ renameCut, todo = << >>
  PROVE  Safe(Now, op, FALSE) /\ Ends(op, Now)
  <1>1. PICK W : Leads(todo, Now, W, op) /\ Ends(op, W) BY DEF DataInv, Follows
  <1>2. PICK V : V = Now OBVIOUS
  <1>3. PICK q : q = todo OBVIOUS
  <1>4. PICK o : o = op OBVIOUS
  <1>5. Leads(q, V, W, o) BY <1>1, <1>2, <1>3, <1>4
  <1>6. Safe(W, o, FALSE) /\ (q = << >> => V = W) BY <1>5, LeadsStart
  <1> QED BY <1>1, <1>2, <1>3, <1>4, <1>6

LEMMA Reop ==
  ASSUME NEW V, NEW o, Safe(V, o, FALSE), NEW new, \A t \in Tasks : Busy(o, t) => Busy(new, t)
  PROVE  Safe(V, new, FALSE)
  BY DEF Safe, FileOf

\* An error ends the call and marks its file.
LEMMA GiveUp ==
  ASSUME NEW V, NEW o, Safe(V, o, FALSE), NEW new, new.kind = "end",
         \A t \in Tasks : Busy(o, t) => DOMAIN V.fil[t] = DOMAIN Closed,
         NEW W, W = [fat |-> V.fat, dir |-> V.dir, data |-> V.data, saved |-> V.saved,
                     fil |-> IF o.kind \in {"write", "seek", "last"} THEN [V.fil EXCEPT ![o.task].err = TRUE] ELSE V.fil]
  PROVE  Safe(W, new, FALSE)
  <1>1. Formed(V) BY DEF Safe
  <1>2. W.fat = V.fat /\ W.dir = V.dir /\ W.data = V.data /\ W.saved = V.saved OBVIOUS
  <1>3. Around(V, W) BY <1>2 DEF Around
  <1>4. \A t \in Tasks : ~ Busy(new, t) BY DEF Busy
  <1>5. ASSUME NEW t \in Tasks
        PROVE  \/ ~ Busy(o, t) /\ W.fil[t] = V.fil[t]
               \/ Busy(o, t) /\ W.fil[t] = [V.fil[t] EXCEPT !.err = TRUE]
    <2>1. CASE o.kind \notin {"write", "seek", "last"} BY <2>1 DEF Busy
    <2>2. CASE o.kind \in {"write", "seek", "last"}
      <3>1. W.fil = [V.fil EXCEPT ![o.task].err = TRUE] BY <2>2
      <3>2. DOMAIN V.fil = Tasks BY <1>1 DEF Formed
      <3> QED BY <2>2, <3>1, <3>2 DEF Busy
    <2> QED BY <2>1, <2>2
  <1>6. DOMAIN W.fil = Tasks /\ W = [fat |-> W.fat, dir |-> W.dir, fil |-> W.fil, data |-> W.data, saved |-> W.saved]
    <2>1. DOMAIN W.fil = Tasks
      <3>1. DOMAIN V.fil = Tasks BY <1>1 DEF Formed
      <3>2. W.fil = V.fil \/ W.fil = [V.fil EXCEPT ![o.task].err = TRUE] OBVIOUS
      <3> QED BY <3>1, <3>2
    <2> QED BY <2>1
  <1>7. Formed(W) BY <1>1, <1>2, <1>6 DEF Formed
  <1>8. ASSUME NEW t \in Tasks PROVE FileOf(W, new, t, FALSE)
    <2>1. FileOf(V, o, t, FALSE) BY DEF Safe
    <2>2. W.fil[t].name = V.fil[t].name /\ \A u \in Tasks : W.fil[u].name = V.fil[u].name
      <3>1. \A u \in Tasks : W.fil[u].name = V.fil[u].name
        <4>1. ASSUME NEW u \in Tasks PROVE W.fil[u].name = V.fil[u].name
          <5>1. CASE ~ Busy(o, u) /\ W.fil[u] = V.fil[u] BY <5>1
          <5>2. CASE Busy(o, u) /\ W.fil[u] = [V.fil[u] EXCEPT !.err = TRUE] BY <5>2 DEF Closed
          <5> QED BY <1>5, <5>1, <5>2
        <4> QED BY <4>1
      <3> QED BY <3>1
    <2>3. CASE ~ Busy(o, t) /\ W.fil[t] = V.fil[t]
      <3>1. \A p : Fine(V, V.fil[t], p) <=> Fine(W, V.fil[t], p) BY <1>3, AroundSame
      <3> QED BY <1>4, <2>1, <2>2, <2>3, <3>1 DEF FileOf, Sole
    <2>4. CASE Busy(o, t) /\ W.fil[t] = [V.fil[t] EXCEPT !.err = TRUE]
      <3>1. PICK f : f = V.fil[t] OBVIOUS
      <3>2. PICK g : g = W.fil[t] OBVIOUS
      <3>3. DOMAIN f = DOMAIN Closed /\ g = [f EXCEPT !.err = TRUE] BY <2>4, <3>1, <3>2
      <3>4. /\ g.err /\ g.name = f.name /\ g.sclust = f.sclust /\ g.fptr = f.fptr /\ g.fsize = f.fsize
            /\ g.dsect = f.dsect /\ g.buf = f.buf /\ g.text = f.text
        BY <3>3 DEF Closed
      <3>5. g.dirty = f.dirty BY ONLY <3>3, Zenon DEF Closed
      <3>6. ASSUME NEW p, Fine(V, f, p) PROVE Fine(W, g, p) /\ Rest(g, p)
        <4>1. Sectors(W.data, g) = Sectors(V.data, f) BY <1>2, <3>4, <3>5 DEF Sectors
        <4>2. Fine(W, g, p) BY <1>2, <3>4, <3>5, <3>6, <4>1 DEF Fine
        <4> QED BY <3>4, <4>2 DEF Rest
      <3> QED BY <1>4, <2>1, <2>2, <2>4, <3>1, <3>2, <3>6 DEF FileOf, Sole
    <2> QED BY <1>5, <2>3, <2>4
  <1>9. \A n \in Names : StoreOf(W, n) BY <1>3, AroundSame DEF Safe
  <1> QED BY <1>7, <1>8, <1>9 DEF Safe

-----------------------------------------------------------------------------
(* The steps of a call, and its faults.                                    *)

LEMMA NowSafe ==
  ASSUME DataInv, ~ renameCut
  PROVE  /\ Safe(Now, op, todo # << >> /\ Head(todo).do = "fil") /\ Formed(Now) /\ \A n \in Names : StoreOf(Now, n)
         /\ \A n \in Names : StoredOf(disk, Now, n)
  <1>1. PICK W : Leads(todo, Now, W, op) /\ Ends(op, W) BY DEF DataInv, Follows
  <1>2. PICK V : V = Now OBVIOUS
  <1>3. PICK q : q = todo OBVIOUS
  <1>4. PICK o : o = op OBVIOUS
  <1>5. Leads(q, V, W, o) BY <1>1, <1>2, <1>3, <1>4
  <1>6. Safe(V, o, q # << >> /\ Head(q).do = "fil") BY <1>5, LeadsStart
  <1>7. Formed(V) /\ \A n \in Names : StoreOf(V, n) BY <1>6 DEF Safe
  <1> QED BY <1>2, <1>3, <1>4, <1>6, <1>7 DEF DataInv

LEMMA NowFields ==
  /\ Now.fat = fat /\ Now.dir = dir /\ Now.fil = fil /\ Now.data = disk.data /\ Now.saved = saved
  BY DEF Now

LEMMA WriteBackData == ASSUME FatIInv, DataInv, WriteBack PROVE DataInv'
  <1>1. /\ disk' = [disk EXCEPT !.fat = fat, !.dir = dir] /\ wflag' = FALSE
        /\ UNCHANGED <<fat, dir, fil, op, todo, saved, renameCut>>
    BY DEF WriteBack
  <1>2. SUFFICES ASSUME ~ renameCut
                 PROVE  Follows(todo, Now, op)' /\ SavedAfter(todo, wflag)' /\ \A n \in Names : StoredOf(disk, Now, n)'
    BY <1>1 DEF DataInv
  <1>3. disk'.fat = fat /\ disk'.dir = dir /\ disk'.data = disk.data
    <2>1. DOMAIN disk = {"fat", "dir", "data"} BY DEF FatIInv
    <2> QED BY <1>1, <2>1
  <1>4. Now' = Now BY <1>1, <1>3 DEF Now
  <1>5. Follows(todo, Now, op) /\ SavedAfter(todo, wflag) BY <1>2 DEF DataInv
  <1>6. Follows(todo, Now, op)' BY <1>1, <1>4, <1>5 DEF Follows
  <1>7. SavedAfter(todo, wflag)' BY <1>1, <1>5 DEF SavedAfter
  <1>8. ASSUME NEW n \in Names PROVE StoredOf(disk, Now, n)'
    <2>1. StoreOf(Now, n) BY <1>2, NowSafe
    <2>2. StoredOf(disk', Now, n)
      <3>1. PICK d : d = disk' OBVIOUS
      <3>2. PICK V : V = Now OBVIOUS
      <3>3. StoreOf(V, n) /\ d.fat = V.fat /\ d.dir = V.dir BY <1>3, <2>1, <3>1, <3>2, NowFields
      <3>4. StoredOf(d, V, n) BY <3>3 DEF StoredOf, StoreOf, Holds
      <3> QED BY <3>1, <3>2, <3>4
    <2> QED BY <1>4, <2>2
  <1> QED BY <1>6, <1>7, <1>8

LEMMA SettledTail ==
  ASSUME NEW q, IsList(q), q # << >>, NEW flag, SavedAfter(q, flag), NEW new, Head(q).do = "flush" => ~ new
  PROVE  SavedAfter(Tail(q), new)
  <1>1. /\ IsList(Tail(q)) /\ Len(q) \in Nat \ {0} /\ Len(Tail(q)) = Len(q) - 1 /\ Head(q) = q[1]
        /\ \A i \in 1 .. Len(q) - 1 : Tail(q)[i] = q[i + 1]
    BY TailList
  <1>2. ASSUME NEW i \in 1 .. Len(Tail(q)), Tail(q)[i].do = "saved"
        PROVE  (i = 1 => ~ new) /\ (i # 1 => Tail(q)[i - 1].do = "flush")
    <2>1. i + 1 \in 1 .. Len(q) /\ i + 1 # 1 /\ (i + 1) - 1 = i /\ q[i + 1].do = "saved" BY <1>1, <1>2
    <2>2. q[i].do = "flush" BY <2>1 DEF SavedAfter
    <2>3. i # 1 => i - 1 \in 1 .. Len(q) - 1 /\ (i - 1) + 1 = i BY <1>1
    <2> QED BY <1>1, <2>2, <2>3
  <1> QED BY <1>2 DEF SavedAfter

LEMMA TakeStepData == ASSUME FatIInv, DataInv, TakeStep PROVE DataInv'
  <1>1. /\ todo # << >> /\ ~ (wflag /\ Step.do = "flush") /\ todo' = Tail(todo)
        /\ wflag' = (wflag \/ Step.do \in {"fat", "dir"})
        /\ UNCHANGED <<op, renameCut>>
    BY DEF TakeStep
  <1>2. SUFFICES ASSUME ~ renameCut
                 PROVE  Follows(todo, Now, op)' /\ SavedAfter(todo, wflag)' /\ \A n \in Names : StoredOf(disk, Now, n)'
    BY <1>1 DEF DataInv
  <1>3. PICK V : V = Now OBVIOUS
  <1>4. PICK s : s = Step OBVIOUS
  <1>5. PICK q : q = todo OBVIOUS
  <1>6. PICK o : o = op OBVIOUS
  <1>7. disk'.fat = disk.fat /\ disk'.dir = disk.dir
        /\ disk'.data = IF s.do = "data" THEN [disk.data EXCEPT ![s.clst] = s.val] ELSE disk.data
    <2>1. DOMAIN disk = {"fat", "dir", "data"} BY DEF FatIInv
    <2>2. disk' = IF s.do = "data" THEN [disk EXCEPT !.data[s.clst] = s.val] ELSE disk BY <1>4 DEF TakeStep
    <2> QED BY <2>1, <2>2
  <1>8. Now' = Take(V, s)
    <2>1. /\ fat' = IF s.do = "fat" THEN [fat EXCEPT ![s.clst] = s.val] ELSE fat
          /\ dir' = IF s.do = "dir" THEN [dir EXCEPT ![s.name] = s.entry] ELSE dir
          /\ fil' = IF s.do = "fil" THEN [fil EXCEPT ![s.task] = s.file] ELSE fil
          /\ saved' = IF s.do = "saved" THEN [saved EXCEPT ![s.name] = s.text] ELSE saved
      BY <1>4 DEF TakeStep
    <2>2. V.fat = fat /\ V.dir = dir /\ V.fil = fil /\ V.data = disk.data /\ V.saved = saved BY <1>3, NowFields
    <2> QED BY <1>7, <2>1, <2>2 DEF Now, Take
  <1>9. PICK W : Leads(q, V, W, o) /\ Ends(o, W) BY <1>2, <1>3, <1>5, <1>6 DEF DataInv, Follows
  <1>10. PICK U : U = Take(V, s) OBVIOUS
  <1>11. s = Head(q) /\ q # << >> BY <1>1, <1>4, <1>5 DEF Step
  <1>12. Leads(Tail(q), U, W, o) /\ Kept(V, U) BY <1>9, <1>10, <1>11, LeadsTail
  <1>13. Follows(Tail(q), U, o) BY <1>9, <1>12 DEF Follows
  <1>14. Follows(todo, Now, op)' BY <1>1, <1>5, <1>6, <1>8, <1>10, <1>13
  <1>15. SavedAfter(todo, wflag)'
    <2>1. IsList(q) BY <1>9 DEF Leads
    <2>2. PICK flag : flag = wflag OBVIOUS
    <2>3. PICK new : new = wflag' OBVIOUS
    <2>4. SavedAfter(q, flag) BY <1>2, <1>5, <2>2 DEF DataInv
    <2>5. Head(q).do = "flush" => ~ new
      <3>1. ASSUME s.do = "flush" PROVE ~ new
        <4>1. ~ wflag BY <1>1, <1>4, <3>1
        <4>2. s.do \notin {"fat", "dir"} BY <3>1
        <4> QED BY <1>1, <1>4, <2>3, <4>1, <4>2
      <3> QED BY <1>11, <3>1
    <2>6. SavedAfter(Tail(q), new) BY <1>11, <2>1, <2>4, <2>5, SettledTail
    <2> QED BY <1>1, <1>5, <2>3, <2>6
  <1>16. ASSUME NEW n \in Names PROVE StoredOf(disk, Now, n)'
    <2>1. PICK d : d = disk' OBVIOUS
    <2>2. StoredOf(disk, V, n) BY <1>2, <1>3 DEF DataInv
    <2>3. StoredOf(d, V, n)
      <3>1. d.fat = disk.fat /\ d.dir = disk.dir BY <1>7, <2>1
      <3> QED BY <2>2, <3>1 DEF StoredOf
    <2>4. CASE U.saved[n] = V.saved[n]
      <3>1. U.saved[n] # None => \A p : Holds(V, n, p) => Holds(U, n, p) BY <1>12, <2>4 DEF Kept, KeptOf
      <3>2. StoredOf(d, U, n) BY <2>3, <2>4, <3>1 DEF StoredOf
      <3> QED BY <1>8, <1>10, <2>1, <3>2
    <2>5. CASE U.saved[n] # V.saved[n]
      <3>1. s.do = "saved" BY <1>10, <2>5 DEF Take
      <3>2. ~ wflag
        <4>1. SavedAfter(q, wflag) /\ IsList(q) BY <1>2, <1>5, <1>9 DEF DataInv, Leads
        <4>2. q[1].do = "saved" /\ Len(q) \in Nat \ {0} BY <1>11, <3>1, <4>1, TailList
        <4>3. 1 \in 1 .. Len(q) BY <4>2
        <4> QED BY <4>1, <4>2, <4>3 DEF SavedAfter
      <3>3. disk.fat = fat /\ disk.dir = dir BY <1>2, <3>2 DEF FatIInv
      <3>4. d.fat = U.fat /\ d.dir = U.dir
        <4>1. V.fat = fat /\ V.dir = dir BY <1>3, NowFields
        <4>2. U.fat = V.fat /\ U.dir = V.dir BY <1>10, <3>1 DEF Take
        <4> QED BY <1>7, <2>1, <3>3, <4>1, <4>2
      <3>5. StoreOf(U, n)
        <4>1. PICK r : r = Tail(q) OBVIOUS
        <4>2. Leads(r, U, W, o) BY <1>12, <4>1
        <4>3. Safe(U, o, r # << >> /\ Head(r).do = "fil") BY <4>2, LeadsStart
        <4> QED BY <4>3 DEF Safe
      <3>6. StoredOf(d, U, n) BY <3>4, <3>5 DEF StoredOf, StoreOf, Holds
      <3> QED BY <1>8, <1>10, <2>1, <3>6
    <2> QED BY <2>4, <2>5
  <1> QED BY <1>14, <1>15, <1>16

\* A call, a turn of a loop, or an error: the volume stays, but for what is open and what is forgotten.
LEMMA CallData ==
  ASSUME DataInv, UNCHANGED <<disk, fat, dir>>, ~ renameCut' => ~ renameCut,
         \A n \in Names : saved'[n] \in {None, saved[n]},
         ~ renameCut' => SavedAfter(todo', wflag') /\ \E V : V = Now' /\ Follows(todo', V, op')
  PROVE  DataInv'
  <1> SUFFICES ASSUME ~ renameCut' PROVE DataInv' BY DEF DataInv
  <1>1. PICK V : V = Now' /\ Follows(todo', V, op') OBVIOUS
  <1>2. ASSUME NEW n \in Names PROVE StoredOf(disk, Now, n)'
    <2>1. PICK U : U = Now OBVIOUS
    <2>2. PICK d : d = disk OBVIOUS
    <2>3. ~ renameCut OBVIOUS
    <2>4. StoredOf(d, U, n) BY <2>1, <2>2, <2>3 DEF DataInv
    <2>5. V.fat = U.fat /\ V.dir = U.dir /\ V.data = U.data /\ V.saved[n] \in {None, U.saved[n]}
      BY <1>1, <2>1 DEF Now
    <2>6. StoredOf(d, V, n) BY <2>4, <2>5 DEF StoredOf, Holds
    <2> QED BY <1>1, <2>2, <2>6
  <1> QED BY <1>1, <1>2 DEF DataInv

\* A volume that leads nowhere further.
LEMMA FollowsNone ==
  ASSUME NEW V, NEW o, Safe(V, o, FALSE), Ends(o, V) PROVE Follows(<< >>, V, o)
  <1>1. Leads(<< >>, V, V, o) BY LeadsNone
  <1> QED BY <1>1 DEF Follows

LEMMA EndsElse ==
  ASSUME NEW o, o.kind \notin {"write", "seek", "last"}, NEW W PROVE Ends(o, W) /\ \A t : ~ Busy(o, t)
  BY DEF Ends, Busy

LEMMA LeaveData == ASSUME DataInv, Leave PROVE DataInv'
  <1>1. /\ op.kind \in {"end", "last", "rename"} /\ todo = << >> /\ op' = NoOp
        /\ UNCHANGED <<disk, fat, dir, wflag, fil, todo, saved, renameCut>>
    BY DEF Leave, window
  <1>2. ASSUME ~ renameCut' PROVE SavedAfter(todo', wflag') /\ \E V : V = Now' /\ Follows(todo', V, op')
    <2>1. PICK V : V = Now OBVIOUS
    <2>2. PICK o : o = op OBVIOUS
    <2>3. PICK new : new = NoOp OBVIOUS
    <2>4. Safe(V, o, FALSE) /\ Ends(o, V) BY <1>1, <1>2, <2>1, <2>2, BetweenSafe
    <2>5. new.kind \notin {"write", "seek", "last"} BY <2>3 DEF NoOp
    <2>6. Ends(new, V) /\ \A t : ~ Busy(new, t) BY <2>5, EndsElse
    <2>7. ASSUME NEW t \in Tasks PROVE FileOf(V, new, t, FALSE)
      <3>1. FileOf(V, o, t, FALSE) BY <2>4 DEF Safe
      <3>2. Busy(o, t) => \E p : Fine(V, V.fil[t], p) /\ Rest(V.fil[t], p)
        <4>1. ASSUME Busy(o, t) PROVE o.kind = "last" /\ t = o.task BY <1>1, <2>2, <4>1 DEF Busy
        <4> QED BY <2>4, <4>1 DEF Ends
      <3> QED BY <2>6, <3>1, <3>2 DEF FileOf
    <2>8. Safe(V, new, FALSE) BY <2>4, <2>7 DEF Safe
    <2>9. Follows(<< >>, V, new) BY <2>6, <2>8, FollowsNone
    <2>10. Now' = Now BY <1>1 DEF Now
    <2>11. SavedAfter(todo', wflag')
      <3>1. PICK q : q = << >> OBVIOUS
      <3>2. Settled(q) BY <3>1, SettledNone
      <3>3. SavedAfter(q, wflag') BY <3>2, SettledAny
      <3> QED BY <1>1, <3>1, <3>3
    <2> QED BY <1>1, <2>1, <2>3, <2>9, <2>10, <2>11
  <1> QED BY <1>1, <1>2, CallData

LEMMA SavedNone == ASSUME NEW flag PROVE SavedAfter(<< >>, flag)
  BY SettledNone, SettledAny

LEMMA DiskErrorData == ASSUME FatIInv, DataInv, DiskError PROVE DataInv'
  <1>1. /\ todo # << >> /\ (MovesWindow \/ Step.do = "data" \/ (Step.do = "flush" /\ wflag))
        /\ todo' = << >> /\ op' = [op EXCEPT !.kind = "end"]
        /\ fil' = IF op.kind \in {"write", "seek", "last"} THEN [fil EXCEPT ![op.task].err = TRUE] ELSE fil
        /\ renameCut' = (renameCut \/ op.kind = "rename")
        /\ UNCHANGED <<disk, fat, dir, saved>>
    BY DEF DiskError
  <1>2. ASSUME ~ renameCut' PROVE SavedAfter(todo', wflag') /\ \E V : V = Now' /\ Follows(todo', V, op')
    <2>1. PICK V : V = Now OBVIOUS
    <2>2. PICK o : o = op OBVIOUS
    <2>3. PICK new : new = op' OBVIOUS
    <2>4. PICK W : W = Now' OBVIOUS
    <2>5. new.kind = "end"
      <3>1. DOMAIN op = {"task", "kind", "left"} BY DEF FatIInv
      <3> QED BY <1>1, <2>3, <3>1
    <2>6. ~ renameCut /\ op.kind # "rename" BY <1>1, <1>2
    <2>7. Safe(V, o, FALSE)
      <3>1. Head(todo).do # "fil" BY <1>1 DEF MovesWindow, Step
      <3>2. Safe(V, o, todo # << >> /\ Head(todo).do = "fil") BY <2>1, <2>2, <2>6, NowSafe
      <3> QED BY <3>1, <3>2 DEF Safe, FileOf
    <2>8. \A t \in Tasks : DOMAIN V.fil[t] = DOMAIN Closed
      <3>1. Sane(view) BY <2>6, ViewSane
      <3>2. view.fil = V.fil BY <2>1 DEF view, Now
      <3> QED BY <3>1, <3>2 DEF Sane, Shape, FileOK
    <2>9. W = [fat |-> V.fat, dir |-> V.dir, data |-> V.data, saved |-> V.saved,
               fil |-> IF o.kind \in {"write", "seek", "last"} THEN [V.fil EXCEPT ![o.task].err = TRUE] ELSE V.fil]
      <3>1. V.fat = fat /\ V.dir = dir /\ V.fil = fil /\ V.data = disk.data /\ V.saved = saved BY <2>1, NowFields
      <3> QED BY <1>1, <2>2, <2>4, <3>1 DEF Now
    <2>10. Safe(W, new, FALSE) BY <2>5, <2>7, <2>8, <2>9, GiveUp
    <2>11. Ends(new, W) BY <2>5, EndsElse
    <2>12. Follows(<< >>, W, new) BY <2>10, <2>11, FollowsNone
    <2> QED BY <1>1, <2>3, <2>4, <2>12, SavedNone
  <1> QED BY <1>1, <1>2, CallData

LEMMA PowerLossData == ASSUME FatIInv, DataInv, PowerLoss PROVE DataInv'
  <1>1. /\ fat' = disk.fat /\ dir' = disk.dir /\ fil' = [t \in Tasks |-> Closed] /\ op' = NoOp /\ todo' = << >>
        /\ renameCut' = (renameCut \/ op.kind = "rename") /\ UNCHANGED <<disk, saved>>
    BY DEF PowerLoss
  <1>2. SUFFICES ASSUME ~ renameCut'
                 PROVE  Follows(todo, Now, op)' /\ SavedAfter(todo, wflag)' /\ \A n \in Names : StoredOf(disk, Now, n)'
    BY DEF DataInv
  <1>3. ~ renameCut /\ op.kind # "rename" BY <1>1, <1>2
  <1>4. PICK V : V = Now OBVIOUS
  <1>5. PICK W : W = Now' OBVIOUS
  <1>6. PICK d : d = disk OBVIOUS
  <1>7. /\ W.fat = d.fat /\ W.dir = d.dir /\ W.fil = [t \in Tasks |-> Closed] /\ W.data = V.data /\ W.saved = V.saved
        /\ W = [fat |-> W.fat, dir |-> W.dir, fil |-> W.fil, data |-> W.data, saved |-> W.saved]
    BY <1>1, <1>4, <1>5, <1>6 DEF Now
  <1>8. Formed(V) /\ \A n \in Names : StoreOf(V, n) /\ StoredOf(d, V, n) BY <1>3, <1>4, <1>6, NowSafe
  <1>9. DOMAIN d.fat = Clusters /\ DOMAIN d.dir = Names
    <2>1. Shape(onDisk) BY <1>3 DEF FatIInv, Sane
    <2>2. onDisk.fat = d.fat /\ onDisk.dir = d.dir BY <1>6 DEF onDisk
    <2> QED BY <2>1, <2>2 DEF Shape
  <1>10. Formed(W) BY <1>7, <1>8, <1>9 DEF Formed
  <1>11. ASSUME NEW n \in Names PROVE StoreOf(W, n) /\ StoredOf(d, W, n)
    <2>1. StoredOf(d, V, n) /\ StoreOf(V, n) BY <1>8
    <2>2. \A p : Holds(V, n, p) /\ Walk(d.fat, d.dir[n].clust, p) => Holds(W, n, p) BY <1>7 DEF Holds
    <2> QED BY <1>7, <2>1, <2>2 DEF StoreOf, StoredOf
  <1>12. \A t \in Tasks : FileOf(W, NoOp, t, FALSE) BY <1>7 DEF FileOf, Closed
  <1>13. Safe(W, NoOp, FALSE) BY <1>10, <1>11, <1>12 DEF Safe
  <1>14. Follows(<< >>, W, NoOp)
    <2>1. PICK o : o = NoOp OBVIOUS
    <2>2. o.kind \notin {"write", "seek", "last"} BY <2>1 DEF NoOp
    <2>3. Ends(o, W) BY <2>2, EndsElse
    <2>4. Safe(W, o, FALSE) BY <1>13, <2>1
    <2> QED BY <2>1, <2>3, <2>4, FollowsNone
  <1>15. SavedAfter(todo', wflag') BY <1>1, SavedNone
  <1> QED BY <1>1, <1>5, <1>6, <1>11, <1>14, <1>15

-----------------------------------------------------------------------------
(* The calls.                                                              *)

LEMMA CallSound ==
  ASSUME FatIInv, DataInv, ~ renameCut, op = NoOp, NEW o PROVE Sound(Now, o)
  <1>1. PICK V : V = Now OBVIOUS
  <1>2. PICK none : none = NoOp OBVIOUS
  <1>3. PICK late : late = (todo # << >> /\ Head(todo).do = "fil") OBVIOUS
  <1>4. Safe(V, none, late) BY <1>1, <1>2, <1>3, NowSafe
  <1>5. \A t : ~ Busy(none, t) BY <1>2 DEF NoOp, Busy
  <1>6. Safe(V, o, FALSE) BY <1>4, <1>5 DEF Safe, FileOf
  <1>7. Sane(view)
    <2>1. op.kind # "rename" BY DEF NoOp
    <2> QED BY <2>1, ViewSane
  <1>8. Plain(V) = view BY <1>1, NowFields DEF Plain, view
  <1> QED BY <1>1, <1>6, <1>7, <1>8 DEF Sound

LEMMA EnterData ==
  ASSUME FatIInv, DataInv, NEW t, NEW kind, NEW left, NEW steps, Enter(t, kind, left, steps), UNCHANGED fil,
         UNCHANGED saved \/ \E ns : Forget(ns), ~ renameCut => Settled(steps),
         NEW o, o = [task |-> t, kind |-> kind, left |-> left],
         \A V : V = Now' /\ Sound(V, o) /\ ~ renameCut => Follows(steps, V, o)
  PROVE  DataInv'
  <1>1. /\ op = NoOp /\ op' = o /\ todo' = steps
        /\ UNCHANGED <<disk, fat, dir, fil, wflag, renameCut>>
    BY DEF Enter, window
  <1>2. \A n \in Names : saved'[n] \in {None, saved[n]} BY DEF Forget
  <1>3. ASSUME ~ renameCut' PROVE SavedAfter(todo', wflag') /\ \E V : V = Now' /\ Follows(todo', V, op')
    <2>1. ~ renameCut BY <1>1, <1>3
    <2>2. PICK U : U = Now OBVIOUS
    <2>3. Sound(U, o) BY <1>1, <2>1, <2>2, CallSound
    <2>4. PICK V : V = Now' OBVIOUS
    <2>5. U.fat = fat /\ U.dir = dir /\ U.fil = fil /\ U.data = disk.data /\ U.saved = saved BY <2>2, NowFields
    <2>6. V.fat = U.fat /\ V.dir = U.dir /\ V.fil = U.fil /\ V.data = U.data /\ V.saved = saved'
      BY <1>1, <2>4, <2>5 DEF Now
    <2>7. V = [fat |-> U.fat, dir |-> U.dir, fil |-> U.fil, data |-> U.data, saved |-> V.saved]
      BY <1>1, <2>4, <2>5 DEF Now
    <2>8. Formed(U) BY <2>3 DEF Sound, Safe
    <2>9. DOMAIN V.saved = Names BY <2>5, <2>6, <2>8 DEF Forget, Formed
    <2>10. \A n \in Names : V.saved[n] \in {None, U.saved[n]} BY <1>2, <2>5, <2>6
    <2>11. Safe(V, o, FALSE)
      <3>1. Safe(U, o, FALSE) BY <2>3 DEF Sound
      <3> QED BY ONLY <2>7, <2>9, <2>10, <3>1, ForgetSafe
    <2>12. Sound(V, o) BY <2>3, <2>6, <2>11 DEF Sound, Plain
    <2>13. Follows(steps, V, o) BY <2>1, <2>4, <2>12
    <2>14. PICK flag : flag = wflag' OBVIOUS
    <2>15. SavedAfter(steps, flag) BY <2>1, SettledAny
    <2> QED BY <1>1, <2>4, <2>13, <2>14, <2>15
  <1>4. UNCHANGED <<disk, fat, dir>> /\ (~ renameCut' => ~ renameCut) BY <1>1
  <1> QED BY <1>2, <1>3, <1>4, CallData

LEMMA SettledSync == ASSUME NEW t PROVE Settled(SyncSteps(t))
  <1>1. PICK f : f = fil[t] OBVIOUS
  <1>2. CASE ~ f.written BY <1>1, <1>2, SettledNone DEF SyncSteps
  <1>3. CASE f.written
    <2>1. PICK e : e = IF dir[f.name] = None THEN None ELSE [clust |-> f.sclust, size |-> f.fsize] OBVIOUS
    <2>2. PICK a : a = DirStep(f.name, e) OBVIOUS
    <2>3. PICK b : b = FilStep(t, [f EXCEPT !.dirty = FALSE, !.written = FALSE]) OBVIOUS
    <2>4. PICK c : c = FlushStep OBVIOUS
    <2>5. PICK d : d = SavedStep(f.name, IF e = None THEN None ELSE SubSeq(f.text, 1, f.fsize)) OBVIOUS
    <2>6. PICK q : q = <<a, b, c, d>> OBVIOUS
    <2>7. SyncSteps(t) = FlushBuffer(t, f) \o q BY <1>1, <1>3, <2>1, <2>2, <2>3, <2>4, <2>5, <2>6 DEF SyncSteps
    <2>8. a.do # "saved" /\ b.do # "saved" /\ c.do = "flush" BY <2>2, <2>3, <2>4, SettledSteps DEF FlushStep
    <2>9. Settled(q)
      <3>1. q \in Seq({a, b, c, d}) /\ Len(q) = 4 /\ q[1] = a /\ q[2] = b /\ q[3] = c /\ q[4] = d BY <2>6
      <3>2. \A i \in 1 .. 4 : i = 1 \/ i = 2 \/ i = 3 \/ (i = 4 /\ i - 1 = 3) OBVIOUS
      <3>3. c.do # "saved" BY <2>8
      <3>4. ASSUME NEW i \in 1 .. 4, q[i].do = "saved" PROVE i # 1 /\ q[i - 1].do = "flush"
        <4>1. i = 4 /\ i - 1 = 3 BY <2>8, <3>1, <3>2, <3>3, <3>4
        <4> QED BY <2>8, <3>1, <4>1
      <3> QED BY <3>1, <3>4 DEF Settled, SavedAfter, IsList
    <2> QED BY <2>7, <2>9, SettledBuffer, SettledJoin
  <1> QED BY <1>2, <1>3

LEMMA SyncData == ASSUME FatIInv, DataInv, NEW t \in Tasks, f_sync(t) PROVE DataInv'
  <1>1. fil[t].name # None /\ Enter(t, "end", 0, SyncSteps(t)) /\ UNCHANGED <<fil, saved>> BY DEF f_sync
  <1>2. PICK o : o = [task |-> t, kind |-> "end", left |-> 0] OBVIOUS
  <1>3. UNCHANGED <<disk, fat, dir>> BY <1>1 DEF Enter, window
  <1>4. ASSUME NEW V, V = Now', Sound(V, o), ~ renameCut PROVE Follows(SyncSteps(t), V, o)
    <2>1. V = Now BY <1>1, <1>3, <1>4 DEF Now
    <2>2. o.kind \notin {"write", "seek", "last"} BY <1>2
    <2>3. ~ Busy(o, t) BY <2>2, EndsElse
    <2>4. PICK W : Leads(SyncSteps(t), V, W, o) /\ Sound(W, o) BY <1>1, <1>4, <2>1, <2>3, SyncLeads
    <2> QED BY <2>2, <2>4, EndsElse DEF Follows
  <1>5. PICK steps : steps = SyncSteps(t) OBVIOUS
  <1>6. Enter(t, "end", 0, steps) /\ Settled(steps) /\ \A V : V = Now' /\ Sound(V, o) /\ ~ renameCut => Follows(steps, V, o)
    BY <1>1, <1>4, <1>5, SettledSync
  <1> QED BY <1>1, <1>2, <1>6, EnterData

LEMMA CloseData == ASSUME FatIInv, DataInv, NEW t \in Tasks, f_close(t) PROVE DataInv'
  <1>1. /\ fil[t].name # None /\ Enter(t, "end", 0, SyncSteps(t) \o <<FilStep(t, Closed)>>)
        /\ UNCHANGED <<fil, saved>>
    BY DEF f_close
  <1>2. PICK o : o = [task |-> t, kind |-> "end", left |-> 0] OBVIOUS
  <1>3. UNCHANGED <<disk, fat, dir>> BY <1>1 DEF Enter, window
  <1>4. PICK steps : steps = SyncSteps(t) \o <<FilStep(t, Closed)>> OBVIOUS
  <1>5. ASSUME NEW V, V = Now', Sound(V, o), ~ renameCut PROVE Follows(steps, V, o)
    <2>1. V = Now BY <1>1, <1>3, <1>5 DEF Now
    <2>2. o.kind \notin {"write", "seek", "last"} BY <1>2
    <2>3. ~ Busy(o, t) BY <2>2, EndsElse
    <2>4. PICK W : Leads(steps, V, W, o) /\ Sound(W, o) BY <1>1, <1>4, <1>5, <2>1, <2>3, CloseLeads
    <2> QED BY <2>2, <2>4, EndsElse DEF Follows
  <1>6. Settled(steps)
    <2>1. Settled(<<FilStep(t, Closed)>>) BY SettledOne, SettledSteps
    <2> QED BY <1>4, <2>1, SettledSync, SettledJoin
  <1>7. Enter(t, "end", 0, steps) BY <1>1, <1>4
  <1> QED BY <1>1, <1>2, <1>5, <1>6, <1>7, EnterData

LEMMA WriteData == ASSUME FatIInv, DataInv, NEW t \in Tasks, NEW k \in Lengths, f_write(t, k) PROVE DataInv'
  <1>1. /\ fil[t].name # None /\ ~ fil[t].err /\ Enter(t, "write", k, << >>) /\ UNCHANGED fil
        /\ IF fil[t].fptr < fil[t].fsize THEN Forget({fil[t].name}) ELSE UNCHANGED saved
    BY DEF f_write
  <1>2. PICK o : o = [task |-> t, kind |-> "write", left |-> k] OBVIOUS
  <1>3. PICK f : f = fil[t] OBVIOUS
  <1>4. k \in Nat BY FatAssumption
  <1>5. PICK steps : steps = << >> OBVIOUS
  <1>6. op = NoOp /\ UNCHANGED <<disk, fat, dir>> BY <1>1 DEF Enter, window
  <1>7. ASSUME NEW V, V = Now', Sound(V, o), ~ renameCut PROVE Follows(steps, V, o)
    <2>1. V.fil[t] = f /\ V.saved = saved' BY <1>1, <1>3, <1>7 DEF Now
    <2>2. PICK U : U = Now OBVIOUS
    <2>3. PICK none : none = NoOp OBVIOUS
    <2>4. Sound(U, none) BY <1>6, <1>7, <2>2, CallSound
    <2>5. FileOf(U, none, t, FALSE) BY <2>4 DEF Sound, Safe
    <2>6. ~ Busy(none, t) BY <2>3 DEF Busy, NoOp
    <2>7. U.fil[t] = f BY <1>3, <2>2, NowFields
    <2>8. PICK p : Fine(U, f, p) /\ Rest(f, p) BY <1>1, <1>3, <2>5, <2>6, <2>7 DEF FileOf
    <2>9. /\ f.name \in Names /\ IsList(f.text) /\ f.fsize \in Nat /\ f.fptr \in Nat /\ f.fsize <= Len(f.text)
      BY <2>8 DEF Fine
    <2>10. Placed(f, p) /\ f.fptr <= f.fsize BY <1>1, <1>3, <2>8 DEF Rest
    <2>11. V.saved[f.name] # None => f.fptr >= f.fsize /\ V.saved[f.name] = U.saved[f.name]
      <3>1. CASE f.fptr < f.fsize
        <4>1. saved'[f.name] = None BY <1>1, <1>3, <2>9, <3>1 DEF Forget
        <4> QED BY <2>1, <4>1
      <3>2. CASE ~ (f.fptr < f.fsize)
        <4>1. saved' = saved BY <1>1, <1>3, <3>2
        <4> QED BY <2>1, <2>2, <2>9, <3>2, <4>1, NowFields
      <3> QED BY <3>1, <3>2
    <2>12. Fine(V, f, p)
      <3>1. V.fat = U.fat /\ V.dir = U.dir /\ V.data = U.data BY <1>6, <1>7, <2>2 DEF Now
      <3> QED BY <2>8, <2>11, <3>1 DEF Fine
    <2>13. f.fptr <= Len(f.text)
      <3>1. Len(f.text) \in Nat BY <2>9, ListLength
      <3> QED BY <2>9, <2>10, <3>1
    <2>14. Writing(V, f, p) BY <1>1, <1>3, <2>10, <2>11, <2>13 DEF Writing
    <2>15. Ends(o, V)
      <3>1. o.kind = "write" /\ o.left = k /\ o.task = t BY <1>2
      <3> QED BY <1>4, <2>1, <2>12, <2>14, <3>1 DEF Ends
    <2>16. Safe(V, o, FALSE) BY <1>7 DEF Sound
    <2> QED BY <1>5, <2>15, <2>16, FollowsNone
  <1>8. Enter(t, "write", k, steps) /\ Settled(steps) BY <1>1, <1>5, SettledNone
  <1>9. UNCHANGED saved \/ \E ns : Forget(ns) BY <1>1
  <1> QED BY <1>1, <1>2, <1>7, <1>8, <1>9, EnterData

\* The file of the call becomes g.
LEMMA FilEnd ==
  ASSUME NEW V, NEW o, Sound(V, o), NEW t \in Tasks, Busy(o, t), NEW g, Fits(Plain(V), g), NEW p, Fine(V, g, p),
         V.fil[t].name = g.name
  PROVE  \E W : /\ Leads(<<FilStep(t, g)>>, V, W, o) /\ Sound(W, o) /\ W.fil[t] = g /\ Fine(W, g, p) /\ Around(V, W)
  <1>1. g.name \in Names /\ g.name # None
    <2>1. g.name \in Names BY DEF Fine
    <2> QED BY <2>1, FatAssumption
  <1>2. Opened(V, o, t, g)
    <2>1. FileOf(V, o, t, FALSE) BY DEF Sound, Safe
    <2>2. Sole(V, t) BY <1>1, <2>1 DEF FileOf
    <2> QED BY <2>2 DEF Opened, Sole
  <1>3. PICK W : Leads(<<FilStep(t, g)>>, V, W, o) /\ Gives(V, W, o, t, g) BY <1>2, FilLeads
  <1>4. Sound(W, o) /\ Around(V, W) /\ Has(W, t, g) BY <1>3 DEF Gives
  <1>5. Fine(W, g, p) BY <1>4, AroundSame
  <1> QED BY <1>3, <1>4, <1>5 DEF Has

\* An open file, when no call is under way.
LEMMA IdleFile ==
  ASSUME FatIInv, DataInv, ~ renameCut, op = NoOp, NEW t \in Tasks, NEW f, f = fil[t], f.name # None
  PROVE  /\ \E p : Fine(Now, f, p) /\ Rest(f, p)
         /\ f.name \in Names /\ IsList(f.text) /\ Len(f.text) \in Nat /\ f.fsize \in Nat /\ f.fptr \in Nat
         /\ f.fsize <= Len(f.text) /\ (~ f.err => f.fptr <= f.fsize /\ Len(f.text) <= f.fsize)
         /\ DOMAIN f = DOMAIN Closed /\ f.sclust \in Starts /\ f.clust \in Starts
  <1>1. PICK U : U = Now OBVIOUS
  <1>2. PICK none : none = NoOp OBVIOUS
  <1>3. Sound(U, none) BY <1>1, CallSound
  <1>4. FileOf(U, none, t, FALSE) BY <1>3 DEF Sound, Safe
  <1>5. ~ Busy(none, t) BY <1>2 DEF Busy, NoOp
  <1>6. U.fil[t] = f BY <1>1, NowFields
  <1>7. PICK p : Fine(U, f, p) /\ Rest(f, p) BY <1>4, <1>5, <1>6 DEF FileOf
  <1>8. /\ f.name \in Names /\ IsList(f.text) /\ f.fsize \in Nat /\ f.fptr \in Nat /\ f.fsize <= Len(f.text)
        /\ Len(f.text) <= f.fsize \/ Len(f.text) <= f.fptr
    BY <1>7 DEF Fine
  <1>9. Len(f.text) \in Nat BY <1>8, ListLength
  <1>10. ~ f.err => f.fptr <= f.fsize BY <1>7 DEF Rest
  <1>11. FileOK(f)
    <2>1. Sane(Plain(U)) /\ Plain(U).fil = U.fil BY <1>3, PlainFields DEF Sound
    <2> QED BY <1>6, <2>1 DEF Sane, Shape
  <1> QED BY <1>1, <1>7, <1>8, <1>9, <1>10, <1>11 DEF FileOK

LEMMA LseekData == ASSUME FatIInv, DataInv, NEW t \in Tasks, NEW gap \in Gaps, f_lseek(t, gap) PROVE DataInv'
  <1>1. PICK f : f = fil[t] OBVIOUS
  <1>2. PICK ofs : ofs = f.fsize + gap OBVIOUS
  <1>3. PICK here : here = ((f.fptr - 1) \div Units) * Units OBVIOUS
  <1>4. PICK r : r = IF f.sclust # 0 THEN [clst |-> f.sclust, steps |-> << >>] ELSE CreateChain(0) OBVIOUS
  <1>5. /\ f.name # None /\ ~ f.err /\ ofs # f.fptr
        /\ IF f.fptr > 0 /\ (ofs - 1) \div Units >= (f.fptr - 1) \div Units
           THEN Enter(t, "seek", ofs - here, <<FilStep(t, [f EXCEPT !.fptr = here])>>)
           ELSE Enter(t, "seek", IF r.clst = 0 THEN 0 ELSE ofs,
                      r.steps \o <<FilStep(t, [f EXCEPT !.fptr = 0, !.sclust = r.clst, !.clust = r.clst])>>)
        /\ UNCHANGED <<fil, saved>>
    BY <1>1, <1>2, <1>3, <1>4 DEF f_lseek
  <1>6. op = NoOp /\ UNCHANGED <<disk, fat, dir, renameCut>> BY <1>5 DEF Enter, window
  <1>7. Now' = Now BY <1>5, <1>6 DEF Now
  <1>8. gap \in Nat /\ Units \in Nat \ {0} BY FatAssumption
  <1>9. ASSUME ~ renameCut
        PROVE  /\ \E p : Fine(Now, f, p) /\ Rest(f, p)
               /\ f.name \in Names /\ IsList(f.text) /\ Len(f.text) \in Nat /\ f.fsize \in Nat /\ f.fptr \in Nat
               /\ f.fsize <= Len(f.text) /\ f.fptr <= f.fsize /\ Len(f.text) <= f.fsize
               /\ DOMAIN f = DOMAIN Closed /\ f.sclust \in Starts /\ f.clust \in Starts
    <2>1. op = NoOp /\ f.name # None /\ ~ f.err BY <1>5, <1>6
    <2>2. /\ \E p : Fine(Now, f, p) /\ Rest(f, p)
          /\ f.name \in Names /\ IsList(f.text) /\ Len(f.text) \in Nat /\ f.fsize \in Nat /\ f.fptr \in Nat
          /\ f.fsize <= Len(f.text) /\ (~ f.err => f.fptr <= f.fsize /\ Len(f.text) <= f.fsize)
          /\ DOMAIN f = DOMAIN Closed /\ f.sclust \in Starts /\ f.clust \in Starts
      BY <1>1, <1>9, <2>1, IdleFile
    <2> QED BY <2>1, <2>2
  <1>10. CASE f.fptr > 0 /\ (ofs - 1) \div Units >= (f.fptr - 1) \div Units
    <2>1. PICK g : g = [f EXCEPT !.fptr = here] OBVIOUS
    <2>2. PICK steps : steps = <<FilStep(t, g)>> OBVIOUS
    <2>3. PICK left : left = ofs - here OBVIOUS
    <2>4. PICK o : o = [task |-> t, kind |-> "seek", left |-> left] OBVIOUS
    <2>5. Enter(t, "seek", left, steps) BY <1>5, <1>10, <2>1, <2>2, <2>3
    <2>6. Settled(steps) BY <2>2, SettledOne, SettledSteps
    <2>7. ASSUME NEW V, V = Now', Sound(V, o), ~ renameCut PROVE Follows(steps, V, o)
      <3>1. PICK p : Fine(V, f, p) /\ Rest(f, p) BY <1>7, <1>9, <2>7
      <3>2. /\ f.name \in Names /\ f.fsize \in Nat /\ f.fptr \in Nat \ {0} /\ f.fptr <= f.fsize /\ Len(f.text) <= f.fsize
            /\ Len(f.text) \in Nat /\ DOMAIN f = DOMAIN Closed /\ f.clust \in Starts
        BY <1>9, <1>10, <2>7
      <3>3. PICK k : k = (f.fptr - 1) \div Units OBVIOUS
      <3>4. k \in Nat /\ At(f.fptr) = k + 1 /\ here = Units * k /\ here < f.fptr /\ here \in Nat
        <4>1. f.fptr - 1 \in Nat BY <3>2
        <4>2. k \in Nat /\ ((f.fptr - 1) % Units) \in 0 .. Units - 1 /\ f.fptr - 1 = Units * k + ((f.fptr - 1) % Units)
          BY <3>3, <4>1, Division
        <4>3. Units * k \in Nat /\ here = Units * k
          <5>1. here = k * Units BY <1>3, <3>3
          <5>2. k * Units = Units * k /\ Units * k \in Nat BY <1>8, <4>2
          <5> QED BY <5>1, <5>2
        <4>4. here < f.fptr
          <5>1. PICK m : m = ((f.fptr - 1) % Units) OBVIOUS
          <5>2. m \in Nat /\ f.fptr - 1 = Units * k + m BY <1>8, <4>2, <5>1
          <5> QED BY <3>2, <4>3, <5>2
        <4> QED BY <3>3, <4>2, <4>3, <4>4 DEF At
      <3>5. (here % Units) = 0 /\ here \div Units = k
        <4>1. 0 \in 0 .. Units - 1 /\ here = Units * k + 0 BY <1>8, <3>4
        <4>2. (Units * k + 0) \div Units = k /\ ((Units * k + 0) % Units) = 0 BY <3>4, <4>1, Quotient
        <4> QED BY <4>1, <4>2
      <3>6. g.name = f.name /\ g.err = f.err /\ g.fsize = f.fsize /\ g.text = f.text /\ g.dsect = f.dsect /\ g.buf = f.buf
            /\ g.sclust = f.sclust /\ g.clust = f.clust /\ g.fptr = here /\ DOMAIN g = DOMAIN Closed
        BY <2>1, <3>2 DEF Closed
      <3>7. g.dirty = f.dirty BY ONLY <2>1
      <3>8. Moved(g, f) BY <3>2, <3>6, <3>7 DEF Moved
      <3>9. Fine(V, g, p) BY <3>1, <3>2, <3>4, <3>6, <3>8, FineMoved
      <3>10. Walk(V.fat, f.sclust, p) /\ Placed(f, p) BY <1>5, <3>1 DEF Fine, Rest
      <3>11. Len(p) \in Nat BY <3>10, WalkLength
      <3>12. f.fptr <= Units * Len(p) /\ f.clust = p[k + 1] BY <1>8, <3>2, <3>4, <3>10 DEF Placed
      <3>13. left \in Nat /\ left # 0
        <4>1. ofs \in Nat /\ ofs >= f.fsize BY <1>2, <1>8, <3>2
        <4>2. here \in Nat /\ here < f.fptr /\ f.fptr \in Nat /\ f.fptr <= f.fsize /\ f.fsize \in Nat BY <3>2, <3>4
        <4>3. here < ofs BY <4>1, <4>2
        <4>4. left = ofs - here BY <2>3
        <4> QED BY <4>1, <4>2, <4>3, <4>4
      <3>14. Seeking(g, p, left)
        <4>1. here < Units * Len(p)
          <5>1. Units * Len(p) \in Nat BY <1>8, <3>11
          <5> QED BY <3>2, <3>4, <3>12, <5>1
        <4> QED BY <1>5, <3>2, <3>5, <3>6, <3>12, <3>13, <4>1 DEF Seeking
      <3>15. f = V.fil[t] BY <1>1, <1>7, <2>7, NowFields
      <3>16. Fits(Plain(V), g)
        <4>1. PICK v : v = Plain(V) OBVIOUS
        <4>2. Sane(v) /\ v.fil[t] = f BY <2>7, <3>15, <4>1, PlainFields DEF Sound
        <4>3. Fits(v, f) BY <4>2, FileFits
        <4>4. Alike(g, f) BY <3>2, <3>6 DEF Alike
        <4>5. f.sclust # 0 BY <3>2, <4>3 DEF Fits, FileOK
        <4>6. Fits(v, g) BY <3>2, <3>6, <4>3, <4>4, <4>5, AlikeFits
        <4> QED BY <4>1, <4>6
      <3>17. o.kind = "seek" /\ o.left = left /\ o.task = t BY <2>4
      <3>18. Busy(o, t) BY <3>17 DEF Busy
      <3>19. PICK W : /\ Leads(<<FilStep(t, g)>>, V, W, o) /\ Sound(W, o) /\ W.fil[t] = g /\ Fine(W, g, p) /\ Around(V, W)
        BY <2>7, <3>6, <3>9, <3>15, <3>16, <3>18, FilEnd
      <3>20. Ends(o, W) BY <3>13, <3>14, <3>17, <3>19 DEF Ends
      <3> QED BY <2>2, <3>19, <3>20 DEF Follows
    <2> QED BY <1>5, <2>4, <2>5, <2>6, <2>7, EnterData
  <1>11. CASE ~ (f.fptr > 0 /\ (ofs - 1) \div Units >= (f.fptr - 1) \div Units)
    <2>1. PICK g : g = [f EXCEPT !.fptr = 0, !.sclust = r.clst, !.clust = r.clst] OBVIOUS
    <2>2. PICK steps : steps = r.steps \o <<FilStep(t, g)>> OBVIOUS
    <2>3. PICK left : left = IF r.clst = 0 THEN 0 ELSE ofs OBVIOUS
    <2>4. PICK o : o = [task |-> t, kind |-> "seek", left |-> left] OBVIOUS
    <2>5. Enter(t, "seek", left, steps) BY <1>5, <1>11, <2>1, <2>2, <2>3
    <2>6. o.kind = "seek" /\ o.left = left /\ o.task = t BY <2>4
    <2>7. Busy(o, t) BY <2>6 DEF Busy
    <2>8. \/ r.clst = f.sclust /\ r.steps = << >> /\ f.sclust # 0
          \/ r = CreateChain(0) /\ f.sclust = 0
      BY <1>4
    <2>9. ~ renameCut => Settled(steps)
      <3>1. ASSUME ~ renameCut PROVE Settled(r.steps)
        <4>1. CASE r.steps = << >> BY <4>1, SettledNone
        <4>2. CASE r = CreateChain(0)
          <5>1. fat \in [Clusters -> 0 .. EndOfChain]
            <6>1. Sane(Plain(Now)) BY <1>6, <3>1, CallSound DEF Sound
            <6>2. Plain(Now).fat = fat BY NowFields DEF Plain
            <6> QED BY <6>1, <6>2 DEF Sane, Shape
          <5>2. PICK c : c = 0 OBVIOUS
          <5>3. c \in Starts /\ r = CreateChain(c) BY <4>2, <5>2 DEF Starts
          <5> QED BY <5>1, <5>3, SettledCreate
        <4> QED BY <2>8, <4>1, <4>2
      <3>2. Settled(<<FilStep(t, g)>>) BY SettledOne, SettledSteps
      <3> QED BY <2>2, <3>1, <3>2, SettledJoin
    <2>10. ASSUME NEW V, V = Now', Sound(V, o), ~ renameCut PROVE Follows(steps, V, o)
      <3>1. PICK p : Fine(V, f, p) BY <1>7, <1>9, <2>10
      <3>2. /\ f.name \in Names /\ f.fsize \in Nat /\ f.fptr \in Nat /\ f.fptr <= f.fsize /\ Len(f.text) <= f.fsize
            /\ Len(f.text) \in Nat /\ DOMAIN f = DOMAIN Closed /\ f.clust \in Starts
        BY <1>9, <2>10
      <3>3. /\ g.name = f.name /\ g.err = f.err /\ g.fsize = f.fsize /\ g.text = f.text /\ g.dsect = f.dsect /\ g.buf = f.buf
            /\ g.sclust = r.clst /\ g.clust = r.clst /\ g.fptr = 0 /\ DOMAIN g = DOMAIN Closed
        BY <2>1, <3>2 DEF Closed
      <3>4. g.dirty = f.dirty BY ONLY <2>1
      <3>5. Moved(g, f) BY <3>2, <3>3, <3>4 DEF Moved
      <3>6. Has(V, t, f) /\ V = Now BY <1>1, <1>7, <2>10, NowFields DEF Has
      <3>7. /\ r.clst \in {0} \cup Clusters /\ (r.clst = 0 => g.sclust = f.sclust)
            /\ \E W : /\ Leads(r.steps, V, W, o) /\ Sound(W, o) /\ Beyond(V, W)
                      /\ Has(W, t, f) /\ Fits(Plain(W), g)
                      /\ \E q : Fine(W, g, q) /\ (r.clst # 0 => Len(q) # 0 /\ q[1] = r.clst)
        BY <2>8, <2>10, <3>1, <3>2, <3>3, <3>5, <3>6, BeginLeads
      <3>8. PICK A : /\ Leads(r.steps, V, A, o) /\ Sound(A, o) /\ Has(A, t, f) /\ Fits(Plain(A), g)
                     /\ \E q : Fine(A, g, q) /\ (r.clst # 0 => Len(q) # 0 /\ q[1] = r.clst)
        BY <3>7
      <3>9. PICK q : Fine(A, g, q) /\ (r.clst # 0 => Len(q) # 0 /\ q[1] = r.clst) BY <3>8
      <3>10. A.fil[t].name = g.name BY <3>3, <3>8 DEF Has
      <3>11. PICK W : /\ Leads(<<FilStep(t, g)>>, A, W, o) /\ Sound(W, o) /\ W.fil[t] = g /\ Fine(W, g, q) /\ Around(A, W)
        BY <2>7, <3>8, <3>9, <3>10, FilEnd
      <3>12. Leads(steps, V, W, o) BY <2>2, <3>8, <3>11, LeadsJoin
      <3>13. left \in Nat BY <1>2, <1>8, <2>3, <3>2
      <3>14. Seeking(g, q, left)
        <4>1. 0 \div Units = 0 /\ (0 % Units) = 0 BY <1>8, SMTT(30)
        <4>2. left # 0 => 0 < Units * Len(q) /\ q[0 + 1] = r.clst
          <5>1. Walk(A.fat, g.sclust, q) BY <3>9 DEF Fine
          <5>2. Len(q) \in Nat BY <5>1, WalkLength
          <5>3. ASSUME left # 0 PROVE 0 < Units * Len(q) /\ q[0 + 1] = r.clst
            <6>1. Len(q) \in Nat \ {0} /\ q[1] = r.clst BY <2>3, <3>9, <5>2, <5>3
            <6> QED BY <1>8, <6>1
          <5> QED BY <5>3
        <4> QED BY <1>5, <3>2, <3>3, <4>1, <4>2 DEF Seeking
      <3>15. Ends(o, W) BY <2>6, <3>11, <3>13, <3>14 DEF Ends
      <3> QED BY <3>12, <3>15 DEF Follows
    <2> QED BY <1>5, <2>4, <2>5, <2>9, <2>10, EnterData
  <1> QED BY <1>10, <1>11

-----------------------------------------------------------------------------
(* The turns of a loop.                                                    *)

LEMMA TurnSound ==
  ASSUME FatIInv, DataInv, ~ renameCut, todo = << >>, op.kind \in {"write", "seek"},
         NEW o, o.task = op.task, o.kind \in {"write", "seek", "last"}
  PROVE  Sound(Now, o) /\ Ends(op, Now)
  <1>1. PICK V : V = Now OBVIOUS
  <1>2. PICK old : old = op OBVIOUS
  <1>3. Safe(V, old, FALSE) /\ Ends(old, V) BY <1>1, <1>2, BetweenSafe
  <1>4. \A t \in Tasks : Busy(old, t) => Busy(o, t) BY <1>2 DEF Busy
  <1>5. Safe(V, o, FALSE) BY <1>3, <1>4, Reop
  <1>6. Sane(view) BY ViewSane
  <1>7. Plain(V) = view BY <1>1, NowFields DEF Plain, view
  <1> QED BY <1>1, <1>2, <1>3, <1>5, <1>6, <1>7 DEF Sound

\* The volume stays, and the steps of the turn end where the next one can begin.
LEMMA TurnData ==
  ASSUME FatIInv, DataInv, todo = << >>, op.kind \in {"write", "seek"},
         UNCHANGED <<disk, fat, dir, fil, saved, renameCut>>,
         NEW o, op' = o, o.task = op.task, o.kind \in {"write", "seek", "last"},
         NEW list, todo' = list, ~ renameCut => Settled(list),
         \A V : V = Now /\ Sound(V, o) /\ ~ renameCut => Follows(list, V, o)
  PROVE  DataInv'
  <1>1. ASSUME ~ renameCut' PROVE SavedAfter(todo', wflag') /\ \E V : V = Now' /\ Follows(todo', V, op')
    <2>1. ~ renameCut BY <1>1
    <2>2. PICK V : V = Now OBVIOUS
    <2>3. Sound(V, o) BY <2>1, <2>2, TurnSound
    <2>4. Follows(list, V, o) BY <2>1, <2>2, <2>3
    <2>5. V = Now' BY <2>2 DEF Now
    <2>6. PICK flag : flag = wflag' OBVIOUS
    <2>7. SavedAfter(list, flag) BY <2>1, SettledAny
    <2> QED BY <2>4, <2>5, <2>6, <2>7
  <1>2. UNCHANGED <<disk, fat, dir>> /\ (~ renameCut' => ~ renameCut) /\ \A n \in Names : saved'[n] \in {None, saved[n]}
    OBVIOUS
  <1> QED BY <1>1, <1>2, CallData

LEMMA AbortData ==
  ASSUME FatIInv, DataInv, NEW t, op.task = t, op.kind \in {"write", "seek"}, todo = << >>, Abort(t),
         UNCHANGED <<disk, fat, dir, saved, renameCut>>
  PROVE  DataInv'
  <1>1. fil' = [fil EXCEPT ![t].err = TRUE] /\ op' = [op EXCEPT !.kind = "end"] /\ todo' = << >> BY DEF Abort
  <1>2. ASSUME ~ renameCut' PROVE SavedAfter(todo', wflag') /\ \E V : V = Now' /\ Follows(todo', V, op')
    <2>1. ~ renameCut BY <1>2
    <2>2. PICK U : U = Now OBVIOUS
    <2>3. PICK old : old = op OBVIOUS
    <2>4. old.task = t /\ old.kind \in {"write", "seek"} BY <2>3
    <2>5. Sound(U, old)
      <3>1. op.kind \in {"write", "seek", "last"} OBVIOUS
      <3> QED BY <2>1, <2>2, <2>3, <3>1, TurnSound
    <2>6. Safe(U, old, FALSE) BY <2>5 DEF Sound
    <2>7. PICK V : V = Now' OBVIOUS
    <2>8. PICK new : new = op' OBVIOUS
    <2>9. new.kind = "end"
      <3>1. DOMAIN op = {"task", "kind", "left"} BY DEF FatIInv
      <3> QED BY <1>1, <2>8, <3>1
    <2>10. \A u \in Tasks : DOMAIN U.fil[u] = DOMAIN Closed
      <3>1. Sane(Plain(U)) /\ Plain(U).fil = U.fil BY <2>5, PlainFields DEF Sound
      <3> QED BY <3>1 DEF Sane, Shape, FileOK
    <2>11. V = [fat |-> U.fat, dir |-> U.dir, data |-> U.data, saved |-> U.saved,
                fil |-> IF old.kind \in {"write", "seek", "last"} THEN [U.fil EXCEPT ![old.task].err = TRUE] ELSE U.fil]
      BY <1>1, <2>2, <2>4, <2>7 DEF Now
    <2>12. Safe(V, new, FALSE)
      <3>1. \A u \in Tasks : Busy(old, u) => DOMAIN U.fil[u] = DOMAIN Closed BY <2>10
      <3> QED BY <2>6, <2>9, <2>11, <3>1, GiveUp
    <2>13. Ends(new, V) BY <2>9, EndsElse
    <2>14. Follows(<< >>, V, new) BY <2>12, <2>13, FollowsNone
    <2>15. PICK flag : flag = wflag' OBVIOUS
    <2>16. SavedAfter(<< >>, flag) BY SavedNone
    <2> QED BY <1>1, <2>7, <2>8, <2>14, <2>15, <2>16
  <1>3. UNCHANGED <<disk, fat, dir>> /\ (~ renameCut' => ~ renameCut) /\ \A n \in Names : saved'[n] \in {None, saved[n]}
    OBVIOUS
  <1> QED BY <1>2, <1>3, CallData

-----------------------------------------------------------------------------
(* f_lseek() goes on.                                                      *)

\* A sector of the file is read into its buffer.
LEMMA BufferFine ==
  ASSUME NEW V, Formed(V), NEW f, NEW p, Fine(V, f, p), ~ f.dirty, NEW k \in 1 .. Len(p), NEW c, c = p[k],
         NEW g, g.name = f.name, g.sclust = f.sclust, g.fptr = f.fptr, g.fsize = f.fsize, g.text = f.text,
         ~ g.dirty, g.dsect = c, g.buf = V.data[c]
  PROVE  Fine(V, g, p)
  <1>1. Walk(V.fat, f.sclust, p) BY DEF Fine
  <1>2. c \in Clusters BY <1>1, WalkLength
  <1>3. Sectors(V.data, g) = V.data /\ Sectors(V.data, f) = V.data BY DEF Sectors
  <1>4. DOMAIN g.buf = 1 .. Units BY <1>2 DEF Formed
  <1> QED BY <1>3, <1>4 DEF Fine

\* The file is made longer; what lies between is unknown.
LEMMA ExtendFine ==
  ASSUME NEW V, NEW f, NEW p, Fine(V, f, p), StoreOf(V, f.name), Len(f.text) <= f.fsize,
         NEW end \in Nat, end > f.fsize, end <= Units * Len(p),
         NEW g, g.name = f.name, g.sclust = f.sclust, g.fptr = f.fptr, g.fsize = end,
         g.dsect = f.dsect, g.buf = f.buf, g.dirty = f.dirty,
         NEW text, text = f.text, g.text = [i \in 1 .. end |-> IF i <= Len(text) THEN text[i] ELSE Unknown]
  PROVE  Fine(V, g, p)
  <1>1. f.fsize \in Nat /\ IsList(text) /\ Len(text) <= f.fsize /\ f.fsize <= Len(text) BY DEF Fine
  <1>2. Len(text) \in Nat BY <1>1, ListLength
  <1>3. IsList(g.text) /\ Len(g.text) = end
    <2>1. g.text = [i \in 1 .. end |-> g.text[i]] OBVIOUS
    <2> QED BY <2>1, FunctionList
  <1>4. \A i \in 1 .. end : g.text[i] = IF i <= Len(text) THEN text[i] ELSE Unknown OBVIOUS
  <1>5. Sectors(V.data, g) = Sectors(V.data, f) BY DEF Sectors
  <1>6. Match(g.text, p, Sectors(V.data, g))
    <2>1. PICK data : data = Sectors(V.data, f) OBVIOUS
    <2>2. \A i \in 1 .. Len(text) : text[i] \in {Unknown, data[p[At(i)]][In(i)]} BY <2>1 DEF Fine, Match
    <2>3. ASSUME NEW i \in 1 .. end PROVE g.text[i] \in {Unknown, data[p[At(i)]][In(i)]}
      <3>1. CASE i <= Len(text)
        <4>1. i \in 1 .. Len(text) BY <1>2, <3>1
        <4> QED BY <1>4, <2>2, <3>1, <4>1
      <3>2. CASE ~ (i <= Len(text)) BY <1>4, <3>2
      <3> QED BY <3>1, <3>2
    <2> QED BY <1>3, <1>5, <2>1, <2>3 DEF Match
  <1>7. V.dir[f.name].size <= end /\ \A i \in 1 .. Len(V.saved[f.name]) : V.saved[f.name] # None => V.saved[f.name][i] \in {Unknown, g.text[i]}
    <2>1. f.name \in Names /\ V.dir[f.name] # None /\ V.dir[f.name].size <= f.fsize BY DEF Fine
    <2>2. V.dir[f.name].size \in Nat BY <2>1 DEF StoreOf
    <2>3. ASSUME V.saved[f.name] # None, NEW i \in 1 .. Len(V.saved[f.name]) PROVE V.saved[f.name][i] \in {Unknown, g.text[i]}
      <3>1. IsList(V.saved[f.name]) /\ Len(V.saved[f.name]) <= V.dir[f.name].size BY <2>3 DEF StoreOf
      <3>2. Len(V.saved[f.name]) \in Nat BY <3>1, ListLength
      <3>3. i \in Nat /\ i <= Len(text) /\ i \in 1 .. end BY <1>1, <1>2, <2>1, <2>2, <3>1, <3>2
      <3>4. V.saved[f.name][i] \in {Unknown, f.text[i]} BY <2>3 DEF Fine
      <3> QED BY <1>4, <3>3, <3>4
    <2> QED BY <1>1, <2>1, <2>2, <2>3
  <1>8. /\ Walk(V.fat, g.sclust, p) /\ g.fptr \in Nat /\ (g.dsect # 0 => \E i \in 1 .. Len(p) : p[i] = g.dsect)
        /\ (g.dirty => g.dsect # 0) /\ (~ g.dirty /\ g.dsect # 0 => g.buf = V.data[g.dsect]) /\ DOMAIN g.buf = 1 .. Units
        /\ g.name \in Names /\ V.dir[g.name] # None /\ V.dir[g.name].clust \in {0, g.sclust}
    BY DEF Fine
  <1>9. g.fsize \in Nat /\ g.fsize <= Len(g.text) /\ Len(g.text) <= Units * Len(p) /\ Len(g.text) <= g.fsize BY <1>3
  <1>10. V.dir[g.name].size <= g.fsize
         /\ (V.saved[g.name] # None => \A i \in 1 .. Len(V.saved[g.name]) : V.saved[g.name][i] \in {Unknown, g.text[i]})
    BY <1>7
  <1> QED BY ONLY <1>3, <1>6, <1>8, <1>9, <1>10 DEF Fine

\* The last turn: the pointer is set, the sector there is loaded and the file made longer.
SeekEnd(t, f, left, data, g1, g2, g3, list) ==
    LET end == f.fptr + left
        nsect == IF left % Units = 0 THEN 0 ELSE f.clust
        load == end % Units # 0 /\ nsect # f.dsect
    IN  /\ g1 = [f EXCEPT !.fptr = end]
        /\ g2 = IF load THEN [g1 EXCEPT !.dirty = FALSE, !.dsect = nsect, !.buf = data[nsect]] ELSE g1
        /\ g3 = IF end <= f.fsize THEN g2
                ELSE [g2 EXCEPT !.fsize = end, !.written = TRUE,
                                !.text = [i \in 1 .. end |-> IF i <= Len(@) THEN @[i] ELSE Unknown]]
        /\ list = IF load THEN FlushBuffer(t, g1) ELSE << >>

\* Where the pointer then is.
LEMMA SeekPlace ==
  ASSUME NEW f, NEW p, Len(p) \in Nat, f.fptr \in Nat, NEW left \in Nat, left <= Units, Seeking(f, p, left), NEW end, end = f.fptr + left
  PROVE  /\ end \in Nat /\ end <= Units * Len(p) /\ (end % Units) \in Nat
         /\ left = 0 => end = 0 /\ end = f.fptr
         /\ left # 0 => \E k \in 1 .. Len(p) : f.clust = p[k] /\ end > 0 /\ At(end) = k
         /\ (end % Units) = (left % Units)
  <1>1. Units \in Nat \ {0} BY FatAssumption
  <1>2. end \in Nat OBVIOUS
  <1>3. (end % Units) \in Nat
    <2>1. PICK m : m = (end % Units) OBVIOUS
    <2>2. m \in 0 .. Units - 1 BY <1>2, <2>1, Division
    <2> QED BY <1>1, <2>1, <2>2
  <1>4. Units * Len(p) \in Nat BY <1>1
  <1>5. CASE left = 0
    <2>1. f.fptr = 0 /\ end = 0 BY <1>5 DEF Seeking
    <2> QED BY <1>1, <1>3, <1>4, <1>5, <2>1
  <1>6. CASE left # 0
    <2>1. (f.fptr % Units) = 0 /\ f.fptr < Units * Len(p) /\ f.clust = p[f.fptr \div Units + 1] BY <1>6 DEF Seeking
    <2>2. PICK m : m = f.fptr \div Units OBVIOUS
    <2>3. m \in Nat /\ f.fptr = Units * m BY <2>1, <2>2, Boundary
    <2>4. end \in Nat \ {0} /\ end = Units * m + left BY <1>6, <2>3
    <2>5. /\ At(end) \in Nat \ {0} /\ In(end) \in 1 .. Units /\ end = Units * (At(end) - 1) + In(end)
          /\ \A n \in Nat : end <= Units * n => At(end) <= n
          /\ \A n \in Nat : end > Units * n => At(end) > n
      BY <2>4, Place
    <2>6. Units * (m + 1) = Units * m + Units /\ Units * m \in Nat BY <1>1, <2>3
    <2>7. end > Units * m /\ end <= Units * (m + 1) /\ m + 1 \in Nat BY <1>1, <1>6, <2>3, <2>4, <2>6
    <2>8. At(end) = m + 1
      <3>1. At(end) <= m + 1 /\ At(end) > m BY <2>3, <2>5, <2>7
      <3> QED BY <2>3, <2>5, <3>1
    <2>9. m + 1 <= Len(p)
      <3>1. f.fptr + 1 \in Nat \ {0} /\ f.fptr + 1 <= Units * Len(p) BY <1>4, <2>1
      <3>2. At(f.fptr + 1) <= Len(p) /\ At(f.fptr + 1) > m
        <4>1. \A n \in Nat : f.fptr + 1 <= Units * n => At(f.fptr + 1) <= n BY <3>1, Place
        <4>2. \A n \in Nat : f.fptr + 1 > Units * n => At(f.fptr + 1) > n BY <3>1, Place
        <4>3. f.fptr + 1 > Units * m BY <2>3, <2>6
        <4> QED BY <2>3, <3>1, <4>1, <4>2, <4>3
      <3>3. At(f.fptr + 1) \in Nat BY <3>1, Place
      <3> QED BY <2>3, <3>2, <3>3
    <2>10. end <= Units * Len(p)
      <3>1. PICK d : d = Len(p) - (m + 1) OBVIOUS
      <3>2. d \in Nat /\ Len(p) = (m + 1) + d BY <2>3, <2>9, <3>1
      <3>3. Units * Len(p) = Units * (m + 1) + Units * d /\ Units * d \in Nat /\ Units * (m + 1) \in Nat BY <1>1, <2>3, <3>2
      <3> QED BY <2>4, <2>7, <3>3
    <2>11. (end % Units) = (left % Units)
      <3>1. CASE left = Units
        <4>1. 0 \in 0 .. Units - 1 /\ end = Units * (m + 1) + 0 BY <1>1, <2>4, <2>6, <3>1
        <4>2. (end % Units) = 0 BY <2>3, <4>1, Quotient
        <4>3. 1 \in Nat /\ left = Units * 1 + 0 BY <1>1, <3>1
        <4>4. (left % Units) = 0 BY <4>1, <4>3, Quotient
        <4> QED BY <4>2, <4>4
      <3>2. CASE left # Units
        <4>1. left \in 0 .. Units - 1 BY <1>1, <3>2
        <4>2. (end % Units) = left BY <2>3, <2>4, <4>1, Quotient
        <4>3. 0 \in Nat /\ left = Units * 0 + left BY <1>1
        <4>4. (left % Units) = left BY <4>1, <4>3, Quotient
        <4> QED BY <4>2, <4>4
      <3> QED BY <3>1, <3>2
    <2>12. m + 1 \in 1 .. Len(p) /\ f.clust = p[m + 1] BY <2>1, <2>2, <2>3, <2>9
    <2> QED BY <1>3, <1>6, <2>4, <2>8, <2>10, <2>11, <2>12
  <1> QED BY <1>5, <1>6

LEMMA SeekEndLeads ==
  ASSUME NEW V, NEW o, Sound(V, o), NEW t \in Tasks, Busy(o, t), NEW f, Has(V, t, f), f.name # None, NEW p, Fine(V, f, p),
         NEW left \in Nat, left <= Units, Seeking(f, p, left),
         NEW g1, NEW g2, NEW g3, NEW list, SeekEnd(t, f, left, V.data, g1, g2, g3, list)
  PROVE  \E W : /\ Leads(list \o <<FilStep(t, g3)>>, V, W, o) /\ Has(W, t, g3)
                /\ \E q : Fine(W, g3, q) /\ Rest(g3, q)
  <1>1. PICK end : end = f.fptr + left OBVIOUS
  <1>2. PICK nsect : nsect = IF left % Units = 0 THEN 0 ELSE f.clust OBVIOUS
  <1>3. /\ g1 = [f EXCEPT !.fptr = end]
        /\ g2 = IF end % Units # 0 /\ nsect # f.dsect
                THEN [g1 EXCEPT !.dirty = FALSE, !.dsect = nsect, !.buf = V.data[nsect]] ELSE g1
        /\ g3 = IF end <= f.fsize THEN g2
                ELSE [g2 EXCEPT !.fsize = end, !.written = TRUE,
                                !.text = [i \in 1 .. end |-> IF i <= Len(@) THEN @[i] ELSE Unknown]]
        /\ list = IF end % Units # 0 /\ nsect # f.dsect THEN FlushBuffer(t, g1) ELSE << >>
    BY <1>1, <1>2 DEF SeekEnd
  <1>4. /\ Walk(V.fat, f.sclust, p) /\ f.fptr \in Nat /\ f.fsize \in Nat /\ IsList(f.text)
        /\ f.name \in Names
    BY DEF Fine
  <1>5. Len(p) \in Nat /\ (Len(p) # 0 => p[1] = f.sclust /\ f.sclust \in Clusters) /\ \A i \in 1 .. Len(p) : p[i] \in Clusters
    BY <1>4, WalkLength
  <1>6. /\ end \in Nat /\ end <= Units * Len(p) /\ (end % Units) \in Nat
        /\ left = 0 => end = 0 /\ end = f.fptr
        /\ left # 0 => \E k \in 1 .. Len(p) : f.clust = p[k] /\ end > 0 /\ At(end) = k
        /\ (end % Units) = (left % Units)
    BY <1>1, <1>4, <1>5, SeekPlace
  <1>7. ~ f.err /\ Len(f.text) <= f.fsize BY DEF Seeking
  <1>8. Fits(Plain(V), f) /\ DOMAIN f = DOMAIN Closed /\ f.clust \in Starts
    <2>1. Sane(Plain(V)) /\ Plain(V).fil = V.fil BY PlainFields DEF Sound
    <2>2. Fits(Plain(V), f) BY <2>1, FileFits DEF Has
    <2> QED BY <2>2 DEF Fits, FileOK
  <1>9. /\ g1.name = f.name /\ g1.err = f.err /\ g1.fsize = f.fsize /\ g1.text = f.text /\ g1.dsect = f.dsect
        /\ g1.buf = f.buf /\ g1.sclust = f.sclust /\ g1.clust = f.clust /\ g1.fptr = end /\ DOMAIN g1 = DOMAIN Closed
    BY <1>3, <1>8 DEF Closed
  <1>10. g1.dirty = f.dirty
    <2>1. g1 = [f EXCEPT !.fptr = end] BY <1>3
    <2> QED BY ONLY <2>1
  <1>11. Fine(V, g1, p)
    <2>1. Moved(g1, f) BY <1>8, <1>9, <1>10 DEF Moved
    <2> QED BY <1>6, <1>7, <1>9, <2>1, FineMoved
  <1>12. f.sclust # 0 \/ end = 0
    <2>1. CASE left = 0 BY <1>6, <2>1
    <2>2. CASE left # 0
      <3>1. Len(p) # 0 BY <1>5, <1>6, <2>2
      <3> QED BY <1>5, <3>1, FatAssumption DEF Clusters
    <2> QED BY <2>1, <2>2
  <1>13. Fits(Plain(V), g1)
    <2>1. Alike(g1, f) BY <1>8, <1>9 DEF Alike
    <2> QED BY <1>8, <1>9, <1>12, <2>1, AlikeFits
  <1>14. Formed(V) BY DEF Sound, Safe
  <1>15. PICK A : /\ Leads(list, V, A, o) /\ Sound(A, o) /\ Fits(Plain(A), g2) /\ Fine(A, g2, p) /\ A.fil[t].name = f.name
                  /\ g2.name = f.name /\ g2.err = f.err /\ g2.fsize = f.fsize /\ g2.text = f.text /\ g2.sclust = f.sclust
                  /\ g2.clust = f.clust /\ g2.fptr = end /\ DOMAIN g2 = DOMAIN Closed
                  /\ (end % Units) # 0 => g2.dsect = f.clust
    <2>1. CASE (end % Units) # 0 /\ nsect # f.dsect
      <3>1. PICK c : c = nsect OBVIOUS
      <3>2. left # 0 /\ c = f.clust
        <4>1. (left % Units) # 0 BY <1>6, <2>1
        <4>2. left # 0
          <5>1. ASSUME left = 0 PROVE FALSE
            <6>1. 0 \in Nat /\ 0 \in 0 .. Units - 1 /\ left = Units * 0 + 0 BY <5>1, FatAssumption
            <6>2. (left % Units) = 0 BY <6>1, Quotient
            <6> QED BY <4>1, <6>2
          <5> QED BY <5>1
        <4> QED BY <1>2, <3>1, <4>1, <4>2
      <3>3. PICK k : k \in 1 .. Len(p) /\ c = p[k] BY <1>6, <3>2
      <3>4. c \in Clusters /\ c # f.dsect BY <1>5, <2>1, <3>1, <3>3
      <3>5. list = FlushBuffer(t, g1) /\ g2 = [g1 EXCEPT !.dirty = FALSE, !.dsect = c, !.buf = V.data[c]] BY <1>3, <2>1, <3>1
      <3>6. PICK A : /\ Leads(FlushBuffer(t, g1), V, A, o) /\ Sound(A, o) /\ Flushed(V, A, g1)
                     /\ A.fil[t] \in {f, Clean(g1)} /\ Fits(Plain(A), Clean(g1)) /\ Fine(A, Clean(g1), p)
        BY <1>9, <1>10, <1>11, <1>13, FlushLeads
      <3>7. PICK e : e = Clean(g1) OBVIOUS
      <3>8. Twins(e, g1) /\ ~ e.dirty BY <1>9, <3>7, CleanTwins
      <3>9. /\ g2.name = g1.name /\ g2.err = g1.err /\ g2.fsize = g1.fsize /\ g2.text = g1.text /\ g2.sclust = g1.sclust
            /\ g2.clust = g1.clust /\ g2.fptr = g1.fptr /\ DOMAIN g2 = DOMAIN Closed
            /\ g2.dsect = c /\ g2.buf = V.data[c]
        BY <1>9, <3>5 DEF Closed
      <3>10. ~ g2.dirty
        <4>1. PICK x : x = V.data[c] OBVIOUS
        <4>2. g2 = [g1 EXCEPT !.dirty = FALSE, !.dsect = c, !.buf = x] /\ DOMAIN g1 = DOMAIN Closed BY <1>9, <3>5, <4>1
        <4>3. "dirty" \in DOMAIN g1 BY <4>2 DEF Closed
        <4> QED BY <4>2, <4>3
      <3>11. Formed(A) /\ A.data[c] = V.data[c]
        <4>1. Formed(A) /\ A.data = Sectors(V.data, g1) BY <3>6 DEF Flushed
        <4>2. DOMAIN V.data = Clusters BY <1>14 DEF Formed
        <4> QED BY <1>9, <3>4, <4>1, <4>2 DEF Sectors
      <3>12. Fine(A, g2, p)
        <4>1. Fine(A, e, p) BY <3>6, <3>7
        <4>2. /\ g2.name = e.name /\ g2.sclust = e.sclust /\ g2.fptr = e.fptr /\ g2.fsize = e.fsize /\ g2.text = e.text
              /\ g2.dsect = c /\ g2.buf = A.data[c]
          BY <3>8, <3>9, <3>11 DEF Twins
        <4> QED BY <3>3, <3>8, <3>10, <3>11, <4>1, <4>2, BufferFine
      <3>13. Fits(Plain(A), g2)
        <4>1. Fits(Plain(A), e) BY <3>6, <3>7
        <4>2. Alike(g2, e) /\ g2.clust \in Starts /\ g2.fptr = e.fptr BY <1>8, <1>9, <3>8, <3>9 DEF Alike, Twins
        <4> QED BY <4>1, <4>2, AlikeFits
      <3>14. A.fil[t].name = f.name
        <4>1. f.name = e.name BY <1>9, <3>8 DEF Twins
        <4> QED BY <3>6, <3>7, <4>1
      <3> QED BY <1>9, <3>2, <3>5, <3>6, <3>9, <3>12, <3>13, <3>14
    <2>2. CASE ~ ((end % Units) # 0 /\ nsect # f.dsect)
      <3>1. list = << >> /\ g2 = g1 BY <1>3, <2>2
      <3>2. Leads(<< >>, V, V, o) BY LeadsNone DEF Sound
      <3>3. (end % Units) # 0 => g2.dsect = f.clust BY <1>2, <1>6, <1>9, <2>2, <3>1
      <3> QED BY <1>9, <1>11, <1>13, <3>1, <3>2, <3>3 DEF Has
    <2> QED BY <2>1, <2>2
  <1>16. /\ Fine(A, g3, p) /\ g3.name = f.name /\ g3.err = f.err /\ g3.sclust = f.sclust /\ g3.clust = f.clust /\ g3.fptr = end
         /\ end <= g3.fsize /\ DOMAIN g3 = DOMAIN Closed /\ g3.dsect = g2.dsect
    <2>1. CASE end <= f.fsize BY <1>3, <1>15, <2>1
    <2>2. CASE ~ (end <= f.fsize)
      <3>1. PICK text : text = g2.text OBVIOUS
      <3>2. PICK new : new = [i \in 1 .. end |-> IF i <= Len(text) THEN text[i] ELSE Unknown] OBVIOUS
      <3>3. g3 = [g2 EXCEPT !.fsize = end, !.written = TRUE, !.text = new] BY <1>3, <2>2, <3>1, <3>2
      <3>4. /\ g3.name = g2.name /\ g3.err = g2.err /\ g3.fsize = end /\ g3.text = new /\ g3.sclust = g2.sclust
            /\ g3.clust = g2.clust /\ g3.fptr = g2.fptr /\ DOMAIN g3 = DOMAIN Closed /\ g3.dsect = g2.dsect /\ g3.buf = g2.buf
        BY <1>15, <3>3 DEF Closed
      <3>5. g3.dirty = g2.dirty BY ONLY <3>3
      <3>6. StoreOf(A, g2.name) BY <1>4, <1>15 DEF Sound, Safe
      <3>7. end > g2.fsize /\ Len(g2.text) <= g2.fsize BY <1>4, <1>6, <1>7, <1>15, <2>2
      <3>8. Fine(A, g3, p) BY <1>6, <1>15, <3>1, <3>2, <3>4, <3>5, <3>6, <3>7, ExtendFine
      <3> QED BY <1>6, <1>15, <3>4, <3>8
    <2> QED BY <2>1, <2>2
  <1>17. Fits(Plain(A), g3)
    <2>1. Alike(g3, g2) /\ g3.clust \in Starts /\ g3.fptr = g2.fptr BY <1>8, <1>15, <1>16 DEF Alike
    <2> QED BY <1>15, <2>1, AlikeFits
  <1>18. Rest(g3, p)
    <2>1. g3.fptr > 0 => g3.clust = p[At(g3.fptr)]
      <3>1. CASE left = 0 BY <1>6, <1>16, <3>1
      <3>2. CASE left # 0 BY <1>6, <1>16, <3>2
      <3> QED BY <3>1, <3>2
    <2>2. (g3.fptr % Units) # 0 => g3.dsect = g3.clust BY <1>15, <1>16
    <2> QED BY <1>6, <1>16, <2>1, <2>2 DEF Rest, Placed
  <1>19. PICK W : /\ Leads(<<FilStep(t, g3)>>, A, W, o) /\ Sound(W, o) /\ W.fil[t] = g3 /\ Fine(W, g3, p) /\ Around(A, W)
    BY <1>15, <1>16, <1>17, FilEnd
  <1>20. Leads(list \o <<FilStep(t, g3)>>, V, W, o) BY <1>15, <1>19, LeadsJoin
  <1> QED BY <1>18, <1>19, <1>20 DEF Has

\* A turn on which the file gets on by a cluster.
Skipped(g, f, c) == g = [f EXCEPT !.clust = c, !.fptr = @ + Units]

LEMMA SeekNext ==
  ASSUME NEW V, V = Now, NEW o, Sound(V, o), NEW t \in Tasks, Busy(o, t), NEW f, Has(V, t, f), NEW p, Fine(V, f, p),
         NEW left \in Nat, left > Units, Seeking(f, p, left), NEW r, r = CreateChain(f.clust),
         NEW g, Skipped(g, f, r.clst)
  PROVE  /\ r.clst \in {0, 1} \cup Clusters
         /\ \E W : Leads(r.steps, V, W, o) /\ Has(W, t, f) /\ Fine(W, f, p) /\ Seeking(f, p, Units)
         /\ r.clst \in Clusters =>
               \E W : Leads(r.steps \o <<FilStep(t, g)>>, V, W, o) /\ Has(W, t, g)
                      /\ \E q : Fine(W, g, q) /\ Seeking(g, q, left - Units)
  <1>1. Units \in Nat \ {0} BY FatAssumption
  <1>2. /\ ~ f.err /\ (f.fptr % Units) = 0 /\ Len(f.text) <= f.fsize
        /\ f.fptr < Units * Len(p) /\ f.clust = p[f.fptr \div Units + 1]
    <2>1. left # 0 BY <1>1
    <2> QED BY <2>1 DEF Seeking
  <1>3. Walk(V.fat, f.sclust, p) /\ f.fptr \in Nat /\ f.name \in Names BY DEF Fine
  <1>4. Len(p) \in Nat BY <1>3, WalkLength
  <1>5. PICK k : k = f.fptr \div Units OBVIOUS
  <1>6. k \in Nat /\ f.fptr = Units * k BY <1>2, <1>3, <1>5, Boundary
  <1>7. k + 1 \in 1 .. Len(p)
    <2>1. f.fptr + 1 \in Nat \ {0} /\ Units * Len(p) \in Nat BY <1>1, <1>3, <1>4
    <2>2. f.fptr + 1 <= Units * Len(p) /\ f.fptr + 1 > Units * k BY <1>2, <1>3, <1>6, <2>1
    <2>3. \A n \in Nat : f.fptr + 1 <= Units * n => At(f.fptr + 1) <= n BY <2>1, Place
    <2>4. \A n \in Nat : f.fptr + 1 > Units * n => At(f.fptr + 1) > n BY <2>1, Place
    <2>5. At(f.fptr + 1) <= Len(p) /\ At(f.fptr + 1) > k /\ At(f.fptr + 1) \in Nat BY <1>4, <1>6, <2>1, <2>2, <2>3, <2>4, Place
    <2> QED BY <1>4, <1>6, <2>5
  <1>8. f.clust = p[k + 1] BY <1>2, <1>5
  <1>9. PICK j : j = k + 1 OBVIOUS
  <1>10. /\ r.clst \in {0, 1} \cup Clusters /\ f.sclust \in Clusters
         /\ \E W : /\ Leads(r.steps, V, W, o) /\ Sound(W, o) /\ Beyond(V, W)
                   /\ Has(W, t, f) /\ Fits(Plain(W), f) /\ Fine(W, f, p)
                   /\ r.clst \in Clusters => \E q : Fine(W, f, q) /\ Reaches(q, p, j + 1, r.clst)
    <2>1. j \in 1 .. Len(p) /\ f.clust = p[j] BY <1>7, <1>8, <1>9
    <2> QED BY <2>1, NextLeads
  <1>11. PICK W : /\ Leads(r.steps, V, W, o) /\ Sound(W, o) /\ Has(W, t, f) /\ Fits(Plain(W), f) /\ Fine(W, f, p)
                  /\ r.clst \in Clusters => \E q : Fine(W, f, q) /\ Reaches(q, p, j + 1, r.clst)
    BY <1>10
  <1>12. Seeking(f, p, Units) BY <1>1, <1>2 DEF Seeking
  <1>13. ASSUME r.clst \in Clusters
         PROVE  \E X : Leads(r.steps \o <<FilStep(t, g)>>, V, X, o) /\ Has(X, t, g)
                       /\ \E q : Fine(X, g, q) /\ Seeking(g, q, left - Units)
    <2>1. PICK q : Fine(W, f, q) /\ Reaches(q, p, j + 1, r.clst) BY <1>11, <1>13
    <2>2. DOMAIN f = DOMAIN Closed BY <1>11 DEF Fits, FileOK
    <2>3. /\ g.name = f.name /\ g.err = f.err /\ g.fsize = f.fsize /\ g.text = f.text /\ g.dsect = f.dsect
          /\ g.buf = f.buf /\ g.sclust = f.sclust /\ g.clust = r.clst /\ g.fptr = f.fptr + Units /\ DOMAIN g = DOMAIN Closed
      BY <2>2 DEF Closed, Skipped
    <2>4. g.dirty = f.dirty
      <3>1. g = [f EXCEPT !.clust = r.clst, !.fptr = @ + Units] BY DEF Skipped
      <3> QED BY ONLY <3>1
    <2>5. Moved(g, f) BY <2>2, <2>3, <2>4 DEF Moved
    <2>6. Fine(W, g, q) BY <1>1, <1>2, <1>3, <2>1, <2>3, <2>5, FineMoved
    <2>7. Fits(Plain(W), g)
      <3>1. Alike(g, f) BY <2>2, <2>3 DEF Alike
      <3>2. g.clust \in Starts /\ f.sclust # 0
        <4>1. 0 \notin Clusters BY FatAssumption DEF Clusters
        <4> QED BY <1>10, <1>13, <2>3, <4>1 DEF Starts
      <3> QED BY <1>11, <3>1, <3>2, AlikeFits
    <2>8. W.fil[t].name = g.name BY <1>11, <2>3 DEF Has
    <2>9. PICK X : /\ Leads(<<FilStep(t, g)>>, W, X, o) /\ Sound(X, o) /\ X.fil[t] = g /\ Fine(X, g, q) /\ Around(W, X)
      BY <1>11, <2>6, <2>7, <2>8, FilEnd
    <2>10. Leads(r.steps \o <<FilStep(t, g)>>, V, X, o) BY <1>11, <2>9, LeadsJoin
    <2>11. Seeking(g, q, left - Units)
      <3>1. k + 2 \in 1 .. Len(q) /\ q[k + 2] = r.clst /\ j + 1 = k + 2
        <4>1. j + 1 = k + 2 BY <1>6, <1>9
        <4> QED BY <2>1, <4>1 DEF Reaches
      <3>2. Len(q) \in Nat
        <4>1. Walk(W.fat, f.sclust, q) BY <2>1 DEF Fine
        <4> QED BY <4>1, WalkLength
      <3>3. Units * (k + 1) = Units * k + Units /\ Units * k \in Nat BY <1>1, <1>6
      <3>4. g.fptr = Units * (k + 1) + 0 /\ k + 1 \in Nat BY <1>1, <1>6, <2>3, <3>3
      <3>5. 0 \in 0 .. Units - 1 BY <1>1
      <3>6. g.fptr \div Units = k + 1 /\ (g.fptr % Units) = 0 BY <3>4, <3>5, Quotient
      <3>7. g.fptr < Units * Len(q)
        <4>1. PICK d : d = Len(q) - (k + 1) OBVIOUS
        <4>2. d \in Nat \ {0} /\ Len(q) = (k + 1) + d BY <1>6, <3>1, <3>2, <4>1
        <4>3. Units * Len(q) = Units * (k + 1) + Units * d /\ Units * d \in Nat \ {0} /\ Units * (k + 1) \in Nat
          BY <1>1, <1>6, <4>2
        <4> QED BY <3>4, <4>3
      <3>8. g.clust = q[g.fptr \div Units + 1]
        <4>1. (k + 1) + 1 = k + 2 BY <1>6
        <4> QED BY <2>3, <3>1, <3>6, <4>1
      <3>9. left - Units # 0 BY <1>1
      <3> QED BY <1>2, <2>3, <3>6, <3>7, <3>8, <3>9 DEF Seeking
    <2> QED BY <2>9, <2>10, <2>11 DEF Has
  <1> QED BY <1>10, <1>11, <1>12, <1>13

LEMMA SeekOnData == ASSUME FatIInv, DataInv, NEW t \in Tasks, SeekOn(t) PROVE DataInv'
  <1> DEFINE f0 == fil[t]
             chain == CreateChain(f0.clust)
             end == f0.fptr + op.left
             f1 == [f0 EXCEPT !.fptr = end]
             nsect == IF op.left % Units = 0 THEN 0 ELSE f0.clust
             load == end % Units # 0 /\ nsect # f0.dsect
             f2 == IF load THEN [f1 EXCEPT !.dirty = FALSE, !.dsect = nsect, !.buf = disk.data[nsect]] ELSE f1
             f3 == IF end <= f0.fsize THEN f2
                   ELSE [f2 EXCEPT !.fsize = end, !.written = TRUE,
                                   !.text = [i \in 1 .. end |-> IF i <= Len(@) THEN @[i] ELSE Unknown]]
             flushed == IF load THEN FlushBuffer(t, f1) ELSE << >>
             next == [f0 EXCEPT !.clust = chain.clst, !.fptr = @ + Units]
  <1>1. PICK f : f = f0 OBVIOUS
  <1>2. PICK r : r = chain OBVIOUS
  <1>3. PICK g1 : g1 = f1 OBVIOUS
  <1>4. PICK g2 : g2 = f2 OBVIOUS
  <1>5. PICK g3 : g3 = f3 OBVIOUS
  <1>6. PICK list : list = flushed OBVIOUS
  <1>7. PICK g : g = next OBVIOUS
  <1>8. PICK left : left = op.left OBVIOUS
  <1>9. SeekEnd(t, f, left, disk.data, g1, g2, g3, list)
    BY <1>1, <1>3, <1>4, <1>5, <1>6, <1>8 DEF SeekEnd
  <1>10. /\ op.task = t /\ op.kind = "seek" /\ todo = << >>
         /\ UNCHANGED <<disk, fat, dir, wflag, saved, renameCut>>
         /\ \/ /\ left <= Units /\ UNCHANGED fil
               /\ todo' = list \o <<FilStep(t, g3)>> /\ op' = [op EXCEPT !.kind = "last"]
            \/ /\ ~ (left <= Units) /\ UNCHANGED fil
               /\ todo' = r.steps /\ op' = [op EXCEPT !.left = Units]
            \/ Abort(t)
            \/ /\ ~ (left <= Units) /\ r.clst # 0 /\ r.clst # 1 /\ UNCHANGED fil
               /\ todo' = r.steps \o <<FilStep(t, g)>> /\ op' = [op EXCEPT !.left = @ - Units]
    BY <1>2, <1>5, <1>6, <1>7, <1>8 DEF SeekOn, window
  <1>11. f = fil[t] /\ r = CreateChain(f.clust) /\ Skipped(g, f, r.clst)
    BY <1>1, <1>2, <1>7 DEF Skipped
  <1> HIDE DEF f0, chain, end, f1, nsect, load, f2, f3, flushed, next
  <1>12. DOMAIN op = {"task", "kind", "left"} BY DEF FatIInv
  <1>13. PICK new : new = op' OBVIOUS
  <1>14. Units \in Nat \ {0} BY FatAssumption
  <1>15. ASSUME NEW o, o.task = op.task, o.kind \in {"write", "seek", "last"}, NEW V, V = Now, ~ renameCut
         PROVE  /\ Sound(V, o) /\ Has(V, t, f) /\ Busy(o, t) /\ left \in Nat /\ V.data = disk.data
                /\ f.name # None /\ \E p : Fine(V, f, p) /\ Seeking(f, p, left)
    <2>1. op.kind \in {"write", "seek"} BY <1>10
    <2>2. Sound(Now, o) /\ Ends(op, Now) BY <1>10, <1>15, <2>1, TurnSound
    <2>3. Has(V, t, f) /\ V.data = disk.data BY <1>11, <1>15, NowFields DEF Has
    <2>4. left \in Nat /\ \E p : Fine(V, f, p) /\ Seeking(f, p, left)
      <3>1. op.left \in Nat /\ \E p : Fine(Now, Now.fil[op.task], p) /\ Seeking(Now.fil[op.task], p, op.left)
        BY <1>10, <2>2 DEF Ends
      <3>2. V.fil[t] = f BY <2>3 DEF Has
      <3> QED BY <1>8, <1>10, <1>15, <3>1, <3>2
    <2>5. f.name # None
      <3>1. f.name \in Names BY <2>4 DEF Fine
      <3> QED BY <3>1, FatAssumption
    <2>6. Busy(o, t) BY <1>10, <1>15 DEF Busy
    <2> QED BY <1>15, <2>2, <2>3, <2>4, <2>5, <2>6
  <1>16. ~ renameCut => Settled(r.steps)
    <2>1. ASSUME ~ renameCut PROVE fat \in [Clusters -> 0 .. EndOfChain] /\ f.clust \in Starts
      <3>1. op.kind # "rename" BY <1>10
      <3>2. Sane(view) BY <2>1, <3>1, ViewSane
      <3>3. view.fat = fat /\ view.fil[t] = f BY <1>11 DEF view
      <3> QED BY <3>2, <3>3 DEF Sane, Shape, FileOK
    <2> QED BY <1>11, <2>1, SettledCreate
  <1>17. CASE /\ left <= Units /\ UNCHANGED fil
              /\ todo' = list \o <<FilStep(t, g3)>> /\ op' = [op EXCEPT !.kind = "last"]
    <2>1. new.task = op.task /\ new.kind = "last" BY <1>12, <1>13, <1>17
    <2>2. PICK q : q = list \o <<FilStep(t, g3)>> OBVIOUS
    <2>3. Settled(q)
      <3>1. Settled(list)
        <4>1. list = FlushBuffer(t, g1) \/ list = << >> BY <1>9 DEF SeekEnd
        <4> QED BY <4>1, SettledBuffer, SettledNone
      <3>2. Settled(<<FilStep(t, g3)>>) BY SettledOne, SettledSteps
      <3> QED BY <2>2, <3>1, <3>2, SettledJoin
    <2>4. ASSUME NEW V, V = Now, ~ renameCut PROVE Follows(q, V, new)
      <3>1. PICK p : /\ Sound(V, new) /\ Has(V, t, f) /\ Busy(new, t) /\ left \in Nat /\ V.data = disk.data
                     /\ f.name # None /\ Fine(V, f, p) /\ Seeking(f, p, left)
        BY <1>15, <2>1, <2>4
      <3>2. SeekEnd(t, f, left, V.data, g1, g2, g3, list) BY <1>9, <3>1
      <3>3. PICK W : /\ Leads(list \o <<FilStep(t, g3)>>, V, W, new) /\ Has(W, t, g3)
                     /\ \E s : Fine(W, g3, s) /\ Rest(g3, s)
        BY <1>17, <3>1, <3>2, SeekEndLeads
      <3>4. Ends(new, W)
        <4>1. W.fil[new.task] = g3 BY <1>10, <2>1, <3>3 DEF Has
        <4> QED BY <2>1, <3>3, <4>1 DEF Ends
      <3> QED BY <2>2, <3>3, <3>4 DEF Follows
    <2>5. op.kind \in {"write", "seek"} /\ op' = new /\ new.kind \in {"write", "seek", "last"} /\ todo' = q
      BY <1>10, <1>13, <1>17, <2>1, <2>2
    <2> QED BY <1>10, <1>17, <2>1, <2>3, <2>4, <2>5, TurnData
  <1>18. CASE /\ ~ (left <= Units) /\ UNCHANGED fil
              /\ todo' = r.steps /\ op' = [op EXCEPT !.left = Units]
    <2>1. new.task = op.task /\ new.kind = "seek" /\ new.left = Units BY <1>10, <1>12, <1>13, <1>18
    <2>2. PICK q : q = r.steps OBVIOUS
    <2>3. ASSUME NEW V, V = Now, ~ renameCut PROVE Follows(q, V, new)
      <3>1. PICK p : /\ Sound(V, new) /\ Has(V, t, f) /\ Busy(new, t) /\ left \in Nat /\ V.data = disk.data
                     /\ f.name # None /\ Fine(V, f, p) /\ Seeking(f, p, left)
        BY <1>15, <2>1, <2>3
      <3>2. left > Units BY <1>14, <1>18, <3>1
      <3>3. PICK W : Leads(r.steps, V, W, new) /\ Has(W, t, f) /\ Fine(W, f, p) /\ Seeking(f, p, Units)
        BY <1>11, <2>3, <3>1, <3>2, SeekNext
      <3>4. Ends(new, W)
        <4>1. W.fil[new.task] = f BY <1>10, <2>1, <3>3 DEF Has
        <4> QED BY <1>14, <2>1, <3>3, <4>1 DEF Ends
      <3> QED BY <2>2, <3>3, <3>4 DEF Follows
    <2>4. op.kind \in {"write", "seek"} /\ op' = new /\ new.kind \in {"write", "seek", "last"} /\ todo' = q
      BY <1>10, <1>13, <1>18, <2>1, <2>2
    <2>5. ~ renameCut => Settled(q) BY <1>16, <2>2
    <2> QED BY <1>10, <1>18, <2>1, <2>3, <2>4, <2>5, TurnData
  <1>19. CASE Abort(t)
    <2>1. op.kind \in {"write", "seek"} BY <1>10
    <2> QED BY <1>10, <1>19, <2>1, AbortData
  <1>20. CASE /\ ~ (left <= Units) /\ r.clst # 0 /\ r.clst # 1 /\ UNCHANGED fil
              /\ todo' = r.steps \o <<FilStep(t, g)>> /\ op' = [op EXCEPT !.left = @ - Units]
    <2>1. new.task = op.task /\ new.kind = "seek" /\ new.left = left - Units BY <1>8, <1>10, <1>12, <1>13, <1>20
    <2>2. PICK q : q = r.steps \o <<FilStep(t, g)>> OBVIOUS
    <2>3. ASSUME NEW V, V = Now, ~ renameCut PROVE Follows(q, V, new)
      <3>1. PICK p : /\ Sound(V, new) /\ Has(V, t, f) /\ Busy(new, t) /\ left \in Nat /\ V.data = disk.data
                     /\ f.name # None /\ Fine(V, f, p) /\ Seeking(f, p, left)
        BY <1>15, <2>1, <2>3
      <3>2. left > Units BY <1>14, <1>20, <3>1
      <3>3. r.clst \in {0, 1} \cup Clusters
        BY <1>11, <2>3, <3>1, <3>2, SeekNext
      <3>a. r.clst \in Clusters BY <1>20, <3>3
      <3>b. \E W : Leads(r.steps \o <<FilStep(t, g)>>, V, W, new) /\ Has(W, t, g)
                   /\ \E s : Fine(W, g, s) /\ Seeking(g, s, left - Units)
        BY <1>11, <2>3, <3>1, <3>2, <3>a, SeekNext
      <3>4. PICK W : Leads(q, V, W, new) /\ Has(W, t, g) /\ \E s : Fine(W, g, s) /\ Seeking(g, s, left - Units)
        BY <2>2, <3>b
      <3>5. Ends(new, W)
        <4>1. W.fil[new.task] = g BY <1>10, <2>1, <3>4 DEF Has
        <4>2. left - Units \in Nat BY <1>14, <3>1, <3>2
        <4> QED BY <2>1, <3>4, <4>1, <4>2 DEF Ends
      <3> QED BY <3>4, <3>5 DEF Follows
    <2>4. op.kind \in {"write", "seek"} /\ op' = new /\ new.kind \in {"write", "seek", "last"} /\ todo' = q
      BY <1>10, <1>13, <1>20, <2>1, <2>2
    <2>5. ~ renameCut => Settled(q)
      <3>1. Settled(<<FilStep(t, g)>>) BY SettledOne, SettledSteps
      <3> QED BY <1>16, <2>2, <3>1, SettledJoin
    <2> QED BY <1>10, <1>20, <2>1, <2>3, <2>4, <2>5, TurnData
  <1> QED BY <1>10, <1>17, <1>18, <1>19, <1>20

-----------------------------------------------------------------------------
(* f_write() goes on.                                                      *)

\* The end: the size of the file is set.
Sized(g, f) == g = [f EXCEPT !.fsize = IF f.fptr > @ THEN f.fptr ELSE @, !.written = TRUE]

LEMMA WriteEndLeads ==
  ASSUME NEW V, NEW o, Sound(V, o), NEW t \in Tasks, Busy(o, t), NEW f, Has(V, t, f), NEW p, Fine(V, f, p), Writing(V, f, p),
         NEW g, Sized(g, f)
  PROVE  \E W : Leads(<<FilStep(t, g)>>, V, W, o) /\ Has(W, t, g) /\ \E q : Fine(W, g, q) /\ Rest(g, q)
  <1>1. Fits(Plain(V), f) /\ DOMAIN f = DOMAIN Closed
    <2>1. Sane(Plain(V)) /\ Plain(V).fil = V.fil BY PlainFields DEF Sound
    <2>2. Fits(Plain(V), f) BY <2>1, FileFits DEF Has
    <2> QED BY <2>2 DEF Fits, FileOK
  <1>2. PICK n : n = IF f.fptr > f.fsize THEN f.fptr ELSE f.fsize OBVIOUS
  <1>3. g = [f EXCEPT !.fsize = n, !.written = TRUE] BY <1>1, <1>2 DEF Sized, Closed
  <1>4. /\ g.name = f.name /\ g.err = f.err /\ g.sclust = f.sclust /\ g.clust = f.clust /\ g.fptr = f.fptr /\ g.fsize = n
        /\ g.dsect = f.dsect /\ g.buf = f.buf /\ g.text = f.text /\ DOMAIN g = DOMAIN Closed
    BY <1>1, <1>3 DEF Closed
  <1>5. g.dirty = f.dirty BY ONLY <1>3
  <1>6. /\ f.fsize \in Nat /\ f.fptr \in Nat /\ f.fsize <= Len(f.text) /\ IsList(f.text) /\ f.name \in Names
        /\ Len(f.text) <= f.fsize \/ Len(f.text) <= f.fptr
        /\ V.dir[f.name] # None /\ V.dir[f.name].size <= f.fsize
    BY DEF Fine
  <1>7. f.fptr <= Len(f.text) /\ Placed(f, p) BY DEF Writing
  <1>8. Len(f.text) \in Nat BY <1>6, ListLength
  <1>9. V.dir[f.name].size \in Nat BY <1>6 DEF Sound, Safe, StoreOf
  <1>10. n \in Nat /\ n <= Len(f.text) /\ Len(f.text) <= n /\ V.dir[f.name].size <= n /\ f.fptr <= n
    BY <1>2, <1>6, <1>7, <1>8, <1>9
  <1>11. Sectors(V.data, g) = Sectors(V.data, f) BY <1>4, <1>5 DEF Sectors
  <1>12. Fine(V, g, p) BY <1>4, <1>5, <1>10, <1>11 DEF Fine
  <1>13. Rest(g, p) BY <1>4, <1>7, <1>10 DEF Rest, Placed
  <1>14. Fits(Plain(V), g)
    <2>1. Alike(g, f) BY <1>1, <1>4 DEF Alike
    <2>2. f.clust \in Starts BY <1>1 DEF Fits, FileOK
    <2> QED BY <1>1, <1>4, <2>1, <2>2, AlikeFits
  <1>15. V.fil[t].name = g.name BY <1>4 DEF Has
  <1>16. PICK W : /\ Leads(<<FilStep(t, g)>>, V, W, o) /\ Sound(W, o) /\ W.fil[t] = g /\ Fine(W, g, p) /\ Around(V, W)
    BY <1>12, <1>14, <1>15, FilEnd
  <1> QED BY <1>13, <1>16 DEF Has

\* The file at a boundary gets the next cluster.
Forth(g, f, c) == g = [f EXCEPT !.clust = c, !.sclust = IF @ = 0 THEN c ELSE @]

LEMMA ForthLeads ==
  ASSUME NEW V, V = Now, NEW o, Sound(V, o), NEW t \in Tasks, Busy(o, t), NEW f, Has(V, t, f), NEW p, Fine(V, f, p),
         Writing(V, f, p), (f.fptr % Units) = 0, NEW r, NextChain(f, r), r.clst \notin {0, 1}, NEW g1, Forth(g1, f, r.clst),
         NEW h, h = Clean(g1)
  PROVE  /\ DOMAIN f = DOMAIN Closed /\ DOMAIN h = DOMAIN Closed /\ ~ h.dirty /\ Twins(h, g1) /\ g1.dirty = f.dirty
         /\ h.name = f.name /\ h.err = f.err /\ h.clust = r.clst /\ h.fptr = f.fptr /\ h.fsize = f.fsize
         /\ h.text = f.text /\ h.dsect = f.dsect /\ h.buf = f.buf
         /\ \E A, q, k : /\ Leads(r.steps \o <<FilStep(t, g1)>> \o FlushBuffer(t, g1), V, A, o) /\ Sound(A, o)
                         /\ A.data = Sectors(V.data, g1) /\ Poised(A, t, h, q, k, 0)
  <1>1. DOMAIN f = DOMAIN Closed
    <2>1. Sane(Plain(V)) /\ Plain(V).fil = V.fil BY PlainFields DEF Sound
    <2> QED BY <2>1 DEF Has, Sane, Shape, FileOK
  <1>2. PICK s : s = IF f.sclust = 0 THEN r.clst ELSE f.sclust OBVIOUS
  <1>3. g1 = [f EXCEPT !.clust = r.clst, !.sclust = s] BY <1>1, <1>2 DEF Forth, Closed
  <1>4. /\ g1.name = f.name /\ g1.err = f.err /\ g1.sclust = s /\ g1.clust = r.clst /\ g1.fptr = f.fptr /\ g1.fsize = f.fsize
        /\ g1.dsect = f.dsect /\ g1.buf = f.buf /\ g1.text = f.text /\ DOMAIN g1 = DOMAIN Closed
    BY <1>1, <1>3 DEF Closed
  <1>5. g1.dirty = f.dirty BY ONLY <1>3
  <1>6. Onward(g1, f, r.clst) BY <1>1, <1>2, <1>4, <1>5 DEF Onward, Moved
  <1>7. PICK k : k = f.fptr \div Units OBVIOUS
  <1>8. Placed(f, p) /\ ~ f.err /\ (V.saved[f.name] # None => f.fptr >= f.fsize) BY DEF Writing
  <1>9. PICK A : /\ Leads(r.steps \o <<FilStep(t, g1)>> \o FlushBuffer(t, g1), V, A, o) /\ Sound(A, o)
                 /\ A.dir = V.dir /\ A.saved = V.saved /\ A.data = Sectors(V.data, g1)
                 /\ A.fil[t] \in {g1, Clean(g1)} /\ Fits(Plain(A), Clean(g1))
                 /\ \E q : Fine(A, Clean(g1), q) /\ Aimed(g1, q, k, 0)
    BY <1>6, <1>7, <1>8, AdvanceLeads
  <1>10. PICK q : Fine(A, h, q) /\ Aimed(g1, q, k, 0) BY <1>9
  <1>11. Twins(h, g1) /\ ~ h.dirty BY <1>4, CleanTwins
  <1>12. /\ h.name = f.name /\ h.err = f.err /\ h.clust = r.clst /\ h.fptr = f.fptr /\ h.fsize = f.fsize
         /\ h.text = f.text /\ h.dsect = f.dsect /\ h.buf = f.buf /\ h.sclust = g1.sclust /\ DOMAIN h = DOMAIN Closed
    BY <1>4, <1>11 DEF Twins
  <1>13. Aimed(h, q, k, 0) BY <1>4, <1>10, <1>12 DEF Aimed
  <1>14. A.fil[t].name = h.name /\ A.fil[t].sclust = h.sclust BY <1>4, <1>9, <1>12
  <1>15. Poised(A, t, h, q, k, 0) BY <1>8, <1>9, <1>10, <1>12, <1>13, <1>14 DEF Poised
  <1> QED BY <1>1, <1>5, <1>9, <1>11, <1>12, <1>15

\* A whole sector is written at once.
WholeOf(g, f, h, c, x) ==
    g = [h EXCEPT !.fptr = @ + Units, !.buf = IF f.dsect = c THEN [i \in 1 .. Units |-> x] ELSE @,
                  !.text = Put(@, f.fptr, Units, x)]

LEMMA WholeTurn ==
  ASSUME NEW V, V = Now, NEW o, Sound(V, o), NEW t \in Tasks, Busy(o, t), NEW f, Has(V, t, f), NEW p, Fine(V, f, p),
         Writing(V, f, p), (f.fptr % Units) = 0, NEW r, NextChain(f, r), r.clst \notin {0, 1}, NEW g1, Forth(g1, f, r.clst),
         NEW h, h = Clean(g1), NEW x, NEW full, full = [i \in 1 .. Units |-> x], NEW g, WholeOf(g, f, h, r.clst, x),
         NEW ahead, ahead = r.steps \o <<FilStep(t, g1)>> \o FlushBuffer(t, g1)
  PROVE  \E W : /\ Leads(ahead \o <<DataStep(r.clst, full), FilStep(t, g)>>, V, W, o) /\ Has(W, t, g)
                /\ \E q : Fine(W, g, q) /\ Writing(W, g, q)
  <1>1. /\ DOMAIN f = DOMAIN Closed /\ DOMAIN h = DOMAIN Closed /\ ~ h.dirty
        /\ h.name = f.name /\ h.err = f.err /\ h.clust = r.clst /\ h.fptr = f.fptr /\ h.fsize = f.fsize
        /\ h.text = f.text /\ h.dsect = f.dsect /\ h.buf = f.buf
        /\ \E A, q, k : /\ Leads(r.steps \o <<FilStep(t, g1)>> \o FlushBuffer(t, g1), V, A, o) /\ Sound(A, o)
                        /\ A.data = Sectors(V.data, g1) /\ Poised(A, t, h, q, k, 0)
    BY ForthLeads
  <1>2. PICK A, q, k : Leads(ahead, V, A, o) /\ Sound(A, o) /\ Poised(A, t, h, q, k, 0) BY <1>1
  <1>3. PICK buf : buf = IF f.dsect = r.clst THEN full ELSE h.buf OBVIOUS
  <1>4. PICK text : text = Put(h.text, h.fptr, Units, x) OBVIOUS
  <1>5. g = [h EXCEPT !.fptr = @ + Units, !.buf = buf, !.text = text]
    BY <1>1, <1>3, <1>4 DEF WholeOf, Closed
  <1>6. /\ g.name = h.name /\ g.err = h.err /\ g.sclust = h.sclust /\ g.clust = h.clust /\ g.fsize = h.fsize
        /\ g.fptr = h.fptr + Units /\ g.text = text /\ g.buf = buf /\ g.dsect = h.dsect /\ DOMAIN g = DOMAIN Closed
    BY <1>1, <1>5 DEF Closed
  <1>7. ~ g.dirty
    <2>1. g.dirty = h.dirty BY ONLY <1>5
    <2> QED BY <1>1, <2>1
  <1>8. Written(g, h, Units, x) BY <1>1, <1>4, <1>6 DEF Written
  <1>9. g.buf = IF h.dsect = h.clust THEN full ELSE h.buf BY <1>1, <1>3, <1>6
  <1>10. g.dsect = h.dsect BY <1>6
  <1>11. \E W : /\ Leads(<<DataStep(h.clust, full), FilStep(t, g)>>, A, W, o) /\ Sound(W, o)
                /\ Has(W, t, g) /\ \E s : Fine(W, g, s) /\ Writing(W, g, s)
    BY <1>1, <1>2, <1>7, <1>8, <1>9, <1>10, WholeLeads
  <1>12. PICK W : Leads(<<DataStep(r.clst, full), FilStep(t, g)>>, A, W, o) /\ Has(W, t, g) /\ \E s : Fine(W, g, s) /\ Writing(W, g, s)
    BY <1>1, <1>11
  <1> QED BY <1>2, <1>12, LeadsJoin

\* A unit is written to the sector buffer b.
PartOf(g, b, m, at, x) ==
    g = [b EXCEPT !.buf[at] = x, !.dirty = TRUE, !.fptr = @ + 1, !.text = Put(@, m, 1, x)]

LEMMA PartFields ==
  ASSUME NEW b, DOMAIN b = DOMAIN Closed, NEW m, NEW at, NEW x, NEW g, PartOf(g, b, m, at, x)
  PROVE  /\ g.name = b.name /\ g.err = b.err /\ g.sclust = b.sclust /\ g.clust = b.clust /\ g.fsize = b.fsize
         /\ g.fptr = b.fptr + 1 /\ g.text = Put(b.text, m, 1, x) /\ g.buf = [b.buf EXCEPT ![at] = x]
         /\ g.dsect = b.dsect /\ DOMAIN g = DOMAIN Closed /\ g.dirty
  <1>1. PICK buf : buf = [b.buf EXCEPT ![at] = x] OBVIOUS
  <1>2. PICK text : text = Put(b.text, m, 1, x) OBVIOUS
  <1>3. PICK n : n = b.fptr + 1 OBVIOUS
  <1>4. g = [b EXCEPT !.buf = buf, !.dirty = TRUE, !.fptr = n, !.text = text]
    BY <1>1, <1>2, <1>3 DEF PartOf, Closed
  <1>5. /\ g.name = b.name /\ g.err = b.err /\ g.sclust = b.sclust /\ g.clust = b.clust /\ g.fsize = b.fsize
        /\ g.fptr = n /\ g.text = text /\ g.buf = buf
        /\ g.dsect = b.dsect /\ DOMAIN g = DOMAIN Closed
    BY <1>4 DEF Closed
  <1>6. g.dirty
    <2>1. "dirty" \in DOMAIN b BY DEF Closed
    <2> QED BY <1>4, <2>1
  <1> QED BY <1>1, <1>2, <1>3, <1>5, <1>6

\* The buffer with the sector at the boundary.
LoadOf(b, f, h, c, data) ==
    b = IF f.dsect = c THEN h ELSE [h EXCEPT !.dsect = c, !.buf = IF f.fptr < f.fsize THEN data[c] ELSE @]

LEMMA PartTurn ==
  ASSUME NEW V, V = Now, NEW o, Sound(V, o), NEW t \in Tasks, Busy(o, t), NEW f, Has(V, t, f), NEW p, Fine(V, f, p),
         Writing(V, f, p), (f.fptr % Units) = 0, NEW r, NextChain(f, r), r.clst \notin {0, 1}, NEW g1, Forth(g1, f, r.clst),
         NEW h, h = Clean(g1), NEW x, NEW b, LoadOf(b, f, h, r.clst, V.data),
         NEW g, PartOf(g, b, f.fptr, (f.fptr % Units) + 1, x),
         NEW ahead, ahead = r.steps \o <<FilStep(t, g1)>> \o FlushBuffer(t, g1)
  PROVE  \E W : /\ Leads(ahead \o <<FilStep(t, g)>>, V, W, o) /\ Has(W, t, g)
                /\ \E q : Fine(W, g, q) /\ Writing(W, g, q)
  <1>1. /\ DOMAIN f = DOMAIN Closed /\ DOMAIN h = DOMAIN Closed /\ ~ h.dirty /\ Twins(h, g1) /\ g1.dirty = f.dirty
        /\ h.name = f.name /\ h.err = f.err /\ h.clust = r.clst /\ h.fptr = f.fptr /\ h.fsize = f.fsize
        /\ h.text = f.text /\ h.dsect = f.dsect /\ h.buf = f.buf
        /\ \E A, q, k : /\ Leads(r.steps \o <<FilStep(t, g1)>> \o FlushBuffer(t, g1), V, A, o) /\ Sound(A, o)
                        /\ A.data = Sectors(V.data, g1) /\ Poised(A, t, h, q, k, 0)
    BY ForthLeads
  <1>2. PICK A, q, k : /\ Leads(ahead, V, A, o) /\ Sound(A, o) /\ A.data = Sectors(V.data, g1) /\ Poised(A, t, h, q, k, 0)
    BY <1>1
  <1>3. PICK c : c = r.clst OBVIOUS
  <1>4. c \in Clusters BY <1>1, <1>2, <1>3, PoisedFacts
  <1>5. Formed(V) /\ DOMAIN f.buf = 1 .. Units
    BY DEF Sound, Safe, Fine
  <1>6. /\ b.name = h.name /\ b.err = h.err /\ b.sclust = h.sclust /\ b.clust = h.clust /\ b.fsize = h.fsize
        /\ b.fptr = h.fptr /\ b.text = h.text /\ b.dsect = c /\ DOMAIN b = DOMAIN Closed
        /\ Loaded(A, h, 0, b.buf)
    <2>1. CASE f.dsect = c
      <3>1. b = h BY <1>3, <2>1 DEF LoadOf
      <3>2. Loaded(A, h, 0, b.buf) BY <1>1, <1>3, <1>5, <2>1, <3>1 DEF Loaded
      <3> QED BY <1>1, <2>1, <3>1, <3>2
    <2>2. CASE f.dsect # c
      <3>1. PICK buf : buf = IF f.fptr < f.fsize THEN V.data[c] ELSE h.buf OBVIOUS
      <3>2. b = [h EXCEPT !.dsect = c, !.buf = buf] BY <1>1, <1>3, <2>2, <3>1 DEF LoadOf, Closed
      <3>3. /\ b.name = h.name /\ b.err = h.err /\ b.sclust = h.sclust /\ b.clust = h.clust /\ b.fsize = h.fsize
            /\ b.fptr = h.fptr /\ b.text = h.text /\ b.dsect = c /\ b.buf = buf /\ DOMAIN b = DOMAIN Closed
        BY <1>1, <3>2 DEF Closed
      <3>4. A.data[c] = V.data[c]
        <4>1. g1.dsect # c BY <1>1, <2>2 DEF Twins
        <4>2. DOMAIN V.data = Clusters BY <1>5 DEF Formed
        <4> QED BY <1>2, <1>4, <4>1, <4>2 DEF Sectors
      <3>5. DOMAIN buf = 1 .. Units BY <1>1, <1>4, <1>5, <3>1 DEF Formed
      <3>6. Loaded(A, h, 0, b.buf) BY <1>1, <1>3, <3>1, <3>3, <3>4, <3>5 DEF Loaded
      <3> QED BY <3>3, <3>6
    <2> QED BY <2>1, <2>2
  <1>7. PICK at : at = (f.fptr % Units) + 1 OBVIOUS
  <1>8. at = 0 + 1 /\ PartOf(g, b, f.fptr, at, x) BY <1>7
  <1>9. /\ g.name = b.name /\ g.err = b.err /\ g.sclust = b.sclust /\ g.clust = b.clust /\ g.fsize = b.fsize
        /\ g.fptr = b.fptr + 1 /\ g.text = Put(b.text, f.fptr, 1, x) /\ g.buf = [b.buf EXCEPT ![at] = x]
        /\ g.dsect = b.dsect /\ DOMAIN g = DOMAIN Closed /\ g.dirty
    <2>1. PICK m : m = f.fptr OBVIOUS
    <2>2. PartOf(g, b, m, at, x) /\ DOMAIN b = DOMAIN Closed BY <1>6, <1>8, <2>1
    <2>3. /\ g.name = b.name /\ g.err = b.err /\ g.sclust = b.sclust /\ g.clust = b.clust /\ g.fsize = b.fsize
          /\ g.fptr = b.fptr + 1 /\ g.text = Put(b.text, m, 1, x) /\ g.buf = [b.buf EXCEPT ![at] = x]
          /\ g.dsect = b.dsect /\ DOMAIN g = DOMAIN Closed /\ g.dirty
      BY ONLY <2>2, PartFields
    <2> QED BY <2>1, <2>3
  <1>10. Written(g, h, 1, x)
    <2>1. g.text = Put(h.text, h.fptr, 1, x) BY <1>1, <1>6, <1>9
    <2>2. g.fptr = h.fptr + 1 BY <1>6, <1>9
    <2> QED BY <1>1, <1>6, <1>9, <2>1, <2>2 DEF Written
  <1>11. PICK zero : zero = 0 OBVIOUS
  <1>12. /\ Poised(A, t, h, q, k, zero) /\ Loaded(A, h, zero, b.buf) /\ g.dsect = h.clust
         /\ g.buf = [b.buf EXCEPT ![zero + 1] = x]
    <2>1. at = zero + 1 BY <1>8, <1>11
    <2>2. g.buf = [b.buf EXCEPT ![zero + 1] = x] BY <1>9, <2>1
    <2> QED BY <1>1, <1>2, <1>3, <1>6, <1>9, <1>11, <2>2
  <1>13. PICK W : /\ Leads(<<FilStep(t, g)>>, A, W, o) /\ Has(W, t, g) /\ \E s : Fine(W, g, s) /\ Writing(W, g, s)
    BY <1>2, <1>9, <1>10, <1>12, PartLeads
  <1> QED BY <1>2, <1>13, LeadsJoin

LEMMA InsideTurn ==
  ASSUME NEW V, NEW o, Sound(V, o), NEW t \in Tasks, Busy(o, t), NEW f, Has(V, t, f), NEW p, Fine(V, f, p),
         Writing(V, f, p), (f.fptr % Units) # 0, NEW x, NEW g, PartOf(g, f, f.fptr, (f.fptr % Units) + 1, x)
  PROVE  \E W : /\ Leads(<<FilStep(t, g)>>, V, W, o) /\ Has(W, t, g)
                /\ \E q : Fine(W, g, q) /\ Writing(W, g, q)
  <1>1. Units \in Nat \ {0} BY FatAssumption
  <1>2. Walk(V.fat, f.sclust, p) /\ f.fptr \in Nat /\ DOMAIN f.buf = 1 .. Units BY DEF Fine
  <1>3. ~ f.err /\ Placed(f, p) /\ (V.saved[f.name] # None => f.fptr >= f.fsize) BY DEF Writing
  <1>4. PICK k : k = f.fptr \div Units OBVIOUS
  <1>5. PICK r : r = (f.fptr % Units) OBVIOUS
  <1>6. k \in Nat /\ r \in 1 .. Units - 1 /\ r \in 0 .. Units - 1 /\ f.fptr = Units * k + r
    <2>1. k \in Nat /\ r \in 0 .. Units - 1 /\ f.fptr = Units * k + r BY <1>2, <1>4, <1>5, Division
    <2> QED BY <1>1, <1>5, <2>1
  <1>7. Units * k \in Nat /\ f.fptr \in Nat \ {0} BY <1>1, <1>6
  <1>8. Len(p) \in Nat BY <1>2, WalkLength
  <1>9. At(f.fptr) = k + 1 /\ k + 1 \in 1 .. Len(p)
    <2>1. /\ At(f.fptr) \in Nat /\ \A n \in Nat : f.fptr <= Units * n => At(f.fptr) <= n
          /\ \A n \in Nat : f.fptr > Units * n => At(f.fptr) > n
      BY <1>7, Place
    <2>2. Units * (k + 1) = Units * k + Units BY <1>1, <1>6
    <2>3. f.fptr <= Units * (k + 1) /\ f.fptr > Units * k /\ k + 1 \in Nat BY <1>1, <1>6, <1>7, <2>2
    <2>4. f.fptr <= Units * Len(p) BY <1>3 DEF Placed
    <2>5. At(f.fptr) <= k + 1 /\ At(f.fptr) > k /\ At(f.fptr) <= Len(p) BY <1>6, <1>8, <2>1, <2>3, <2>4
    <2> QED BY <1>6, <1>8, <2>1, <2>5
  <1>10. f.clust = p[k + 1] /\ f.dsect = f.clust
    <2>1. f.fptr > 0 BY <1>7
    <2> QED BY <1>3, <1>9, <2>1 DEF Placed
  <1>11. Aimed(f, p, k, r) BY <1>6, <1>9, <1>10 DEF Aimed
  <1>12. Fits(Plain(V), f) /\ DOMAIN f = DOMAIN Closed
    <2>1. Sane(Plain(V)) /\ Plain(V).fil = V.fil BY PlainFields DEF Sound
    <2>2. Fits(Plain(V), f) BY <2>1, FileFits DEF Has
    <2> QED BY <2>2 DEF Fits, FileOK
  <1>13. Poised(V, t, f, p, k, r) BY <1>3, <1>11, <1>12 DEF Poised, Has
  <1>14. Loaded(V, f, r, f.buf) BY <1>2, <1>10 DEF Loaded
  <1>15. PICK at : at = r + 1 OBVIOUS
  <1>16. PartOf(g, f, f.fptr, at, x) BY <1>5, <1>15
  <1>17. /\ g.name = f.name /\ g.err = f.err /\ g.sclust = f.sclust /\ g.clust = f.clust /\ g.fsize = f.fsize
         /\ g.fptr = f.fptr + 1 /\ g.text = Put(f.text, f.fptr, 1, x) /\ g.buf = [f.buf EXCEPT ![at] = x]
         /\ g.dsect = f.dsect /\ DOMAIN g = DOMAIN Closed /\ g.dirty
    BY <1>12, <1>16, PartFields
  <1>18. Written(g, f, 1, x) BY <1>12, <1>17 DEF Written
  <1>19. g.dsect = f.clust /\ g.buf = [f.buf EXCEPT ![r + 1] = x] BY <1>10, <1>15, <1>17
  <1> QED BY <1>13, <1>14, <1>17, <1>18, <1>19, PartLeads

LEMMA WriteOnData == ASSUME FatIInv, DataInv, NEW t \in Tasks, WriteOn(t) PROVE DataInv'
  <1> DEFINE f0 == fil[t]
             boundary == f0.fptr % Units = 0
             chain == IF ~ boundary THEN [clst |-> f0.clust, steps |-> << >>]
                      ELSE IF f0.fptr > 0 THEN CreateChain(f0.clust)
                      ELSE IF f0.sclust # 0 THEN [clst |-> f0.sclust, steps |-> << >>]
                      ELSE CreateChain(0)
             c == chain.clst
             f1 == [f0 EXCEPT !.clust = c, !.sclust = IF @ = 0 THEN c ELSE @]
             f2 == [f1 EXCEPT !.dirty = FALSE]
             f3 == IF f0.dsect = c THEN f2
                   ELSE [f2 EXCEPT !.dsect = c, !.buf = IF f0.fptr < f0.fsize THEN disk.data[c] ELSE @]
             at == (f0.fptr % Units) + 1
             advance == IF boundary THEN chain.steps \o <<FilStep(t, f1)>> \o FlushBuffer(t, f1) ELSE << >>
             part(g) == [g EXCEPT !.buf[at] = t, !.dirty = TRUE, !.fptr = @ + 1, !.text = Put(@, f0.fptr, 1, t)]
             whole == [f2 EXCEPT !.fptr = @ + Units, !.buf = IF f0.dsect = c THEN [i \in 1 .. Units |-> t] ELSE @,
                                 !.text = Put(@, f0.fptr, Units, t)]
             written == [f0 EXCEPT !.fsize = IF f0.fptr > @ THEN f0.fptr ELSE @, !.written = TRUE]
             buffer == IF boundary THEN f3 ELSE f0
  <1>1. PICK f : f = f0 OBVIOUS
  <1>2. PICK r : r = chain OBVIOUS
  <1>3. PICK g1 : g1 = f1 OBVIOUS
  <1>4. PICK h : h = f2 OBVIOUS
  <1>5. PICK b : b = buffer OBVIOUS
  <1>6. PICK gp : gp = part(b) OBVIOUS
  <1>7. PICK gw : gw = whole OBVIOUS
  <1>8. PICK ge : ge = written OBVIOUS
  <1>9. PICK ahead : ahead = advance OBVIOUS
  <1>10. PICK full : full = [i \in 1 .. Units |-> t] OBVIOUS
  <1>11. PICK left : left = op.left OBVIOUS
  <1>12. Sized(ge, f) /\ Forth(g1, f, r.clst) /\ h = Clean(g1)
    BY <1>1, <1>2, <1>3, <1>4, <1>8 DEF Sized, Forth, Clean
  <1>13. WholeOf(gw, f, h, r.clst, t) BY <1>1, <1>2, <1>4, <1>7 DEF WholeOf
  <1>14. PartOf(gp, b, f.fptr, (f.fptr % Units) + 1, t) BY <1>1, <1>6 DEF PartOf
  <1>15. IF (f.fptr % Units) = 0 THEN LoadOf(b, f, h, r.clst, disk.data) ELSE b = f
    BY <1>1, <1>2, <1>4, <1>5 DEF LoadOf
  <1>16. ahead = IF (f.fptr % Units) = 0 THEN r.steps \o <<FilStep(t, g1)>> \o FlushBuffer(t, g1) ELSE << >>
    BY <1>1, <1>2, <1>3, <1>9
  <1>17. \/ (f.fptr % Units) # 0
         \/ f.fptr > 0 /\ r = CreateChain(f.clust)
         \/ ~ (f.fptr > 0) /\ f.sclust # 0 /\ r.clst = f.sclust /\ r.steps = << >>
         \/ ~ (f.fptr > 0) /\ f.sclust = 0 /\ r = CreateChain(0)
    BY <1>1, <1>2
  <1>a. /\ op.task = t /\ op.kind = "write" /\ todo = << >>
        /\ UNCHANGED <<disk, fat, dir, wflag, saved, renameCut>>
        /\ \/ /\ todo' = <<FilStep(t, written)>>
              /\ op' = [op EXCEPT !.kind = "last"] /\ UNCHANGED fil
           \/ Abort(t)
           \/ /\ boundary /\ op.left >= Units /\ c # 0 /\ c # 1
              /\ todo' = advance \o <<DataStep(c, [i \in 1 .. Units |-> t]), FilStep(t, whole)>>
              /\ op' = [op EXCEPT !.left = @ - Units] /\ UNCHANGED fil
           \/ /\ op.left # 0 /\ c # 0 /\ c # 1
              /\ todo' = advance \o <<FilStep(t, part(IF boundary THEN f3 ELSE f0))>>
              /\ op' = [op EXCEPT !.left = @ - 1] /\ UNCHANGED fil
    BY DEF WriteOn, window
  <1>19. f = fil[t] BY <1>1
  <1>b. c = r.clst /\ (boundary <=> (f.fptr % Units) = 0) BY <1>1, <1>2
  <1> HIDE DEF f0, boundary, chain, c, f1, f2, f3, at, advance, part, whole, written
  <1>c. gp = part(IF boundary THEN f3 ELSE f0) BY <1>5, <1>6
  <1> HIDE DEF buffer
  <1>18. /\ op.task = t /\ op.kind = "write" /\ todo = << >>
         /\ UNCHANGED <<disk, fat, dir, wflag, saved, renameCut>>
         /\ \/ /\ todo' = <<FilStep(t, ge)>>
               /\ op' = [op EXCEPT !.kind = "last"] /\ UNCHANGED fil
            \/ Abort(t)
            \/ /\ (f.fptr % Units) = 0 /\ left >= Units /\ r.clst # 0 /\ r.clst # 1
               /\ todo' = ahead \o <<DataStep(r.clst, full), FilStep(t, gw)>>
               /\ op' = [op EXCEPT !.left = @ - Units] /\ UNCHANGED fil
            \/ /\ left # 0 /\ r.clst # 0 /\ r.clst # 1
               /\ todo' = ahead \o <<FilStep(t, gp)>>
               /\ op' = [op EXCEPT !.left = @ - 1] /\ UNCHANGED fil
    BY <1>a, <1>b, <1>c, <1>7, <1>8, <1>9, <1>10, <1>11
  <1>20. DOMAIN op = {"task", "kind", "left"} BY DEF FatIInv
  <1>21. PICK new : new = op' OBVIOUS
  <1>22. Units \in Nat \ {0} BY FatAssumption
  <1>23. ASSUME NEW o, o.task = op.task, o.kind \in {"write", "seek", "last"}, NEW V, V = Now, ~ renameCut
         PROVE  /\ Sound(V, o) /\ Has(V, t, f) /\ Busy(o, t) /\ left \in Nat /\ V.data = disk.data
                /\ f.fptr \in Nat /\ \E p : Fine(V, f, p) /\ Writing(V, f, p)
    <2>1. op.kind \in {"write", "seek"} BY <1>18
    <2>2. Sound(Now, o) /\ Ends(op, Now) BY <1>18, <1>23, <2>1, TurnSound
    <2>3. Has(V, t, f) /\ V.data = disk.data BY <1>19, <1>23, NowFields DEF Has
    <2>4. left \in Nat /\ \E p : Fine(V, f, p) /\ Writing(V, f, p)
      <3>1. op.left \in Nat /\ \E p : Fine(Now, Now.fil[op.task], p) /\ Writing(Now, Now.fil[op.task], p)
        BY <1>18, <2>2 DEF Ends
      <3>2. V.fil[t] = f BY <2>3 DEF Has
      <3> QED BY <1>11, <1>18, <1>23, <3>1, <3>2
    <2>5. f.fptr \in Nat BY <2>4 DEF Fine
    <2>6. Busy(o, t) BY <1>18, <1>23 DEF Busy
    <2> QED BY <1>23, <2>2, <2>3, <2>4, <2>5, <2>6
  <1>24. (f.fptr % Units) = 0 /\ f.fptr \in Nat => NextChain(f, r)
    <2>1. ~ (f.fptr > 0) /\ f.fptr \in Nat => f.fptr = 0 OBVIOUS
    <2> QED BY <1>17, <2>1 DEF NextChain
  <1>25. ~ renameCut => Settled(ahead)
    <2>1. ASSUME ~ renameCut PROVE fat \in [Clusters -> 0 .. EndOfChain] /\ f.clust \in Starts
      <3>1. op.kind # "rename" BY <1>18
      <3>2. Sane(view) BY <2>1, <3>1, ViewSane
      <3>3. view.fat = fat /\ view.fil[t] = f BY <1>19 DEF view
      <3> QED BY <3>2, <3>3 DEF Sane, Shape, FileOK
    <2>2. ASSUME ~ renameCut, (f.fptr % Units) = 0 PROVE Settled(ahead)
      <3>1. Settled(r.steps)
        <4>1. PICK zero : zero = 0 OBVIOUS
        <4>2. zero \in Starts BY <4>1 DEF Starts
        <4>3. r = CreateChain(f.clust) \/ r.steps = << >> \/ r = CreateChain(zero) BY <1>17, <2>2, <4>1
        <4>4. CASE r = CreateChain(f.clust) BY <2>1, <2>2, <4>4, SettledCreate
        <4>5. CASE r = CreateChain(zero) BY <2>1, <2>2, <4>2, <4>5, SettledCreate
        <4>6. CASE r.steps = << >> BY <4>6, SettledNone
        <4> QED BY <4>3, <4>4, <4>5, <4>6
      <3>2. Settled(<<FilStep(t, g1)>>) BY SettledOne, SettledSteps
      <3>3. Settled(r.steps \o <<FilStep(t, g1)>>) BY <3>1, <3>2, SettledJoin
      <3>4. Settled((r.steps \o <<FilStep(t, g1)>>) \o FlushBuffer(t, g1)) BY <3>3, SettledBuffer, SettledJoin
      <3> QED BY <1>16, <2>2, <3>4
    <2>3. (f.fptr % Units) # 0 => Settled(ahead) BY <1>16, SettledNone
    <2> QED BY <2>2, <2>3
  <1>26. CASE /\ todo' = <<FilStep(t, ge)>>
              /\ op' = [op EXCEPT !.kind = "last"] /\ UNCHANGED fil
    <2>1. new.task = op.task /\ new.kind = "last" BY <1>20, <1>21, <1>26
    <2>2. PICK q : q = <<FilStep(t, ge)>> OBVIOUS
    <2>3. Settled(q) BY <2>2, SettledOne, SettledSteps
    <2>4. ASSUME NEW V, V = Now, ~ renameCut PROVE Follows(q, V, new)
      <3>1. PICK p : Sound(V, new) /\ Has(V, t, f) /\ Busy(new, t) /\ Fine(V, f, p) /\ Writing(V, f, p)
        BY <1>23, <2>1, <2>4
      <3>2. PICK W : Leads(<<FilStep(t, ge)>>, V, W, new) /\ Has(W, t, ge) /\ \E s : Fine(W, ge, s) /\ Rest(ge, s)
        BY <1>12, <3>1, WriteEndLeads
      <3>3. Ends(new, W)
        <4>1. W.fil[new.task] = ge BY <1>18, <2>1, <3>2 DEF Has
        <4> QED BY <2>1, <3>2, <4>1 DEF Ends
      <3> QED BY <2>2, <3>2, <3>3 DEF Follows
    <2>5. op.kind \in {"write", "seek"} /\ op' = new /\ new.kind \in {"write", "seek", "last"} /\ todo' = q
      BY <1>18, <1>21, <1>26, <2>1, <2>2
    <2> QED BY <1>18, <1>26, <2>1, <2>3, <2>4, <2>5, TurnData
  <1>27. CASE Abort(t)
    <2>1. op.kind \in {"write", "seek"} BY <1>18
    <2> QED BY <1>18, <1>27, <2>1, AbortData
  <1>28. CASE /\ (f.fptr % Units) = 0 /\ left >= Units /\ r.clst # 0 /\ r.clst # 1
              /\ todo' = ahead \o <<DataStep(r.clst, full), FilStep(t, gw)>>
              /\ op' = [op EXCEPT !.left = @ - Units] /\ UNCHANGED fil
    <2>1. new.task = op.task /\ new.kind = "write" /\ new.left = left - Units BY <1>11, <1>18, <1>20, <1>21, <1>28
    <2>2. PICK last : last = <<DataStep(r.clst, full), FilStep(t, gw)>> OBVIOUS
    <2>3. PICK q : q = ahead \o last OBVIOUS
    <2>4. ~ renameCut => Settled(q)
      <3>1. PICK x : x = DataStep(r.clst, full) OBVIOUS
      <3>2. PICK y : y = FilStep(t, gw) OBVIOUS
      <3>3. x.do # "saved" /\ y.do # "saved" /\ last = <<x, y>> BY <2>2, <3>1, <3>2, SettledSteps
      <3>4. Settled(last) BY <3>3, SettledTwo
      <3> QED BY <1>25, <2>3, <3>4, SettledJoin
    <2>5. ASSUME NEW V, V = Now, ~ renameCut PROVE Follows(q, V, new)
      <3>1. PICK p : /\ Sound(V, new) /\ Has(V, t, f) /\ Busy(new, t) /\ left \in Nat /\ f.fptr \in Nat
                     /\ Fine(V, f, p) /\ Writing(V, f, p)
        BY <1>23, <2>1, <2>5
      <3>2. NextChain(f, r) /\ r.clst \notin {0, 1} BY <1>24, <1>28, <3>1
      <3>3. ahead = r.steps \o <<FilStep(t, g1)>> \o FlushBuffer(t, g1) BY <1>16, <1>28
      <3>4. PICK W : /\ Leads(ahead \o <<DataStep(r.clst, full), FilStep(t, gw)>>, V, W, new) /\ Has(W, t, gw)
                     /\ \E s : Fine(W, gw, s) /\ Writing(W, gw, s)
        BY <1>10, <1>12, <1>13, <1>28, <2>5, <3>1, <3>2, <3>3, WholeTurn
      <3>5. Ends(new, W)
        <4>1. W.fil[new.task] = gw BY <1>18, <2>1, <3>4 DEF Has
        <4>2. left - Units \in Nat BY <1>22, <1>28, <3>1
        <4> QED BY <2>1, <3>4, <4>1, <4>2 DEF Ends
      <3> QED BY <2>2, <2>3, <3>4, <3>5 DEF Follows
    <2>6. op.kind \in {"write", "seek"} /\ op' = new /\ new.kind \in {"write", "seek", "last"} /\ todo' = q
      BY <1>18, <1>21, <1>28, <2>1, <2>2, <2>3
    <2> QED BY <1>18, <1>28, <2>1, <2>4, <2>5, <2>6, TurnData
  <1>29. CASE /\ left # 0 /\ r.clst # 0 /\ r.clst # 1
              /\ todo' = ahead \o <<FilStep(t, gp)>>
              /\ op' = [op EXCEPT !.left = @ - 1] /\ UNCHANGED fil
    <2>1. new.task = op.task /\ new.kind = "write" /\ new.left = left - 1 BY <1>11, <1>18, <1>20, <1>21, <1>29
    <2>2. PICK q : q = ahead \o <<FilStep(t, gp)>> OBVIOUS
    <2>3. ~ renameCut => Settled(q)
      <3>1. Settled(<<FilStep(t, gp)>>) BY SettledOne, SettledSteps
      <3> QED BY <1>25, <2>2, <3>1, SettledJoin
    <2>4. ASSUME NEW V, V = Now, ~ renameCut PROVE Follows(q, V, new)
      <3>1. PICK p : /\ Sound(V, new) /\ Has(V, t, f) /\ Busy(new, t) /\ left \in Nat /\ f.fptr \in Nat
                     /\ V.data = disk.data /\ Fine(V, f, p) /\ Writing(V, f, p)
        BY <1>23, <2>1, <2>4
      <3>2. \E W : Leads(q, V, W, new) /\ Has(W, t, gp) /\ \E s : Fine(W, gp, s) /\ Writing(W, gp, s)
        <4>1. CASE (f.fptr % Units) = 0
          <5>1. NextChain(f, r) /\ r.clst \notin {0, 1} BY <1>24, <1>29, <3>1, <4>1
          <5>2. ahead = r.steps \o <<FilStep(t, g1)>> \o FlushBuffer(t, g1) BY <1>16, <4>1
          <5>3. LoadOf(b, f, h, r.clst, V.data) BY <1>15, <3>1, <4>1
          <5> QED BY <1>12, <1>14, <2>2, <2>4, <3>1, <4>1, <5>1, <5>2, <5>3, PartTurn
        <4>2. CASE (f.fptr % Units) # 0
          <5>1. b = f /\ ahead = << >> BY <1>15, <1>16, <4>2
          <5>2. PartOf(gp, f, f.fptr, (f.fptr % Units) + 1, t) BY <1>14, <5>1
          <5>3. PICK W : Leads(<<FilStep(t, gp)>>, V, W, new) /\ Has(W, t, gp) /\ \E s : Fine(W, gp, s) /\ Writing(W, gp, s)
            BY <3>1, <4>2, <5>2, InsideTurn
          <5>4. Leads(<< >>, V, V, new) BY <3>1, LeadsNone DEF Sound
          <5>5. Leads(<< >> \o <<FilStep(t, gp)>>, V, W, new) BY <5>3, <5>4, LeadsJoin
          <5> QED BY <2>2, <5>1, <5>3, <5>5
        <4> QED BY <4>1, <4>2
      <3>3. PICK W : Leads(q, V, W, new) /\ Has(W, t, gp) /\ \E s : Fine(W, gp, s) /\ Writing(W, gp, s) BY <3>2
      <3>4. Ends(new, W)
        <4>1. W.fil[new.task] = gp BY <1>18, <2>1, <3>3 DEF Has
        <4>2. left - 1 \in Nat BY <1>29, <3>1
        <4> QED BY <2>1, <3>3, <4>1, <4>2 DEF Ends
      <3> QED BY <3>3, <3>4 DEF Follows
    <2>5. op.kind \in {"write", "seek"} /\ op' = new /\ new.kind \in {"write", "seek", "last"} /\ todo' = q
      BY <1>18, <1>21, <1>29, <2>1, <2>2
    <2> QED BY <1>18, <1>29, <2>1, <2>3, <2>4, <2>5, TurnData
  <1> QED BY <1>18, <1>26, <1>27, <1>28, <1>29

-----------------------------------------------------------------------------
(* Names.                                                                  *)

\* What a file has, read along its chain.
LEMMA ContentAt ==
  ASSUME NEW d, NEW n, NEW m, m = d.dir[n].size, m \in Nat, NEW p, Walk(d.fat, d.dir[n].clust, p)
  PROVE  /\ IsList(Content(d, n)) /\ Len(Content(d, n)) = m
         /\ \A i \in 1 .. m : i <= Units * Len(p) => Content(d, n)[i] = d.data[p[At(i)]][In(i)]
  <1>1. PICK q : q = Chain(d.fat, d.dir[n].clust) OBVIOUS
  <1>2. PICK text : text = Content(d, n) OBVIOUS
  <1>3. text = [i \in 1 .. m |-> IF (i - 1) \div Units < Len(q) THEN d.data[q[(i - 1) \div Units + 1]][((i - 1) % Units) + 1]
                                 ELSE None]
    BY <1>1, <1>2 DEF Content
  <1>4. text = [i \in 1 .. m |-> text[i]]
        /\ \A i \in 1 .. m : (i - 1) \div Units < Len(q) => text[i] = d.data[q[At(i)]][In(i)]
    BY <1>3 DEF At, In
  <1>5. IsList(text) /\ Len(text) = m BY <1>4, FunctionList
  <1>6. Len(q) \in Nat /\ Len(p) <= Len(q) /\ \A i \in 1 .. Len(p) : q[i] = p[i] BY <1>1, WalkInChain
  <1>7. Len(p) \in Nat BY WalkLength
  <1>8. ASSUME NEW i \in 1 .. m, i <= Units * Len(p) PROVE text[i] = d.data[p[At(i)]][In(i)]
    <2>1. i \in Nat \ {0} OBVIOUS
    <2>2. At(i) \in Nat \ {0} /\ \A k \in Nat : i <= Units * k => At(i) <= k BY <2>1, Place
    <2>3. At(i) <= Len(p) BY <1>7, <1>8, <2>2
    <2>4. PICK k : k = (i - 1) \div Units OBVIOUS
    <2>5. i - 1 \in Nat BY <2>1
    <2>6. k \in Nat /\ At(i) = k + 1 BY <2>4, <2>5, Division DEF At
    <2>7. k < Len(q) BY <1>6, <1>7, <2>3, <2>6
    <2>8. At(i) \in 1 .. Len(p) BY <1>7, <2>2, <2>3
    <2> QED BY <1>4, <1>6, <2>4, <2>7, <2>8
  <1> QED BY <1>2, <1>5, <1>8

\* The entry of a file that is not open is changed, and its clusters are freed.
LEMMA ReleaseLeads ==
  ASSUME NEW V, NEW o, Sound(V, o), V.fat = fat, NEW n \in Names, V.dir[n] # None, V.saved[n] = None,
         \A t \in Tasks : V.fil[t].name # n, NEW e, e # None => e = [clust |-> 0, size |-> 0]
  PROVE  \E W : /\ Leads(<<DirStep(n, e)>> \o RemoveChain(V.dir[n].clust), V, W, o) /\ Sound(W, o)
                /\ W.fil = V.fil /\ W.saved = V.saved /\ W.dir[n] = e
  <1>1. PICK c : c = V.dir[n].clust OBVIOUS
  <1>2. Sane(Plain(V)) /\ Plain(V).fat = V.fat /\ Plain(V).dir = V.dir /\ Plain(V).fil = V.fil BY PlainFields DEF Sound
  <1>3. Covered(V, e)
    <2>1. ASSUME e # None PROVE e.size \in Nat /\ \E p : Walk(V.fat, e.clust, p) /\ e.size <= Units * Len(p)
      <3>1. e.clust = 0 /\ e.size = 0 BY <2>1
      <3>2. PICK p : p = << >> OBVIOUS
      <3>3. Walk(V.fat, e.clust, p) /\ Len(p) = 0 BY <3>2, EmptyWalk
      <3>4. e.size <= Units * Len(p) BY <3>1, <3>3, FatAssumption
      <3> QED BY <3>1, <3>3, <3>4
    <2> QED BY <2>1 DEF Covered
  <1>4. e # None => e.clust \in Starts /\ Claimable(Plain(V), n, e.clust) BY DEF Starts, Claimable
  <1>5. PICK U : /\ Leads(<<DirStep(n, e)>>, V, U, o) /\ Sound(U, o)
                 /\ Except(V, U, n) /\ U.saved = V.saved /\ U.dir = [V.dir EXCEPT ![n] = e] /\ U.dir[n] = e
    BY <1>3, <1>4, DirLeads
  <1>6. U.fat = V.fat /\ U.fil = V.fil BY <1>5 DEF Except
  <1>7. ASSUME c \in Clusters PROVE Alone(U.fat, c) /\ Unclaimed(Plain(U), c)
    <2>1. Claims(Plain(V), n, c) /\ n \in Owners BY <1>1, <1>2 DEF Claims, Owners
    <2>2. Alone(V.fat, c) /\ \A m \in Owners : Claims(Plain(V), m, c) => m = n BY <1>2, <1>7, <2>1 DEF Sane, Apart
    <2>3. Plain(U).dir = U.dir /\ Plain(U).fil = U.fil BY PlainFields
    <2>4. ASSUME NEW m \in Owners, Claims(Plain(U), m, c) PROVE FALSE
      <3>1. CASE m = n
        <4>1. \A t \in Tasks : Plain(U).fil[t].name # m BY <1>6, <2>3, <3>1
        <4>2. c # 0 BY <1>7, ClusterNumbers
        <4>3. Plain(U).dir[m] # None => Plain(U).dir[m].clust = 0 BY <1>5, <2>3, <3>1
        <4> QED BY <2>4, <4>1, <4>2, <4>3 DEF Claims
      <3>2. CASE m # n
        <4>1. m \in Names => U.dir[m] = V.dir[m] BY <1>5, <3>2 DEF Except
        <4>2. Claims(Plain(V), m, c) BY <1>2, <1>6, <2>3, <2>4, <4>1 DEF Claims
        <4> QED BY <2>2, <3>2, <4>2
      <3> QED BY <3>1, <3>2
    <2> QED BY <1>6, <2>2, <2>4 DEF Unclaimed
  <1>8. PICK W : Leads(RemoveChain(c), U, W, o) /\ Sound(W, o) /\ Beyond(U, W)
    BY <1>5, <1>6, <1>7, RemoveLeads
  <1>9. Leads(<<DirStep(n, e)>> \o RemoveChain(c), V, W, o) BY <1>5, <1>8, LeadsJoin
  <1> QED BY <1>1, <1>5, <1>6, <1>8, <1>9 DEF Beyond

LEMMA UnlinkData ==
  ASSUME Exclusive, FatIInv, DataInv, NEW t \in Tasks, NEW n \in Names, f_unlink(t, n) PROVE DataInv'
  <1>1. /\ dir[n] # None /\ (\A u \in Tasks : fil[u].name # n) /\ UNCHANGED fil /\ Forget({n})
        /\ Enter(t, "end", 0, FollowPath(n) \o UnlinkSteps(n))
    BY DEF f_unlink, IsOpen
  <1>2. PICK o : o = [task |-> t, kind |-> "end", left |-> 0] OBVIOUS
  <1>3. PICK c : c = dir[n].clust OBVIOUS
  <1>4. PICK steps : steps = FollowPath(n) \o UnlinkSteps(n) OBVIOUS
  <1>5. UnlinkSteps(n) = (<<DirStep(n, None)>> \o RemoveChain(c)) \o <<FlushStep>> BY <1>3 DEF UnlinkSteps, dir_remove
  <1>6. ASSUME NEW V, V = Now', Sound(V, o), ~ renameCut PROVE Follows(steps, V, o)
    <2>1. UNCHANGED <<fat, dir, fil>> BY <1>1 DEF Enter, window
    <2>2. V.fat = fat /\ V.dir = dir /\ V.fil = fil /\ V.saved = saved' BY <1>6, <2>1 DEF Now
    <2>3. V.saved[n] = None BY <1>1, <2>2 DEF Forget
    <2>4. o.kind \notin {"write", "seek", "last"} BY <1>2
    <2>5. Leads(FollowPath(n), V, V, o) BY <1>6, FollowStill, LeadsStill DEF Sound
    <2>6. PICK W : Leads(<<DirStep(n, None)>> \o RemoveChain(c), V, W, o) /\ Sound(W, o)
      <3>1. PICK none : none = None OBVIOUS
      <3>2. none # None => none = [clust |-> 0, size |-> 0] BY <3>1
      <3>3. \E W : /\ Leads(<<DirStep(n, none)>> \o RemoveChain(V.dir[n].clust), V, W, o) /\ Sound(W, o)
                   /\ W.fil = V.fil /\ W.saved = V.saved /\ W.dir[n] = none
        BY <1>1, <1>6, <2>2, <2>3, <3>2, ReleaseLeads
      <3> QED BY <1>3, <2>2, <3>1, <3>3
    <2>7. Leads(<<FlushStep>>, W, W, o)
      <3>1. StillList(<<FlushStep>>) BY StillSteps, StillOne
      <3>2. Safe(W, o, FALSE) BY <2>6 DEF Sound
      <3> QED BY ONLY <3>1, <3>2, LeadsStill
    <2>8. Leads((<<DirStep(n, None)>> \o RemoveChain(c)) \o <<FlushStep>>, V, W, o) BY <2>6, <2>7, LeadsJoin
    <2>9. Leads(UnlinkSteps(n), V, W, o) BY <1>5, <2>8
    <2>10. Leads(steps, V, W, o) BY <1>4, <2>5, <2>9, LeadsJoin
    <2> QED BY <2>4, <2>10, EndsElse DEF Follows
  <1>7. Settled(steps)
    <2>1. Settled(FollowPath(n)) BY FollowStill, SettledStill
    <2>2. Settled(<<DirStep(n, None)>>) BY SettledOne, SettledSteps
    <2>3. Settled(<<FlushStep>>) BY SettledOne, SettledSteps
    <2>4. Settled(<<DirStep(n, None)>> \o RemoveChain(c)) BY <2>2, SettledRemove, SettledJoin
    <2>5. Settled((<<DirStep(n, None)>> \o RemoveChain(c)) \o <<FlushStep>>) BY <2>3, <2>4, SettledJoin
    <2>6. Settled(UnlinkSteps(n)) BY <1>5, <2>5
    <2> QED BY <1>4, <2>1, <2>6, SettledJoin
  <1>8. Enter(t, "end", 0, steps) BY <1>1, <1>4
  <1>9. UNCHANGED saved \/ \E ns : Forget(ns) BY <1>1
  <1> QED BY <1>1, <1>2, <1>6, <1>7, <1>8, <1>9, EnterData

\* A file as f_open() leaves it.
NewFile(f, n, s, size, text) ==
    /\ DOMAIN f = DOMAIN Closed
    /\ f.name = n /\ ~ f.err /\ ~ f.dirty /\ f.sclust = s /\ f.clust = 0 /\ f.fptr = 0 /\ f.fsize = size
    /\ f.dsect = 0 /\ f.buf = NoData /\ f.text = text

\* A new file is empty, and an old one has what is under its name.
LEMMA NewFine ==
  ASSUME NEW V, NEW f, NEW n \in Names, NEW s, NEW size \in Nat, NEW text, NewFile(f, n, s, size, text),
         IsList(text), Len(text) = size, NEW p, Walk(V.fat, s, p), size <= Units * Len(p),
         Match(text, p, V.data), V.dir[n] # None, V.dir[n].clust = s, V.dir[n].size = size,
         V.saved[n] # None => \A i \in 1 .. Len(V.saved[n]) : V.saved[n][i] \in {Unknown, text[i]}
  PROVE  Fine(V, f, p) /\ Rest(f, p)
  <1>1. Units \in Nat \ {0} BY FatAssumption
  <1>2. DOMAIN f.buf = 1 .. Units BY DEF NewFile, NoData
  <1>3. Sectors(V.data, f) = V.data BY DEF NewFile, Sectors
  <1>4. Fine(V, f, p) BY <1>2, <1>3 DEF Fine, NewFile
  <1>5. (0 % Units) = 0
    <2>1. 0 \in Nat /\ 0 \in 0 .. Units - 1 /\ 0 = Units * 0 + 0 BY <1>1
    <2> QED BY <2>1, Quotient
  <1>6. Len(p) \in Nat BY WalkLength
  <1>7. 0 <= Units * Len(p) BY <1>1, <1>6
  <1>8. Placed(f, p) BY <1>5, <1>7 DEF Placed, NewFile
  <1> QED BY <1>4, <1>8 DEF Rest, NewFile

LEMMA NewLeads ==
  ASSUME NEW V, NEW o, Sound(V, o), NEW t \in Tasks, ~ Busy(o, t), NEW f, NEW p, Fine(V, f, p), Rest(f, p),
         Fits(Plain(V), f), \A u \in Tasks : u # t => V.fil[u].name # f.name
  PROVE  \E W : Leads(<<FilStep(t, f)>>, V, W, o)
  <1>1. Opened(V, o, t, f) BY DEF Opened
  <1>2. \E W : Leads(<<FilStep(t, f)>>, V, W, o) /\ Gives(V, W, o, t, f) BY <1>1, FilLeads
  <1> QED BY <1>2

\* The steps of f_open() up to the one that opens the file.
Creates(steps, n, new) ==
    steps = IF dir[n] = None \/ dir[n].clust = 0 THEN <<DirStep(n, new)>>
            ELSE <<DirStep(n, new)>> \o RemoveChain(dir[n].clust)
                 \o <<LastStep(dir[n].clust - 1), LookStep(DirSector(n))>>

LEMMA StillTwo == ASSUME NEW a, Still(a), NEW b, Still(b) PROVE StillList(<<a, b>>)
  <1>1. StillList(<<a>>) /\ StillList(<<b>>) BY StillOne
  <1>2. StillList(<<a>> \o <<b>>) BY <1>1, StillJoin
  <1>3. PICK q : q = <<a, b>> OBVIOUS
  <1>4. PICK r : r = <<a>> \o <<b>> OBVIOUS
  <1>5. q = r BY <1>3, <1>4, TwoSteps
  <1> QED BY ONLY <1>2, <1>3, <1>4, <1>5

LEMMA CreateSettled == ASSUME NEW n, NEW new, NEW steps, Creates(steps, n, new) PROVE Settled(steps)
  <1>1. Settled(<<DirStep(n, new)>>) BY SettledOne, SettledSteps
  <1>2. CASE dir[n] = None \/ dir[n].clust = 0 BY <1>1, <1>2 DEF Creates
  <1>3. CASE ~ (dir[n] = None \/ dir[n].clust = 0)
    <2>1. PICK c : c = dir[n].clust OBVIOUS
    <2>2. PICK a : a = LastStep(c - 1) OBVIOUS
    <2>3. PICK b : b = LookStep(DirSector(n)) OBVIOUS
    <2>4. steps = (<<DirStep(n, new)>> \o RemoveChain(c)) \o <<a, b>> BY <1>3, <2>1, <2>2, <2>3 DEF Creates
    <2>5. Still(a) /\ Still(b) BY <2>2, <2>3, StillSteps
    <2>6. Settled(<<a, b>>) BY <2>5, StillTwo, SettledStill
    <2>7. Settled(<<DirStep(n, new)>> \o RemoveChain(c)) BY <1>1, SettledRemove, SettledJoin
    <2> QED BY <2>4, <2>6, <2>7, SettledJoin
  <1> QED BY <1>2, <1>3

LEMMA CreateOpen ==
  ASSUME NEW V, NEW o, Sound(V, o), V.fat = fat, V.dir = dir, NEW n \in Names,
         \A u \in Tasks : V.fil[u].name # n, V.saved[n] = None,
         NEW new, new = [clust |-> 0, size |-> 0], NEW steps, Creates(steps, n, new)
  PROVE  \E W : Leads(steps, V, W, o) /\ Sound(W, o) /\ W.fil = V.fil /\ W.saved = V.saved /\ W.dir[n] = new
  <1>2. CASE dir[n] = None \/ dir[n].clust = 0
    <2>1. steps = <<DirStep(n, new)>> BY <1>2 DEF Creates
    <2>2. Covered(V, new)
      <3>1. PICK p : p = << >> OBVIOUS
      <3>2. Walk(V.fat, new.clust, p) /\ Len(p) = 0 BY <3>1, EmptyWalk
      <3>3. new.size <= Units * Len(p) /\ new.size \in Nat BY <3>2, FatAssumption
      <3> QED BY <3>2, <3>3 DEF Covered
    <2>3. new # None => new.clust \in Starts /\ Claimable(Plain(V), n, new.clust) BY DEF Starts, Claimable
    <2>4. PICK W : /\ Leads(<<DirStep(n, new)>>, V, W, o) /\ Sound(W, o)
                   /\ Except(V, W, n) /\ W.saved = V.saved /\ W.dir = [V.dir EXCEPT ![n] = new] /\ W.dir[n] = new
      BY <2>2, <2>3, DirLeads
    <2> QED BY <2>1, <2>4 DEF Except
  <1>3. CASE ~ (dir[n] = None \/ dir[n].clust = 0)
    <2>1. PICK c : c = dir[n].clust OBVIOUS
    <2>2. PICK a : a = LastStep(c - 1) OBVIOUS
    <2>3. PICK b : b = LookStep(DirSector(n)) OBVIOUS
    <2>4. steps = (<<DirStep(n, new)>> \o RemoveChain(c)) \o <<a, b>> BY <1>3, <2>1, <2>2, <2>3 DEF Creates
    <2>5. PICK W : /\ Leads(<<DirStep(n, new)>> \o RemoveChain(c), V, W, o) /\ Sound(W, o)
                   /\ W.fil = V.fil /\ W.saved = V.saved /\ W.dir[n] = new
      <3>1. new # None => new = [clust |-> 0, size |-> 0] OBVIOUS
      <3>2. V.dir[n] # None BY <1>3
      <3>3. \E W : /\ Leads(<<DirStep(n, new)>> \o RemoveChain(V.dir[n].clust), V, W, o) /\ Sound(W, o)
                   /\ W.fil = V.fil /\ W.saved = V.saved /\ W.dir[n] = new
        BY <3>1, <3>2, ReleaseLeads
      <3>4. V.dir[n].clust = c BY <2>1
      <3> QED BY <3>3, <3>4
    <2>6. Still(a) /\ Still(b) BY <2>2, <2>3, StillSteps
    <2>7. StillList(<<a, b>>) BY <2>6, StillTwo
    <2>8. Leads(<<a, b>>, W, W, o)
      <3>1. Safe(W, o, FALSE) BY <2>5 DEF Sound
      <3> QED BY ONLY <2>7, <3>1, LeadsStill
    <2>9. Leads(steps, V, W, o) BY <2>4, <2>5, <2>8, LeadsJoin
    <2> QED BY <2>5, <2>9
  <1> QED BY <1>2, <1>3

\* The file that f_open() opens on the volume W.
Opens(W, f) == Fits(Plain(W), f) /\ \E p : Fine(W, f, p) /\ Rest(f, p)

LEMMA OpenNew ==
  ASSUME NEW V, NEW o, Sound(V, o), V.fat = fat, V.dir = dir, NEW n \in Names,
         \A u \in Tasks : V.fil[u].name # n, V.saved[n] = None,
         NEW new, new = [clust |-> 0, size |-> 0], NEW steps, Creates(steps, n, new),
         NEW f, NEW text, text = << >>, NEW s, s = 0, NewFile(f, n, s, s, text)
  PROVE  \E W : Leads(steps, V, W, o) /\ Sound(W, o) /\ W.fil = V.fil /\ Opens(W, f)
  <1>1. PICK W : Leads(steps, V, W, o) /\ Sound(W, o) /\ W.fil = V.fil /\ W.saved = V.saved /\ W.dir[n] = new
    BY CreateOpen
  <1>2. PICK p : p = << >> OBVIOUS
  <1>3. Walk(W.fat, s, p) /\ Len(p) = 0 BY <1>2, EmptyWalk
  <1>4. IsList(text) /\ Len(text) = s BY NoList
  <1>5. s \in Nat /\ s <= Units * Len(p) BY <1>3, FatAssumption
  <1>6. Match(text, p, W.data) BY <1>4 DEF Match
  <1>7. W.dir[n] # None /\ W.dir[n].clust = s /\ W.dir[n].size = s
    <2>1. new \in Entries BY DEF Entries
    <2> QED BY <1>1, <2>1, FatAssumption
  <1>8. W.saved[n] # None => \A i \in 1 .. Len(W.saved[n]) : W.saved[n][i] \in {Unknown, text[i]} BY <1>1
  <1>9. Fine(W, f, p) /\ Rest(f, p) BY <1>3, <1>4, <1>5, <1>6, <1>7, <1>8, NewFine
  <1>10. FileOK(f) BY DEF NewFile, FileOK, Owners, Starts
  <1>11. Fits(Plain(W), f) BY <1>1, <1>10 DEF Fits, Sound, Claimable, NewFile
  <1> QED BY <1>1, <1>9, <1>11 DEF Opens

LEMMA OpenOld ==
  ASSUME NEW V, NEW o, Sound(V, o), NEW n \in Names, V.dir[n] # None,
         NEW s, s = V.dir[n].clust, NEW size, size = V.dir[n].size,
         NEW d, d.fat = V.fat, d.dir = V.dir, d.data = V.data, NEW text, text = Content(d, n),
         NEW f, NewFile(f, n, s, size, text)
  PROVE  Opens(V, f)
  <1>1. StoreOf(V, n) /\ Formed(V) /\ Sane(Plain(V)) BY DEF Sound, Safe
  <1>2. PICK p : Walk(V.fat, s, p) /\ size <= Units * Len(p) BY <1>1 DEF StoreOf
  <1>3. size \in Nat BY <1>1 DEF StoreOf
  <1>4. Walk(d.fat, d.dir[n].clust, p) /\ size = d.dir[n].size BY <1>2
  <1>5. IsList(text) /\ Len(text) = size /\ \A i \in 1 .. size : i <= Units * Len(p) => text[i] = V.data[p[At(i)]][In(i)]
    <2>0. size = d.dir[n].size /\ size \in Nat BY <1>3
    <2>1. /\ IsList(Content(d, n)) /\ Len(Content(d, n)) = size
          /\ \A i \in 1 .. size : i <= Units * Len(p) => Content(d, n)[i] = d.data[p[At(i)]][In(i)]
      <3>1. Walk(d.fat, d.dir[n].clust, p) BY <1>4
      <3>2. IsList(Content(d, n)) /\ Len(Content(d, n)) = size BY ONLY <2>0, <3>1, ContentAt
      <3>3. \A i \in 1 .. size : i <= Units * Len(p) => Content(d, n)[i] = d.data[p[At(i)]][In(i)]
        BY ONLY <2>0, <3>1, ContentAt
      <3> QED BY <3>2, <3>3
    <2>2. text = Content(d, n) /\ d.data = V.data OBVIOUS
    <2> QED BY ONLY <2>1, <2>2
  <1>6. Len(p) \in Nat /\ Units * Len(p) \in Nat
    <2>1. Len(p) \in Nat BY <1>2, WalkLength
    <2> QED BY <2>1, FatAssumption
  <1>7. Match(text, p, V.data)
    <2>1. \A i \in 1 .. size : i <= Units * Len(p) BY <1>2, <1>3, <1>6
    <2> QED BY <1>5, <2>1 DEF Match
  <1>8. ASSUME V.saved[n] # None PROVE \A i \in 1 .. Len(V.saved[n]) : V.saved[n][i] \in {Unknown, text[i]}
    <2>1. PICK q : Holds(V, n, q) BY <1>1, <1>8 DEF StoreOf
    <2>2. PICK m : m = Len(V.saved[n]) OBVIOUS
    <2>3. m \in Nat /\ m <= size BY <1>1, <1>8, <2>2, ListLength DEF StoreOf
    <2>4. Walk(d.fat, d.dir[n].clust, q) /\ m <= Units * Len(q) /\ Match(V.saved[n], q, V.data) BY <2>1, <2>2 DEF Holds
    <2>5. \A i \in 1 .. size : i <= Units * Len(q) => text[i] = V.data[q[At(i)]][In(i)]
      <3>1. size \in Nat /\ size = d.dir[n].size BY <1>3
      <3>2. Walk(d.fat, d.dir[n].clust, q) BY <2>4
      <3>3. \A i \in 1 .. size : i <= Units * Len(q) => Content(d, n)[i] = d.data[q[At(i)]][In(i)]
        BY ONLY <3>1, <3>2, ContentAt
      <3>4. text = Content(d, n) /\ d.data = V.data OBVIOUS
      <3> QED BY ONLY <3>3, <3>4
    <2>6. Len(q) \in Nat /\ Units * Len(q) \in Nat
      <3>1. Len(q) \in Nat BY <2>4, WalkLength
      <3> QED BY <3>1, FatAssumption
    <2>7. \A i \in 1 .. m : i \in 1 .. size /\ i <= Units * Len(q) BY <1>3, <2>3, <2>4, <2>6
    <2> QED BY <2>2, <2>4, <2>5, <2>7 DEF Match
  <1>9. Fine(V, f, p) /\ Rest(f, p)
    <2>1. V.saved[n] # None => \A i \in 1 .. Len(V.saved[n]) : V.saved[n][i] \in {Unknown, text[i]} BY <1>8
    <2>2. V.dir[n].clust = s /\ V.dir[n].size = size OBVIOUS
    <2> QED BY <1>2, <1>3, <1>5, <1>7, <2>1, <2>2, NewFine
  <1>10. Plain(V).dir = V.dir /\ Plain(V).fil = V.fil BY PlainFields
  <1>11. s \in Starts BY <1>1, <1>10 DEF Sane, Shape
  <1>12. FileOK(f) BY <1>11 DEF NewFile, FileOK, Owners, Starts
  <1>13. Claims(Plain(V), n, s) BY <1>10 DEF Claims
  <1>14. Claimable(Plain(V), n, s) BY <1>1, <1>11, <1>13, ClaimedClaimable DEF Owners
  <1>15. Fits(Plain(V), f) BY <1>1, <1>12, <1>14 DEF Fits, NewFile
  <1> QED BY <1>9, <1>15 DEF Opens

LEMMA OpenData ==
  ASSUME Exclusive, FatIInv, DataInv, NEW t \in Tasks, NEW n \in Names, NEW keep \in BOOLEAN, f_open(t, n, keep)
  PROVE  DataInv'
  <1> DEFINE new == [clust |-> 0, size |-> 0]
             cl == dir[n].clust
             created == dir[n] = None \/ ~ keep
             entry == IF created THEN new ELSE dir[n]
             text == IF created THEN << >> ELSE Content([disk EXCEPT !.fat = fat, !.dir = dir], n)
             create == IF dir[n] = None THEN <<dir_register(n, new)>>
                       ELSE IF keep THEN << >>
                       ELSE IF cl = 0 THEN <<DirStep(n, new)>>
                       ELSE <<DirStep(n, new)>> \o RemoveChain(cl) \o <<LastStep(cl - 1), LookStep(DirSector(n))>>
             file == [Closed EXCEPT !.name = n, !.written = created,
                                    !.sclust = entry.clust, !.fsize = entry.size, !.text = text]
  <1>1. /\ Enter(t, "end", 0, FollowPath(n) \o create \o <<FilStep(t, file)>>) /\ UNCHANGED fil
        /\ \A u \in Tasks : fil[u].name # n
        /\ IF created THEN Forget({n}) ELSE UNCHANGED saved
    BY DEF f_open, IsOpen
  <1>2. PICK f : f = file OBVIOUS
  <1>3. PICK pre : pre = create OBVIOUS
  <1>4. PICK e : e = entry OBVIOUS
  <1>5. PICK txt : txt = text OBVIOUS
  <1>6. PICK d : d = [disk EXCEPT !.fat = fat, !.dir = dir] OBVIOUS
  <1>7. PICK made : made = created OBVIOUS
  <1>8. PICK nil : nil = [clust |-> 0, size |-> 0] OBVIOUS
  <1>9. f = [Closed EXCEPT !.name = n, !.written = made, !.sclust = e.clust, !.fsize = e.size, !.text = txt]
    BY ONLY <1>2, <1>4, <1>5, <1>7
  <1>10. NewFile(f, n, e.clust, e.size, txt) BY <1>9 DEF NewFile, Closed
  <1>11. made => e = nil /\ txt = << >> /\ Creates(pre, n, nil)
    BY <1>3, <1>4, <1>5, <1>7, <1>8 DEF Creates, dir_register
  <1>12. ~ made => e = dir[n] /\ dir[n] # None /\ txt = Content(d, n) /\ pre = << >>
    BY <1>3, <1>4, <1>5, <1>6, <1>7
  <1>13. PICK steps : steps = (FollowPath(n) \o pre) \o <<FilStep(t, f)>> OBVIOUS
  <1>14. /\ Enter(t, "end", 0, steps) /\ UNCHANGED fil
         /\ made => Forget({n})
         /\ ~ made => UNCHANGED saved
    BY ONLY <1>1, <1>2, <1>3, <1>7, <1>13
  <1>15. PICK o : o = [task |-> t, kind |-> "end", left |-> 0] OBVIOUS
  <1>16. o.kind \notin {"write", "seek", "last"} BY <1>15
  <1> HIDE DEF new, cl, created, entry, text, create, file
  <1>17. UNCHANGED <<disk, fat, dir, fil>> BY <1>14 DEF Enter, window
  <1>18. Settled(steps)
    <2>1. Settled(FollowPath(n)) BY FollowStill, SettledStill
    <2>2. Settled(pre) BY <1>11, <1>12, CreateSettled, SettledNone
    <2>3. Settled(<<FilStep(t, f)>>) BY SettledOne, SettledSteps
    <2>4. Settled(FollowPath(n) \o pre) BY <2>1, <2>2, SettledJoin
    <2> QED BY <1>13, <2>3, <2>4, SettledJoin
  <1>19. ASSUME NEW V, V = Now', Sound(V, o), ~ renameCut PROVE Follows(steps, V, o)
    <2>1. V.fat = fat /\ V.dir = dir /\ V.fil = fil /\ V.data = disk.data /\ V.saved = saved' BY <1>17, <1>19 DEF Now
    <2>2. PICK W : Leads(pre, V, W, o) /\ Sound(W, o) /\ W.fil = V.fil /\ Opens(W, f)
      <3>1. CASE made
        <4>1. PICK s : s = 0 OBVIOUS
        <4>2. V.saved[n] = None BY <1>14, <2>1, <3>1 DEF Forget
        <4>3. NewFile(f, n, s, s, txt) BY <1>8, <1>10, <1>11, <3>1, <4>1
        <4>4. \A u \in Tasks : V.fil[u].name # n BY <1>1, <2>1
        <4>5. txt = << >> /\ Creates(pre, n, nil) BY <1>11, <3>1
        <4> QED BY <1>8, <1>19, <2>1, <4>1, <4>2, <4>3, <4>4, <4>5, OpenNew
      <3>2. CASE ~ made
        <4>1. PICK s : s = e.clust OBVIOUS
        <4>2. PICK size : size = e.size OBVIOUS
        <4>3. V.dir[n] # None /\ s = V.dir[n].clust /\ size = V.dir[n].size BY <1>12, <2>1, <3>2, <4>1, <4>2
        <4>4. d.fat = V.fat /\ d.dir = V.dir /\ d.data = V.data BY <1>6, <2>1 DEF FatIInv
        <4>5. NewFile(f, n, s, size, txt) /\ txt = Content(d, n) BY <1>10, <1>12, <3>2, <4>1, <4>2
        <4>6. Opens(V, f) BY <1>19, <4>3, <4>4, <4>5, OpenOld
        <4>7. Leads(<< >>, V, V, o) BY <1>19, LeadsNone DEF Sound
        <4> QED BY <1>12, <1>19, <3>2, <4>6, <4>7
      <3> QED BY <3>1, <3>2
    <2>3. Leads(FollowPath(n), V, V, o) BY <1>19, FollowStill, LeadsStill DEF Sound
    <2>4. PICK p : Fine(W, f, p) /\ Rest(f, p) BY <2>2 DEF Opens
    <2>5. Fits(Plain(W), f) BY <2>2 DEF Opens
    <2>6. f.name = n BY <1>10 DEF NewFile
    <2>7. \A u \in Tasks : u # t => W.fil[u].name # f.name BY <1>1, <2>1, <2>2, <2>6
    <2>8. ~ Busy(o, t) BY <1>16, EndsElse
    <2>9. PICK X : Leads(<<FilStep(t, f)>>, W, X, o) BY <2>2, <2>4, <2>5, <2>7, <2>8, NewLeads
    <2>10. Leads(FollowPath(n) \o pre, V, W, o) BY <2>2, <2>3, LeadsJoin
    <2>11. Leads(steps, V, X, o) BY <1>13, <2>9, <2>10, LeadsJoin
    <2> QED BY <1>16, <2>11, EndsElse DEF Follows
  <1>20. UNCHANGED saved \/ \E ns : Forget(ns) BY <1>14
  <1> QED BY <1>14, <1>15, <1>18, <1>19, <1>20, EnterData

\* The volume through the steps of f_rename().
LEMMA RenameLeads ==
  ASSUME NEW V, NEW o, Sound(V, o), NEW old \in Names, NEW new \in Names, V.dir[old] # None, V.dir[new] = None,
         V.saved[old] = None, V.saved[new] = None, \A t \in Tasks : V.fil[t].name # old,
         NEW e, e = V.dir[old], NEW a, a = DirStep(new, e), NEW b, b = DirStep(old, None),
         NEW text, text # None => IsList(text) /\ Len(text) <= e.size,
         text # None => \E p : Walk(V.fat, e.clust, p) /\ Len(text) <= Units * Len(p) /\ Match(text, p, V.data),
         NEW x, x = SavedStep(new, text)
  PROVE  \E W : Leads(<<a, b, FlushStep, x>>, V, W, o)
  <1>1. Safe(V, o, FALSE) /\ Formed(V) /\ StoreOf(V, old) /\ old # new BY DEF Sound, Safe
  <1>2. \A t \in Tasks : V.fil[t].name # new
    <2>1. ASSUME NEW t \in Tasks, V.fil[t].name = new PROVE FALSE
      <3>1. FileOf(V, o, t, FALSE) /\ V.fil[t].name # None BY <1>1, <2>1, FatAssumption DEF Safe
      <3>2. PICK p : Fine(V, V.fil[t], p) BY <3>1 DEF FileOf
      <3> QED BY <2>1, <3>2 DEF Fine
    <2> QED BY <2>1
  <1>3. Covered(V, e) BY <1>1 DEF Covered, StoreOf
  <1>4. PICK A : A = Redir(V, new, e) OBVIOUS
  <1>5. Safe(A, o, FALSE) /\ Kept(V, A) BY <1>1, <1>2, <1>3, <1>4, DirSafe
  <1>6. /\ Except(V, A, new) /\ A.saved = V.saved /\ A.dir = [V.dir EXCEPT ![new] = e] /\ A.dir[new] = e
    BY ONLY <1>1, <1>4, RedirExcept
  <1>7. A = Take(V, a) BY <1>4, DirTake
  <1>8. Leads(<<a>>, V, A, o) BY <1>1, <1>5, <1>7, LeadsOne
  <1>9. PICK none : none = None OBVIOUS
  <1>10. PICK B : B = Redir(A, old, none) OBVIOUS
  <1>11. A.fat = V.fat /\ A.fil = V.fil /\ A.data = V.data /\ Formed(A) BY <1>6 DEF Except
  <1>12. Covered(A, none) BY <1>9 DEF Covered
  <1>13. Safe(B, o, FALSE) /\ Kept(A, B)
    <2>1. A.saved[old] = None /\ \A t \in Tasks : A.fil[t].name # old BY <1>6, <1>11
    <2> QED BY <1>5, <1>10, <1>12, <2>1, DirSafe
  <1>14. Except(A, B, old) /\ B.saved = A.saved /\ B.dir = [A.dir EXCEPT ![old] = none] /\ B.dir[old] = none
    BY ONLY <1>10, <1>11, RedirExcept
  <1>15. B = Take(A, b) BY <1>9, <1>10, DirTake
  <1>16. Leads(<<b>>, A, B, o) BY <1>5, <1>13, <1>15, LeadsOne
  <1>17. Leads(<<FlushStep>>, B, B, o)
    <2>1. StillList(<<FlushStep>>) BY StillSteps, StillOne
    <2> QED BY ONLY <1>13, <2>1, LeadsStill
  <1>18. B.fat = V.fat /\ B.fil = V.fil /\ B.data = V.data /\ Formed(B) /\ B.dir[new] = e /\ B.saved[new] = None
    BY <1>1, <1>6, <1>11, <1>14 DEF Except
  <1>19. PICK D : D = Resave(B, new, text) OBVIOUS
  <1>20. Except(B, D, new) /\ D.dir = B.dir /\ D.saved = [B.saved EXCEPT ![new] = text] /\ D.saved[new] = text
    BY ONLY <1>18, <1>19, ResaveExcept
  <1>21. D.fat = V.fat /\ D.data = V.data /\ D.dir[new] = e BY <1>18, <1>20 DEF Except
  <1>22. StoreOf(D, new)
    <2>1. e.size \in Nat /\ \E p : Walk(D.fat, e.clust, p) /\ e.size <= Units * Len(p) BY <1>1, <1>21 DEF StoreOf
    <2>2. ASSUME text # None PROVE IsList(text) /\ Len(text) <= e.size /\ \E p : Holds(D, new, p)
      <3>1. PICK p : Walk(V.fat, e.clust, p) /\ Len(text) <= Units * Len(p) /\ Match(text, p, V.data) BY <2>2
      <3>2. Holds(D, new, p) BY <1>20, <1>21, <3>1 DEF Holds
      <3> QED BY <2>2, <3>2
    <2>3. e # None OBVIOUS
    <2> QED BY ONLY <1>20, <1>21, <2>1, <2>2, <2>3 DEF StoreOf
  <1>23. KeptOf(B, D, new) BY <1>18 DEF KeptOf
  <1>24. \A t \in Tasks : B.fil[t].name = new => \A p : Fine(B, B.fil[t], p) => Fine(D, B.fil[t], p)
    BY <1>2, <1>18
  <1>25. Except(B, D, new) BY <1>20
  <1>26. Safe(D, o, FALSE) /\ Kept(B, D) BY <1>13, <1>22, <1>23, <1>24, <1>25, NameSafe
  <1>27. D = Take(B, x) BY <1>19, SavedTake
  <1>28. Leads(<<x>>, B, D, o) BY <1>13, <1>26, <1>27, LeadsOne
  <1> QED BY ONLY <1>8, <1>16, <1>17, <1>28, LeadsFour

LEMMA SettledFlushed ==
  ASSUME NEW a, a.do # "saved", NEW b, b.do # "saved", NEW x PROVE Settled(<<a, b, FlushStep, x>>)
  <1>1. PICK c : c = FlushStep OBVIOUS
  <1>2. PICK q : q = <<a, b, c, x>> OBVIOUS
  <1>3. c.do = "flush" /\ c.do # "saved" BY <1>1 DEF FlushStep
  <1>4. q \in Seq({a, b, c, x}) /\ Len(q) = 4 /\ q[1] = a /\ q[2] = b /\ q[3] = c /\ q[4] = x BY <1>2
  <1>5. \A i \in 1 .. 4 : i = 1 \/ i = 2 \/ i = 3 \/ (i = 4 /\ i - 1 = 3) OBVIOUS
  <1>6. ASSUME NEW i \in 1 .. 4, q[i].do = "saved" PROVE i # 1 /\ q[i - 1].do = "flush"
    <2>1. i = 4 /\ i - 1 = 3 BY <1>3, <1>4, <1>5, <1>6
    <2> QED BY <1>3, <1>4, <2>1
  <1>7. Settled(q) BY <1>4, <1>6 DEF Settled, SavedAfter, IsList
  <1> QED BY <1>1, <1>2, <1>7

LEMMA RenameData ==
  ASSUME Exclusive, FatIInv, DataInv, NEW t \in Tasks, NEW old \in Names, NEW new \in Names, f_rename(t, old, new)
  PROVE  DataInv'
  <1>1. PICK a : a = dir_register(new, dir[old]) OBVIOUS
  <1>2. PICK b : b = dir_remove(old) OBVIOUS
  <1>3. PICK text : text = saved[old] OBVIOUS
  <1>4. PICK x : x = SavedStep(new, text) OBVIOUS
  <1>5. PICK looks : looks = FollowPath(old) \o FollowPath(new) OBVIOUS
  <1>6. PICK last : last = <<a, b, FlushStep, x>> OBVIOUS
  <1>7. PICK steps : steps = looks \o last OBVIOUS
  <1>8. /\ dir[old] # None /\ dir[new] = None /\ \A u \in Tasks : fil[u].name # old
        /\ Enter(t, "rename", 0, looks \o <<a, b, FlushStep, x>>) /\ UNCHANGED fil /\ Forget({old, new})
    BY <1>1, <1>2, <1>3, <1>4, <1>5 DEF f_rename, IsOpen
  <1>9. Enter(t, "rename", 0, steps) BY <1>6, <1>7, <1>8
  <1>10. PICK o : o = [task |-> t, kind |-> "rename", left |-> 0] OBVIOUS
  <1>11. o.kind \notin {"write", "seek", "last"} BY <1>10
  <1>12. op = NoOp /\ UNCHANGED <<disk, fat, dir, fil>> BY <1>8, <1>9 DEF Enter, window
  <1>13. StillList(looks) BY <1>5, FollowStill, StillJoin
  <1>14. Settled(steps)
    <2>1. a.do # "saved" /\ b.do # "saved" BY <1>1, <1>2, SettledSteps DEF dir_register, dir_remove
    <2>2. Settled(last) BY <1>6, <2>1, SettledFlushed
    <2> QED BY <1>7, <1>13, <2>2, SettledStill, SettledJoin
  <1>15. ASSUME NEW V, V = Now', Sound(V, o), ~ renameCut PROVE Follows(steps, V, o)
    <2>1. V.fat = fat /\ V.dir = dir /\ V.fil = fil /\ V.data = disk.data /\ V.saved = saved' BY <1>12, <1>15 DEF Now
    <2>2. V.saved[old] = None /\ V.saved[new] = None BY <1>8, <2>1 DEF Forget
    <2>3. PICK e : e = V.dir[old] OBVIOUS
    <2>4. a = DirStep(new, e) /\ b = DirStep(old, None) BY <1>1, <1>2, <2>1, <2>3 DEF dir_register, dir_remove
    <2>5. PICK U : U = Now OBVIOUS
    <2>6. StoreOf(U, old) BY <1>12, <1>15, <2>5, NowSafe
    <2>7. U.fat = V.fat /\ U.dir = V.dir /\ U.data = V.data /\ U.saved[old] = text BY <1>3, <2>1, <2>5, NowFields
    <2>8. ASSUME text # None
          PROVE  /\ IsList(text) /\ Len(text) <= e.size
                 /\ \E p : Walk(V.fat, e.clust, p) /\ Len(text) <= Units * Len(p) /\ Match(text, p, V.data)
      <3>1. PICK p : Holds(U, old, p) BY <2>6, <2>7, <2>8 DEF StoreOf
      <3>2. Walk(V.fat, e.clust, p) /\ Len(text) <= Units * Len(p) /\ Match(text, p, V.data)
        BY <2>3, <2>7, <3>1 DEF Holds
      <3> QED BY <2>3, <2>6, <2>7, <2>8, <3>2 DEF StoreOf
    <2>9. V.dir[old] # None /\ V.dir[new] = None /\ \A u \in Tasks : V.fil[u].name # old BY <1>8, <2>1
    <2>10. \E W : Leads(<<a, b, FlushStep, x>>, V, W, o)
      BY <1>4, <1>15, <2>2, <2>3, <2>4, <2>8, <2>9, RenameLeads
    <2>11. PICK W : Leads(last, V, W, o) BY <1>6, <2>10
    <2>12. Leads(looks, V, V, o) BY <1>13, <1>15, LeadsStill DEF Sound
    <2>13. Leads(steps, V, W, o) BY <1>7, <2>11, <2>12, LeadsJoin
    <2> QED BY <1>11, <2>13, EndsElse DEF Follows
  <1>16. UNCHANGED saved \/ \E ns : Forget(ns) BY <1>8
  <1> QED BY <1>8, <1>9, <1>10, <1>14, <1>15, <1>16, EnterData

-----------------------------------------------------------------------------
(* The theorem.                                                            *)
LEMMA DataInit == FatInit => DataInv
  <1> SUFFICES ASSUME FatInit PROVE DataInv OBVIOUS
  <1>1. /\ disk \in Volumes /\ fat = disk.fat /\ dir = disk.dir /\ wflag = FALSE
        /\ fil = [t \in Tasks |-> Closed] /\ op = NoOp /\ todo = << >>
        /\ saved = [n \in Names |-> IF disk.dir[n] = None THEN None ELSE Content(disk, n)]
    BY DEF FatInit
  <1>2. Consistent(disk) BY <1>1, FatAssumption
  <1>3. PICK d : d = disk OBVIOUS
  <1>4. PICK V : V = Now OBVIOUS
  <1>5. /\ V.fat = d.fat /\ V.dir = d.dir /\ V.fil = fil /\ V.data = d.data /\ V.saved = saved
        /\ V = [fat |-> V.fat, dir |-> V.dir, fil |-> V.fil, data |-> V.data, saved |-> V.saved]
    BY <1>1, <1>3, <1>4 DEF Now
  <1>6. Formed(V) BY <1>1, <1>2, <1>3, <1>5 DEF Formed, Consistent
  <1>7. ASSUME NEW n \in Names PROVE StoreOf(V, n) /\ StoredOf(d, V, n)
    <2>1. CASE d.dir[n] = None
      <3>1. V.saved[n] = None BY <1>1, <1>3, <1>5, <2>1
      <3> QED BY <1>5, <2>1, <3>1 DEF StoreOf, StoredOf
    <2>2. CASE d.dir[n] # None
      <3>1. PICK s : s = d.dir[n].clust OBVIOUS
      <3>2. PICK m : m = d.dir[n].size OBVIOUS
      <3>3. PICK p : p = Chain(d.fat, s) OBVIOUS
      <3>4. m \in Nat /\ m <= Units * Len(p) /\ s \in Starts /\ (s # 0 => Alone(d.fat, s)) /\ Linked(d.fat)
        BY <1>2, <1>3, <2>2, <3>1, <3>2, <3>3 DEF Consistent, Entries, Starts
      <3>5. Path(d.fat, s, p) BY <3>3, ChainPath
      <3>6. Walk(d.fat, s, p)
        <4>1. s \in Clusters => Alone(d.fat, s) BY <3>4, ClusterNumbers
        <4>2. p \in Seq(Clusters) /\ (p # << >> => p[1] = s) /\ \A i \in 1 .. Len(p) - 1 : d.fat[p[i]] = p[i + 1]
          BY <3>5 DEF Path
        <4> QED BY <3>4, <4>1, <4>2, PathWalk
      <3>7. PICK text : text = Content(d, n) OBVIOUS
      <3>8. IsList(text) /\ Len(text) = m /\ \A i \in 1 .. m : i <= Units * Len(p) => text[i] = d.data[p[At(i)]][In(i)]
        BY <3>1, <3>2, <3>4, <3>6, <3>7, ContentAt
      <3>9. V.saved[n] = text BY <1>1, <1>3, <1>5, <2>2, <3>7
      <3>10. Len(p) \in Nat /\ Units * Len(p) \in Nat
        <4>1. Len(p) \in Nat BY <3>6, WalkLength
        <4> QED BY <4>1, FatAssumption
      <3>11. Match(text, p, V.data)
        <4>1. \A i \in 1 .. m : i <= Units * Len(p) BY <3>4, <3>10
        <4> QED BY <1>5, <3>8, <4>1 DEF Match
      <3>12. Holds(V, n, p) BY <1>5, <3>1, <3>4, <3>6, <3>8, <3>9, <3>11 DEF Holds
      <3>13. Len(V.saved[n]) <= m BY <3>4, <3>8, <3>9
      <3>14. IsList(V.saved[n]) BY <3>8, <3>9
      <3>15. StoreOf(V, n) BY <1>5, <2>2, <3>1, <3>2, <3>4, <3>6, <3>12, <3>13, <3>14 DEF StoreOf
      <3>16. StoredOf(d, V, n) BY <2>2, <3>1, <3>2, <3>4, <3>6, <3>12, <3>13 DEF StoredOf
      <3> QED BY <3>15, <3>16
    <2> QED BY <2>1, <2>2
  <1>8. PICK o : o = NoOp OBVIOUS
  <1>9. \A t \in Tasks : FileOf(V, o, t, FALSE) BY <1>1, <1>5 DEF FileOf, Closed
  <1>10. Safe(V, o, FALSE) BY <1>6, <1>7, <1>9 DEF Safe
  <1>11. o.kind \notin {"write", "seek", "last"} BY <1>8 DEF NoOp
  <1>12. Ends(o, V) BY <1>11, EndsElse
  <1>13. Follows(<< >>, V, o) BY <1>10, <1>12, FollowsNone
  <1>14. SavedAfter(todo, wflag) BY <1>1, SavedNone
  <1> QED BY <1>1, <1>3, <1>4, <1>7, <1>8, <1>13, <1>14 DEF DataInv

LEMMA DataNext == ASSUME Exclusive, FatIInv, DataInv, [FatNext]_fatVars PROVE DataInv'
  <1>1. CASE WriteBack BY <1>1, WriteBackData
  <1>2. CASE TakeStep BY <1>2, TakeStepData
  <1>3. CASE Leave BY <1>3, LeaveData
  <1>4. CASE DiskError BY <1>4, DiskErrorData
  <1>5. CASE PowerLoss BY <1>5, PowerLossData
  <1>6. ASSUME NEW t \in Tasks, WriteOn(t) PROVE DataInv' BY <1>6, WriteOnData
  <1>7. ASSUME NEW t \in Tasks, SeekOn(t) PROVE DataInv' BY <1>7, SeekOnData
  <1>8. ASSUME NEW t \in Tasks, f_sync(t) PROVE DataInv' BY <1>8, SyncData
  <1>9. ASSUME NEW t \in Tasks, f_close(t) PROVE DataInv' BY <1>9, CloseData
  <1>10. ASSUME NEW t \in Tasks, NEW k \in Lengths, f_write(t, k) PROVE DataInv' BY <1>10, WriteData
  <1>11. ASSUME NEW t \in Tasks, NEW g \in Gaps, f_lseek(t, g) PROVE DataInv' BY <1>11, LseekData
  <1>12. ASSUME NEW t \in Tasks, NEW n \in Names, f_unlink(t, n) PROVE DataInv' BY <1>12, UnlinkData
  <1>13. ASSUME NEW t \in Tasks, NEW n \in Names, NEW keep \in BOOLEAN, f_open(t, n, keep) PROVE DataInv'
    BY <1>13, OpenData
  <1>14. ASSUME NEW t \in Tasks, NEW old \in Names, NEW new \in Names, f_rename(t, old, new) PROVE DataInv'
    BY <1>14, RenameData
  <1>15. CASE UNCHANGED fatVars
    <2>1. Now' = Now /\ UNCHANGED <<disk, wflag, op, todo, renameCut>>
      BY <1>15 DEF fatVars, window, Now
    <2> QED BY <2>1 DEF DataInv
  <1> QED
    BY <1>1, <1>2, <1>3, <1>4, <1>5, <1>6, <1>7, <1>8, <1>9, <1>10, <1>11, <1>12, <1>13, <1>14, <1>15
    DEF FatNext

LEMMA StoredSurvives == ASSUME DataInv PROVE SyncedSurvives
  <1> SUFFICES ASSUME ~ renameCut, NEW n \in Names, saved[n] # None
               PROVE  /\ disk.dir[n] # None /\ disk.dir[n].size >= Len(saved[n])
                      /\ \A i \in 1 .. Len(saved[n]) : saved[n][i] \in {Unknown, Content(disk, n)[i]}
    BY DEF SyncedSurvives
  <1>1. PICK V : V = Now OBVIOUS
  <1>2. PICK d : d = disk OBVIOUS
  <1>3. StoreOf(V, n) /\ StoredOf(d, V, n) BY <1>1, <1>2, NowSafe
  <1>4. V.data = d.data /\ V.saved = saved BY <1>1, <1>2, NowFields
  <1>5. PICK p : Holds(V, n, p) /\ Walk(d.fat, d.dir[n].clust, p) BY <1>3, <1>4 DEF StoredOf
  <1>6. PICK size : size = d.dir[n].size OBVIOUS
  <1>7. PICK m : m = Len(saved[n]) OBVIOUS
  <1>8. m \in Nat BY <1>3, <1>4, <1>7, ListLength DEF StoreOf
  <1>9. d.dir[n] # None /\ size \in Nat /\ m <= size BY <1>3, <1>4, <1>6, <1>7 DEF StoredOf
  <1>10. m <= Units * Len(p) /\ Match(saved[n], p, d.data) BY <1>4, <1>5, <1>7 DEF Holds
  <1>11. PICK text : text = Content(d, n) OBVIOUS
  <1>12. \A i \in 1 .. size : i <= Units * Len(p) => text[i] = d.data[p[At(i)]][In(i)]
    BY <1>5, <1>6, <1>9, <1>11, ContentAt
  <1>13. Len(p) \in Nat /\ Units * Len(p) \in Nat
    <2>1. Len(p) \in Nat BY <1>5, WalkLength
    <2> QED BY <2>1, FatAssumption
  <1>14. \A i \in 1 .. m : i \in 1 .. size /\ i <= Units * Len(p) BY <1>8, <1>9, <1>10, <1>13
  <1>15. \A i \in 1 .. m : saved[n][i] \in {Unknown, text[i]} BY <1>7, <1>10, <1>12, <1>14 DEF Match
  <1> QED BY <1>2, <1>6, <1>7, <1>8, <1>9, <1>11, <1>15

\* What f_sync() or f_close() has made permanent stays readable on the disk through
\* power losses, errors and the work of other tasks, until the file is written over,
\* removed or renamed: for every number of clusters and size of a sector, every layout
\* of the table and the directory, any tasks and names, any lengths of writes and
\* seeks and any consistent disk at the start, if nobody opens, renames or removes an
\* open file and no rename was cut short.
THEOREM SyncedStays == ASSUME Exclusive PROVE FatSpec => []SyncedSurvives
  <1>1. FatInit => FatIInv /\ DataInv BY FatInitInv, DataInit
  <1>2. FatIInv /\ DataInv /\ [FatNext]_fatVars => (FatIInv /\ DataInv)' BY FatNextInv, DataNext
  <1>3. FatIInv /\ DataInv => SyncedSurvives BY StoredSurvives
  <1> QED BY <1>1, <1>2, <1>3, PTL DEF FatSpec
=============================================================================
