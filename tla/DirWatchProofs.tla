---------------------------- MODULE DirWatchProofs ----------------------------
(***************************************************************************)
(* What the TLA+ proof system checks of DirWatch, for every tree, any number *)
(* of nodes, changes and walks, and a queue of the kernel of any length.     *)
(***************************************************************************)
EXTENDS DirWatch, TLAPS, SequenceTheorems, FiniteSetTheorems

Path == Seq(Names)

(* Paths and their beginnings.                                              *)
LEMMA Cuts ==
  ASSUME NEW p \in Path, NEW n \in 0..Len(p)
  PROVE  /\ SubSeq(p, 1, n) \in Path /\ Len(SubSeq(p, 1, n)) = n
         /\ \A i \in 1..n : SubSeq(p, 1, n)[i] = p[i]
<1>1. Len(p) \in Nat /\ \A i \in 1..n : p[i] \in Names
  BY DEF Path
<1> QED
  BY <1>1, SubSeqProperties DEF Path

LEMMA PrefixIs ==
  ASSUME NEW p \in Path, NEW q \in Path
  PROVE  IsPrefix(p, q) <=> Len(p) <= Len(q) /\ p = SubSeq(q, 1, Len(p))
<1>1. SubSeq(p, 1, Len(p)) = p
  BY SubSeqFull DEF Path
<1> QED
  BY <1>1 DEF IsPrefix

LEMMA CutCut ==
  ASSUME NEW p \in Path, NEW n \in 0..Len(p), NEW m \in 0..n
  PROVE  SubSeq(SubSeq(p, 1, n), 1, m) = SubSeq(p, 1, m)
<1> DEFINE q == SubSeq(p, 1, n)
<1>0. Len(p) \in Nat
  BY DEF Path
<1>1. q \in Path /\ Len(q) = n /\ \A i \in 1..n : q[i] = p[i]
  BY Cuts
<1>2. m \in 0..Len(p)
  BY <1>0
<1>3. /\ SubSeq(p, 1, m) \in Path /\ Len(SubSeq(p, 1, m)) = m
      /\ \A i \in 1..m : SubSeq(p, 1, m)[i] = p[i]
  BY <1>2, Cuts
<1> HIDE DEF q
<1>4. /\ SubSeq(q, 1, m) \in Path /\ Len(SubSeq(q, 1, m)) = m
      /\ \A i \in 1..m : SubSeq(q, 1, m)[i] = q[i]
  BY <1>1, Cuts
<1>5. \A i \in 1..m : SubSeq(q, 1, m)[i] = SubSeq(p, 1, m)[i]
  BY <1>0, <1>1, <1>3, <1>4
<1>6. SubSeq(q, 1, m) = SubSeq(p, 1, m)
  BY <1>3, <1>4, <1>5, SeqEqual DEF Path
<1> QED
  BY <1>6 DEF q

LEMMA CutAppend ==
  ASSUME NEW p \in Path, NEW a \in Names
  PROVE  /\ Append(p, a) \in Path /\ Len(Append(p, a)) = Len(p) + 1
         /\ \A k \in 0..Len(p) : SubSeq(Append(p, a), 1, k) = SubSeq(p, 1, k)
         /\ SubSeq(Append(p, a), 1, Len(p)) = p
         /\ Front(Append(p, a)) = p
<1> DEFINE q == Append(p, a)
<1>0. Len(p) \in Nat
  BY DEF Path
<1>1. q \in Path /\ Len(q) = Len(p) + 1 /\ \A i \in 1..Len(p) : q[i] = p[i]
  BY AppendProperties DEF Path
<1> HIDE DEF q
<1>2. ASSUME NEW k \in 0..Len(p)
      PROVE  SubSeq(q, 1, k) = SubSeq(p, 1, k)
  <2>1. /\ SubSeq(p, 1, k) \in Path /\ Len(SubSeq(p, 1, k)) = k
        /\ \A i \in 1..k : SubSeq(p, 1, k)[i] = p[i]
    BY Cuts
  <2>2. k \in 0..Len(q)
    BY <1>0, <1>1
  <2>3. /\ SubSeq(q, 1, k) \in Path /\ Len(SubSeq(q, 1, k)) = k
        /\ \A i \in 1..k : SubSeq(q, 1, k)[i] = q[i]
    BY <1>1, <2>2, Cuts
  <2>4. \A i \in 1..k : SubSeq(q, 1, k)[i] = SubSeq(p, 1, k)[i]
    BY <1>0, <1>1, <2>1, <2>3
  <2> QED BY <2>1, <2>3, <2>4, SeqEqual DEF Path
<1>3. SubSeq(p, 1, Len(p)) = p
  BY SubSeqFull DEF Path
<1>4. SubSeq(q, 1, Len(p)) = p
  BY <1>0, <1>2, <1>3
<1>5. Len(q) - 1 = Len(p)
  BY <1>0, <1>1
<1>6. Front(q) = p
  BY <1>4, <1>5 DEF Front
<1> QED
  BY <1>1, <1>2, <1>4, <1>6 DEF q

LEMMA CutStep ==
  ASSUME NEW p \in Path, NEW k \in 0..Len(p) - 1
  PROVE  p[k + 1] \in Names /\ SubSeq(p, 1, k + 1) = Append(SubSeq(p, 1, k), p[k + 1])
<1>0. Len(p) \in Nat
  BY DEF Path
<1>1. k + 1 \in 1..Len(p) /\ k + 1 - 1 = k /\ 1 \in 1..Len(p)
  BY <1>0
<1>2. p[k + 1] \in Names
  BY <1>1, ElementOfSeq DEF Path
<1>3. SubSeq(p, 1, k + 1) = SubSeq(p, 1, k) \o << p[k + 1] >>
  BY <1>0, <1>1, SubSeqRecursiveSecond DEF Path
<1>4. k \in 0..Len(p)
  BY <1>0
<1>5. SubSeq(p, 1, k) \in Path
  BY <1>4, Cuts
<1> QED
  BY <1>2, <1>3, <1>5, AppendIsConcat DEF Path

(* What a path that begins with n names becomes when these are replaced.      *)
Shift(p, n, to) == to \o SubSeq(p, n + 1, Len(p))

LEMMA ShiftIs ==
  ASSUME NEW p \in Path, NEW to \in Path, NEW n \in 0..Len(p)
  PROVE  /\ Shift(p, n, to) \in Path
         /\ Len(Shift(p, n, to)) = Len(to) + Len(p) - n
         /\ \A i \in 1..Len(to) : Shift(p, n, to)[i] = to[i]
         /\ \A i \in 1..Len(p) - n : Shift(p, n, to)[Len(to) + i] = p[n + i]
<1> DEFINE rest == SubSeq(p, n + 1, Len(p))
<1>0. Len(p) \in Nat /\ Len(to) \in Nat /\ \A i \in n + 1..Len(p) : p[i] \in Names
  BY DEF Path
<1>1. /\ rest \in Path
      /\ Len(rest) = IF n + 1 <= Len(p) THEN Len(p) - (n + 1) + 1 ELSE 0
      /\ \A i \in 1..Len(p) - (n + 1) + 1 : rest[i] = p[n + 1 + i - 1]
  BY <1>0, SubSeqProperties DEF Path
<1>2. Len(rest) = Len(p) - n /\ \A i \in 1..Len(p) - n : rest[i] = p[n + i]
  BY <1>0, <1>1
<1> HIDE DEF rest
<1>3. /\ to \o rest \in Path /\ Len(to \o rest) = Len(to) + Len(rest)
      /\ \A i \in 1..Len(to) + Len(rest) :
           (to \o rest)[i] = IF i <= Len(to) THEN to[i] ELSE rest[i - Len(to)]
  BY <1>1, ConcatProperties DEF Path
<1>4. Shift(p, n, to) = to \o rest
  BY DEF Shift, rest
<1> QED
  BY <1>0, <1>2, <1>3, <1>4

LEMMA ShiftBegins ==
  ASSUME NEW p \in Path, NEW to \in Path, NEW n \in 0..Len(p), NEW k \in 0..Len(to)
  PROVE  SubSeq(Shift(p, n, to), 1, k) = SubSeq(to, 1, k)
<1> DEFINE m == Shift(p, n, to)
<1>0. Len(p) \in Nat /\ Len(to) \in Nat
  BY DEF Path
<1>1. m \in Path /\ Len(m) = Len(to) + Len(p) - n /\ \A i \in 1..Len(to) : m[i] = to[i]
  BY ShiftIs
<1> HIDE DEF m
<1>2. k \in 0..Len(m)
  BY <1>0, <1>1
<1>3. /\ SubSeq(m, 1, k) \in Path /\ Len(SubSeq(m, 1, k)) = k
      /\ \A i \in 1..k : SubSeq(m, 1, k)[i] = m[i]
  BY <1>1, <1>2, Cuts
<1>4. /\ SubSeq(to, 1, k) \in Path /\ Len(SubSeq(to, 1, k)) = k
      /\ \A i \in 1..k : SubSeq(to, 1, k)[i] = to[i]
  BY Cuts
<1>5. \A i \in 1..k : SubSeq(m, 1, k)[i] = SubSeq(to, 1, k)[i]
  BY <1>0, <1>1, <1>3, <1>4
<1> QED
  BY <1>3, <1>4, <1>5, SeqEqual DEF Path, m

LEMMA ShiftCut ==
  ASSUME NEW p \in Path, NEW to \in Path, NEW n \in 0..Len(p), NEW k \in n..Len(p)
  PROVE  SubSeq(Shift(p, n, to), 1, Len(to) + k - n) = Shift(SubSeq(p, 1, k), n, to)
<1> DEFINE m == Shift(p, n, to) q == SubSeq(p, 1, k) l == Shift(q, n, to)
           j == Len(to) + k - n c == SubSeq(m, 1, j)
<1>0. Len(p) \in Nat /\ Len(to) \in Nat /\ k \in 0..Len(p)
  BY DEF Path
<1>1. /\ m \in Path /\ Len(m) = Len(to) + Len(p) - n
      /\ \A i \in 1..Len(to) : m[i] = to[i]
      /\ \A i \in 1..Len(p) - n : m[Len(to) + i] = p[n + i]
  BY ShiftIs
<1>2. q \in Path /\ Len(q) = k /\ \A i \in 1..k : q[i] = p[i]
  BY <1>0, Cuts
<1> HIDE DEF q
<1>3. n \in 0..Len(q)
  BY <1>0, <1>2
<1>4. /\ l \in Path /\ Len(l) = Len(to) + Len(q) - n
      /\ \A i \in 1..Len(to) : l[i] = to[i]
      /\ \A i \in 1..Len(q) - n : l[Len(to) + i] = q[n + i]
  BY <1>2, <1>3, ShiftIs
<1> HIDE DEF m, l
<1>5. j \in 0..Len(m) /\ j = Len(l)
  BY <1>0, <1>1, <1>2, <1>4
<1> HIDE DEF j
<1>6. c \in Path /\ Len(c) = j /\ \A i \in 1..j : c[i] = m[i]
  BY <1>1, <1>5, Cuts
<1> HIDE DEF c
<1>7. ASSUME NEW i \in 1..j PROVE c[i] = l[i]
  <2>1. CASE i <= Len(to)
    BY <1>0, <1>1, <1>4, <1>6, <2>1
  <2>2. CASE i > Len(to)
    <3>1. /\ i - Len(to) \in 1..k - n /\ Len(to) + (i - Len(to)) = i
          /\ i - Len(to) \in 1..Len(p) - n /\ n + (i - Len(to)) \in 1..k
      BY <1>0, <2>2 DEF j
    <3>2. m[i] = p[n + (i - Len(to))] /\ l[i] = q[n + (i - Len(to))]
      BY <1>1, <1>2, <1>4, <3>1
    <3> QED BY <1>2, <1>6, <3>1, <3>2
  <2> QED BY <1>0, <1>5, <2>1, <2>2
<1>8. c = l
  BY <1>4, <1>5, <1>6, <1>7, SeqEqual DEF Path
<1> QED
  BY <1>8 DEF c, j, l, q, m

LEMMA ShiftInjective ==
  ASSUME NEW p \in Path, NEW q \in Path, NEW to \in Path,
         NEW n \in 0..Len(p), n <= Len(q), SubSeq(p, 1, n) = SubSeq(q, 1, n),
         Shift(p, n, to) = Shift(q, n, to)
  PROVE  p = q
<1>0. Len(p) \in Nat /\ Len(q) \in Nat /\ Len(to) \in Nat /\ n \in 0..Len(q)
  BY DEF Path
<1>1. /\ Len(Shift(p, n, to)) = Len(to) + Len(p) - n
      /\ \A i \in 1..Len(p) - n : Shift(p, n, to)[Len(to) + i] = p[n + i]
  BY ShiftIs
<1>2. /\ Len(Shift(q, n, to)) = Len(to) + Len(q) - n
      /\ \A i \in 1..Len(q) - n : Shift(q, n, to)[Len(to) + i] = q[n + i]
  BY <1>0, ShiftIs
<1>3. Len(p) = Len(q)
  BY <1>0, <1>1, <1>2
<1>4. \A i \in 1..n : p[i] = q[i]
  <2>1. \A i \in 1..n : SubSeq(p, 1, n)[i] = p[i]
    BY Cuts
  <2>2. \A i \in 1..n : SubSeq(q, 1, n)[i] = q[i]
    BY <1>0, Cuts
  <2> QED BY <2>1, <2>2
<1>5. ASSUME NEW i \in 1..Len(p), i > n PROVE p[i] = q[i]
  <2>1. i - n \in 1..Len(p) - n /\ n + (i - n) = i
    BY <1>0, <1>5
  <2> QED BY <1>1, <1>2, <1>3, <2>1
<1>6. \A i \in 1..Len(p) : p[i] = q[i]
  BY <1>0, <1>4, <1>5
<1> QED
  BY <1>3, <1>6, SeqEqual DEF Path
-------------------------------------------------------------------------------
(* Trees, and what becomes of them.                                         *)
LEMMA TreePaths ==
  ASSUME NEW t, IsTree(t), NEW n \in Nodes
  PROVE  /\ t[n] # Nowhere <=> t[n] \in Path
         /\ t[n] \in Path \cup {Nowhere}
         /\ t[n] \in Path => Len(t[n]) \in Nat
BY DirWatchAssumption DEF IsTree, Path

LEMMA ClosedAt ==
  ASSUME NEW t, IsTree(t), NEW n \in Nodes, t[n] # Nowhere,
         NEW p \in Path, IsPrefix(p, t[n]), p # t[n]
  PROVE  \E d \in Dirs : t[d] = p
<1>1. t[n] \in Path
  BY TreePaths
<1>2. Len(p) <= Len(t[n]) /\ p = SubSeq(t[n], 1, Len(p))
  BY <1>1, PrefixIs
<1>3. Len(p) # Len(t[n])
  BY <1>1, <1>2, SubSeqFull DEF Path
<1>4. Len(p) \in 0..Len(t[n]) - 1
  BY <1>1, <1>2, <1>3 DEF Path
<1> QED
  BY <1>2, <1>4 DEF IsTree

LEMMA TreeMake ==
  ASSUME NEW t, IsTree(t), NEW n \in Nodes, t[n] = Nowhere,
         NEW d \in Dirs, t[d] # Nowhere, NEW a \in Names,
         \A m \in Nodes : t[m] # Append(t[d], a)
  PROVE  IsTree([t EXCEPT ![n] = Append(t[d], a)])
<1> DEFINE p == Append(t[d], a) u == [t EXCEPT ![n] = p]
<1>0. d \in Nodes /\ Top \in Nodes
  BY DirWatchAssumption DEF Nodes
<1>1. t[d] \in Path /\ Len(t[d]) \in Nat
  BY <1>0, TreePaths
<1>2. /\ p \in Path /\ Len(p) = Len(t[d]) + 1
      /\ \A k \in 0..Len(t[d]) : SubSeq(p, 1, k) = SubSeq(t[d], 1, k)
      /\ SubSeq(p, 1, Len(t[d])) = t[d]
  BY <1>1, CutAppend
<1> HIDE DEF p
<1>3. t \in [Nodes -> Path \cup {Nowhere}] /\ t[Top] = << >>
  BY DEF IsTree, Path
<1>4. << >> # Nowhere
  BY EmptySeq, DirWatchAssumption
<1>5. u \in [Nodes -> Path \cup {Nowhere}] /\ u[Top] = << >>
  BY <1>0, <1>2, <1>3, <1>4
<1>6. \A m \in Nodes : m # n => u[m] = t[m]
  BY <1>3
<1>7. u[n] = p /\ n # d
  BY <1>3
<1>8. \A m, l \in Nodes : u[m] = u[l] /\ u[m] # Nowhere => m = l
  <2>1. \A m, l \in Nodes : t[m] = t[l] /\ t[m] # Nowhere => m = l
    BY DEF IsTree
  <2>2. \A m \in Nodes : t[m] # p
    BY DEF p
  <2> HIDE DEF u
  <2> QED BY <1>6, <1>7, <2>1, <2>2
<1>9. ASSUME NEW m \in Nodes, u[m] # Nowhere, NEW k \in 0..Len(u[m]) - 1
      PROVE  \E e \in Dirs : u[e] = SubSeq(u[m], 1, k)
  <2>1. \A e \in Dirs : t[e] # Nowhere => u[e] = t[e]
    BY <1>6 DEF Nodes
  <2>2. \A l \in Nodes : t[l] # Nowhere =>
          \A i \in 0..Len(t[l]) - 1 : \E e \in Dirs : t[e] = SubSeq(t[l], 1, i)
    BY DEF IsTree
  <2>3. ASSUME NEW q \in Path, NEW e \in Dirs, t[e] = q PROVE u[e] = q
    BY <2>1, <2>3, DirWatchAssumption DEF Path
  <2> HIDE DEF u
  <2>4. CASE m = n
    <3>1. k \in 0..Len(t[d])
      BY <1>1, <1>2, <1>7, <2>4
    <3>2. SubSeq(u[m], 1, k) = SubSeq(t[d], 1, k)
      BY <1>2, <1>7, <2>4, <3>1
    <3>3. CASE k = Len(t[d])
      BY <1>1, <1>2, <1>7, <2>3, <2>4, <3>3
    <3>4. CASE k # Len(t[d])
      <4>1. k \in 0..Len(t[d]) - 1
        BY <1>1, <3>1, <3>4
      <4>2. PICK e \in Dirs : t[e] = SubSeq(t[d], 1, k)
        BY <1>0, <2>2, <4>1
      <4>3. SubSeq(t[d], 1, k) \in Path
        BY <1>1, <3>1, Cuts
      <4> QED BY <2>3, <3>2, <4>2, <4>3
    <3> QED BY <3>3, <3>4
  <2>5. CASE m # n
    <3>1. u[m] = t[m]
      BY <1>6, <2>5
    <3>2. t[m] \in Path /\ Len(t[m]) \in Nat
      BY <1>9, <3>1, TreePaths
    <3>3. PICK e \in Dirs : t[e] = SubSeq(t[m], 1, k)
      BY <1>9, <2>2, <3>1
    <3>4. k \in 0..Len(t[m])
      BY <1>9, <3>1, <3>2
    <3>5. SubSeq(t[m], 1, k) \in Path
      BY <3>2, <3>4, Cuts
    <3> QED BY <2>3, <3>1, <3>3, <3>5
  <2> QED BY <2>4, <2>5
<1> QED
  BY <1>5, <1>8, <1>9 DEF IsTree, Path, p

LEMMA TreeUnlink ==
  ASSUME NEW t, IsTree(t), NEW n \in Nodes, n # Top, t[n] # Nowhere,
         \A m \in Nodes : t[m] # Nowhere /\ IsPrefix(t[n], t[m]) => m = n
  PROVE  IsTree([t EXCEPT ![n] = Nowhere])
<1> DEFINE u == [t EXCEPT ![n] = Nowhere]
<1>1. t \in [Nodes -> Path \cup {Nowhere}] /\ t[Top] = << >>
  BY DEF IsTree, Path
<1>2. u \in [Nodes -> Path \cup {Nowhere}] /\ u[Top] = << >>
  BY <1>1, DirWatchAssumption DEF Nodes
<1>3. u[n] = Nowhere /\ \A m \in Nodes : m # n => u[m] = t[m]
  BY <1>1
<1> HIDE DEF u
<1>4. \A m, l \in Nodes : u[m] = u[l] /\ u[m] # Nowhere => m = l
  BY <1>3 DEF IsTree
<1>5. ASSUME NEW m \in Nodes, u[m] # Nowhere, NEW k \in 0..Len(u[m]) - 1
      PROVE  \E e \in Dirs : u[e] = SubSeq(u[m], 1, k)
  <2>1. m # n /\ u[m] = t[m]
    BY <1>3, <1>5
  <2>2. t[m] \in Path /\ Len(t[m]) \in Nat
    BY <1>5, <2>1, TreePaths
  <2>3. PICK e \in Dirs : t[e] = SubSeq(t[m], 1, k)
    BY <1>5, <2>1 DEF IsTree
  <2>4. k \in 0..Len(t[m]) /\ e \in Nodes
    BY <1>5, <2>1, <2>2 DEF Nodes
  <2>5. t[e] \in Path /\ Len(t[e]) = k
    BY <2>2, <2>3, <2>4, Cuts
  <2>6. IsPrefix(t[e], t[m])
    <3>1. t[e] = SubSeq(t[m], 1, Len(t[e])) /\ Len(t[e]) <= Len(t[m])
      BY <2>1, <2>2, <2>3, <2>4, <2>5
    <3> QED BY <2>2, <2>5, <3>1, PrefixIs
  <2>7. t[e] # Nowhere
    BY <2>5, DirWatchAssumption DEF Path
  <2>8. e # n
    BY <1>5, <2>1, <2>2, <2>6
  <2> QED BY <1>3, <2>1, <2>3, <2>4, <2>8
<1> QED
  BY <1>2, <1>4, <1>5 DEF IsTree, Path, u

LEMMA CutIsPrefix ==
  ASSUME NEW p \in Path, NEW k \in 0..Len(p)
  PROVE  IsPrefix(SubSeq(p, 1, k), p)
<1>1. SubSeq(p, 1, k) \in Path /\ Len(SubSeq(p, 1, k)) = k
  BY Cuts
<1>2. k <= Len(p)
  BY DEF Path
<1> QED
  BY <1>1, <1>2, PrefixIs

LEMMA PrefixTransitive ==
  ASSUME NEW p \in Path, NEW q \in Path, NEW r \in Path, IsPrefix(p, q), IsPrefix(q, r)
  PROVE  IsPrefix(p, r)
<1>1. Len(p) \in Nat /\ Len(q) \in Nat /\ Len(r) \in Nat
  BY DEF Path
<1>2. Len(p) <= Len(q) /\ p = SubSeq(q, 1, Len(p)) /\ Len(q) <= Len(r) /\ q = SubSeq(r, 1, Len(q))
  BY PrefixIs
<1>3. Len(q) \in 0..Len(r) /\ Len(p) \in 0..Len(q) /\ Len(p) <= Len(r)
  BY <1>1, <1>2
<1>4. SubSeq(SubSeq(r, 1, Len(q)), 1, Len(p)) = SubSeq(r, 1, Len(p))
  BY <1>3, CutCut
<1> QED
  BY <1>2, <1>3, <1>4, PrefixIs

(* A directory moved with what is below it leaves a tree.                     *)
LEMMA TreeRename ==
  ASSUME NEW t, IsTree(t), NEW n \in Nodes, n # Top, t[n] # Nowhere,
         NEW d \in Dirs, t[d] # Nowhere, ~IsPrefix(t[n], t[d]), NEW a \in Names,
         \A m \in Nodes : t[m] # Append(t[d], a),
         NEW u, u = [m \in Nodes |-> IF t[m] # Nowhere /\ IsPrefix(t[n], t[m])
                                     THEN Shift(t[m], Len(t[n]), Append(t[d], a)) ELSE t[m]]
  PROVE  IsTree(u)
<1> DEFINE to == Append(t[d], a) s == Len(t[n]) In(m) == t[m] # Nowhere /\ IsPrefix(t[n], t[m])
<1>0. d \in Nodes /\ Top \in Nodes
  BY DirWatchAssumption DEF Nodes
<1>1. t[n] \in Path /\ t[d] \in Path /\ Len(t[d]) \in Nat /\ s \in Nat
  BY <1>0, TreePaths
<1>2. /\ to \in Path /\ Len(to) = Len(t[d]) + 1
      /\ \A k \in 0..Len(t[d]) : SubSeq(to, 1, k) = SubSeq(t[d], 1, k)
      /\ SubSeq(to, 1, Len(t[d])) = t[d]
  BY <1>1, CutAppend
<1>a. \A m \in Nodes : t[m] # to
  OBVIOUS
<1>3. \A m \in Nodes : u[m] = IF In(m) THEN Shift(t[m], s, to) ELSE t[m]
  OBVIOUS
<1>b. DOMAIN u = Nodes /\ u = [m \in Nodes |-> u[m]]
  OBVIOUS
<1> HIDE DEF to
<1>4. ASSUME NEW m \in Nodes, In(m)
      PROVE  /\ t[m] \in Path /\ Len(t[m]) \in Nat /\ s \in 0..Len(t[m])
             /\ SubSeq(t[m], 1, s) = t[n] /\ u[m] = Shift(t[m], s, to)
             /\ u[m] \in Path /\ Len(u[m]) = Len(to) + Len(t[m]) - s
  <2>1. t[m] \in Path /\ Len(t[m]) \in Nat
    BY <1>4, TreePaths
  <2>2. s \in 0..Len(t[m]) /\ SubSeq(t[m], 1, s) = t[n]
    BY <1>1, <1>4, <2>1, PrefixIs
  <2>3. u[m] = Shift(t[m], s, to)
    BY <1>3, <1>4
  <2>4. Shift(t[m], s, to) \in Path /\ Len(Shift(t[m], s, to)) = Len(to) + Len(t[m]) - s
    <3> HIDE DEF s
    <3> QED BY <1>2, <2>1, <2>2, ShiftIs
  <2> QED BY <2>1, <2>2, <2>3, <2>4
<1>5. ~In(Top)
  <2> SUFFICES ASSUME In(Top) PROVE FALSE
    OBVIOUS
  <2>1. t[Top] = << >>
    BY DEF IsTree
  <2>2. s \in 0..Len(t[Top])
    BY <1>0, <1>4
  <2>3. s = 0
    BY <2>1, <2>2
  <2>4. t[n] = << >>
    BY <1>1, <2>3, EmptySeq DEF Path
  <2> QED BY <1>0, <2>1, <2>4 DEF IsTree
<1>6. u \in [Nodes -> Path \cup {Nowhere}] /\ u[Top] = << >>
  <2>1. ASSUME NEW m \in Nodes PROVE u[m] \in Path \cup {Nowhere}
    BY <1>3, <1>4, TreePaths
  <2>2. u[Top] = << >>
    BY <1>0, <1>3, <1>5 DEF IsTree
  <2> QED BY <1>b, <2>1, <2>2
<1>7. ASSUME NEW m \in Nodes, In(m) PROVE IsPrefix(to, u[m])
  <2>1. Len(to) \in 0..Len(to) /\ Len(to) \in Nat
    BY <1>1, <1>2
  <2>0. /\ t[m] \in Path /\ Len(t[m]) \in Nat /\ s \in 0..Len(t[m])
        /\ u[m] = Shift(t[m], s, to)
        /\ u[m] \in Path /\ Len(u[m]) = Len(to) + Len(t[m]) - s
    BY <1>4, <1>7
  <2> HIDE DEF s, In
  <2>2. SubSeq(Shift(t[m], s, to), 1, Len(to)) = SubSeq(to, 1, Len(to))
    BY <1>2, <2>0, <2>1, ShiftBegins
  <2>3. SubSeq(to, 1, Len(to)) = to
    BY <1>2, SubSeqFull DEF Path
  <2>4. Len(to) <= Len(u[m])
    BY <2>0, <2>1
  <2> QED BY <1>2, <2>0, <2>2, <2>3, <2>4, PrefixIs
<1>8. ASSUME NEW m \in Nodes, t[m] # Nowhere PROVE ~IsPrefix(to, t[m])
  BY <1>2, <1>8, <1>a, ClosedAt, TreePaths DEF Nodes
<1> HIDE DEF s
<1>9. ASSUME NEW m \in Nodes, NEW l \in Nodes, u[m] = u[l], u[m] # Nowhere
      PROVE  m = l
  <2>1. CASE In(m) /\ In(l)
    <3>0. /\ t[m] \in Path /\ t[l] \in Path /\ s \in 0..Len(t[m]) /\ s <= Len(t[l])
          /\ SubSeq(t[m], 1, s) = SubSeq(t[l], 1, s)
          /\ Shift(t[m], s, to) = Shift(t[l], s, to)
      BY <1>4, <1>9, <2>1
    <3>1. t[m] = t[l]
      BY <1>2, <3>0, ShiftInjective
    <3> QED BY <2>1, <3>1 DEF IsTree
  <2>2. CASE ~In(m) /\ ~In(l)
    BY <1>3, <1>9, <2>2 DEF IsTree
  <2>3. CASE In(m) /\ ~In(l)
    BY <1>3, <1>7, <1>8, <1>9, <2>3
  <2>4. CASE ~In(m) /\ In(l)
    BY <1>3, <1>7, <1>8, <1>9, <2>4
  <2> QED BY <2>1, <2>2, <2>3, <2>4
<1>10. ASSUME NEW m \in Nodes, u[m] # Nowhere, NEW k \in 0..Len(u[m]) - 1
       PROVE  \E e \in Dirs : u[e] = SubSeq(u[m], 1, k)
  <2>0. \A l \in Nodes : t[l] # Nowhere =>
          \A i \in 0..Len(t[l]) - 1 : \E e \in Dirs : t[e] = SubSeq(t[l], 1, i)
    BY DEF IsTree
  <2>1. CASE In(m) /\ k < Len(to)
    <3>1. k \in 0..Len(to) /\ k \in 0..Len(t[d])
      BY <1>1, <1>2, <2>1
    <3>a. t[m] \in Path /\ s \in 0..Len(t[m]) /\ u[m] = Shift(t[m], s, to)
      BY <1>4, <2>1
    <3>b. SubSeq(Shift(t[m], s, to), 1, k) = SubSeq(to, 1, k)
      BY <1>2, <3>1, <3>a, ShiftBegins
    <3>2. SubSeq(u[m], 1, k) = SubSeq(t[d], 1, k)
      BY <1>2, <3>1, <3>a, <3>b
    <3>3. PICK e \in Dirs : t[e] = SubSeq(t[d], 1, k)
      <4>1. CASE k = Len(t[d])
        BY <1>1, <1>2, <4>1
      <4>2. CASE k # Len(t[d])
        BY <1>0, <1>1, <2>0, <3>1, <4>2
      <4> QED BY <4>1, <4>2
    <3>4. t[e] \in Path /\ IsPrefix(t[e], t[d])
      BY <1>1, <3>1, <3>3, Cuts, CutIsPrefix
    <3>5. ~In(e)
      BY <1>1, <3>4, PrefixTransitive
    <3> QED BY <1>3, <3>2, <3>3, <3>5 DEF Nodes
  <2>2. CASE In(m) /\ k >= Len(to)
    <3> DEFINE j == s + k - Len(to)
    <3>0. Len(to) \in Nat /\ s \in Nat
      BY <1>1, <1>2 DEF s
    <3>1. /\ t[m] \in Path /\ Len(t[m]) \in Nat /\ s \in 0..Len(t[m])
          /\ SubSeq(t[m], 1, s) = t[n] /\ u[m] = Shift(t[m], s, to)
          /\ Len(u[m]) = Len(to) + Len(t[m]) - s
      BY <1>4, <2>2
    <3>2. j \in s..Len(t[m]) /\ j \in 0..Len(t[m]) - 1 /\ Len(to) + j - s = k /\ s \in 0..j
      BY <2>2, <3>0, <3>1
    <3> HIDE DEF j
    <3>3. PICK e \in Dirs : t[e] = SubSeq(t[m], 1, j)
      BY <2>0, <2>2, <3>2
    <3>4. j \in 0..Len(t[m])
      BY <3>1, <3>2
    <3>5. t[e] \in Path /\ Len(t[e]) = j /\ SubSeq(t[e], 1, s) = t[n]
      BY <3>1, <3>2, <3>3, <3>4, Cuts, CutCut
    <3>6. s <= Len(t[e])
      BY <3>1, <3>2, <3>5
    <3>7. IsPrefix(t[n], t[e])
      BY <1>1, <3>5, <3>6, PrefixIs DEF s
    <3>8. e \in Nodes /\ t[e] # Nowhere
      BY <3>5, DirWatchAssumption DEF Nodes, Path
    <3>9. u[e] = Shift(SubSeq(t[m], 1, j), s, to)
      BY <1>3, <3>3, <3>7, <3>8
    <3>10. SubSeq(u[m], 1, Len(to) + j - s) = Shift(SubSeq(t[m], 1, j), s, to)
      BY <1>2, <3>1, <3>2, ShiftCut
    <3> QED BY <3>2, <3>9, <3>10
  <2>3. CASE ~In(m)
    <3>1. u[m] = t[m] /\ t[m] # Nowhere
      BY <1>3, <1>10, <2>3
    <3>2. t[m] \in Path /\ Len(t[m]) \in Nat
      BY <3>1, TreePaths
    <3>3. PICK e \in Dirs : t[e] = SubSeq(t[m], 1, k)
      BY <1>10, <2>0, <3>1
    <3>4. k \in 0..Len(t[m])
      BY <1>10, <3>1, <3>2
    <3>5. t[e] \in Path /\ IsPrefix(t[e], t[m])
      BY <3>2, <3>3, <3>4, Cuts, CutIsPrefix
    <3>6. ~In(e)
      BY <1>1, <2>3, <3>1, <3>2, <3>5, PrefixTransitive
    <3>7. e \in Nodes
      BY DEF Nodes
    <3>8. u[e] = t[e]
      BY <1>3, <3>6, <3>7
    <3>9. u[e] = SubSeq(u[m], 1, k)
      BY <3>1, <3>3, <3>8
    <3> QED BY <3>9
  <2>4. k < Len(to) \/ k >= Len(to)
    BY <1>1, <1>2
  <2> HIDE DEF In
  <2> QED BY <2>1, <2>2, <2>3, <2>4, Zenon
<1> QED
  BY <1>6, <1>9, <1>10 DEF IsTree, Path
-------------------------------------------------------------------------------
(* The queue of the kernel.                                                 *)
Events == [wd : DOMAIN _hash, name : Names \cup {NoName}] \cup {Overflow}

IsQueue(q) ==
  /\ q \in Seq(Events) /\ Len(q) <= MaxQueued + 1
  /\ Len(q) = MaxQueued + 1 => Overflow \in Range(q)

(* An event queued is the last, or the queue is full; nothing else leaves it. *)
LEMMA QueuedIs ==
  ASSUME NEW q, IsQueue(q), NEW n \in Nodes, NEW name \in Names \cup {NoName},
         _hash \in Seq(Path), wds \in [Nodes -> 0..Len(_hash)]
  PROVE  IsQueue(Queued(q, n, name)) /\ Range(q) \subseteq Range(Queued(q, n, name))
<1>0. Len(q) \in Nat /\ MaxQueued \in Nat \ {0} /\ q \in Seq(Events)
  BY DirWatchAssumption DEF IsQueue
<1>1. ASSUME NEW e \in Events
      PROVE  /\ Append(q, e) \in Seq(Events) /\ Len(Append(q, e)) = Len(q) + 1
             /\ Range(q) \subseteq Range(Append(q, e)) /\ e \in Range(Append(q, e))
  <2>1. /\ Append(q, e) \in Seq(Events) /\ Len(Append(q, e)) = Len(q) + 1
        /\ \A i \in 1..Len(q) : Append(q, e)[i] = q[i]
        /\ Append(q, e)[Len(q) + 1] = e
    BY <1>0, AppendProperties
  <2>2. DOMAIN q = 1..Len(q) /\ DOMAIN Append(q, e) = 1..Len(q) + 1
    BY <1>0, <2>1, LenProperties
  <2>3. \A i \in 1..Len(q) : i \in 1..Len(q) + 1
    BY <1>0
  <2>4. Len(q) + 1 \in 1..Len(q) + 1
    BY <1>0
  <2> QED BY <2>1, <2>2, <2>3, <2>4 DEF Range
<1>2. CASE wds[n] = 0
  BY <1>2 DEF Queued
<1>3. CASE wds[n] # 0 /\ Len(q) < MaxQueued
  <2> DEFINE e == [wd |-> wds[n], name |-> name]
  <2>1. wds[n] \in DOMAIN _hash
    BY <1>3, LenProperties
  <2>2. e \in Events
    BY <2>1 DEF Events
  <2>3. Queued(q, n, name) = Append(q, e)
    BY <1>3 DEF Queued
  <2> HIDE DEF e
  <2>4. Len(Append(q, e)) <= MaxQueued /\ Len(Append(q, e)) # MaxQueued + 1
    BY <1>0, <1>1, <1>3, <2>2
  <2> QED BY <1>0, <1>1, <2>2, <2>3, <2>4 DEF IsQueue
<1>4. CASE wds[n] # 0 /\ ~(Len(q) < MaxQueued)
  <2>1. CASE Overflow \in Range(q)
    BY <1>4, <2>1 DEF Queued
  <2>2. CASE Overflow \notin Range(q)
    <3>1. Overflow \in Events
      BY DEF Events
    <3>2. Queued(q, n, name) = Append(q, Overflow)
      BY <1>4, <2>2 DEF Queued
    <3>3. Len(q) # MaxQueued + 1 /\ Len(q) <= MaxQueued + 1
      BY <2>2 DEF IsQueue
    <3>4. Len(Append(q, Overflow)) <= MaxQueued + 1
      BY <1>0, <1>1, <3>1, <3>3
    <3> QED BY <1>1, <3>1, <3>2, <3>4 DEF IsQueue
  <2> QED BY <2>1, <2>2
<1> QED
  BY <1>2, <1>3, <1>4
-------------------------------------------------------------------------------
(* The walk.                                                               *)
LEMMA LeadsDown ==
  ASSUME NEW q \in Path, NEW recursive \in BOOLEAN, NEW p \in Path, Leads(q, recursive, p)
  PROVE  /\ IsPrefix(q, p) /\ need_mon(q)
         /\ q # p => /\ recursive /\ Len(q) + 1 \in 1..Len(p)
                     /\ Leads(SubSeq(p, 1, Len(q) + 1), recursive, p)
<1>1. Len(p) \in Nat /\ Len(q) \in Nat /\ Len(q) <= Len(p) /\ q = SubSeq(p, 1, Len(q))
  BY PrefixIs DEF Path, Leads
<1>2. Len(q) \in Len(q)..Len(p)
  BY <1>1
<1>3. need_mon(q)
  BY <1>1, <1>2 DEF Leads
<1>4. ASSUME q # p
      PROVE  recursive /\ Len(q) + 1 \in 1..Len(p) /\ Leads(SubSeq(p, 1, Len(q) + 1), recursive, p)
  <2>1. Len(q) # Len(p)
    BY <1>1, <1>4, SubSeqFull DEF Path
  <2>2. Len(q) + 1 \in 1..Len(p) /\ Len(q) + 1 \in 0..Len(p)
    BY <1>1, <2>1
  <2>3. recursive
    BY <1>4 DEF Leads
  <2>4. Len(SubSeq(p, 1, Len(q) + 1)) = Len(q) + 1
    BY <2>2, Cuts
  <2>5. IsPrefix(SubSeq(p, 1, Len(q) + 1), p)
    BY <2>2, CutIsPrefix
  <2>6. \A k \in Len(q) + 1..Len(p) : k \in Len(q)..Len(p)
    BY <1>1
  <2> QED BY <2>2, <2>3, <2>4, <2>5, <2>6 DEF Leads
<1> QED
  BY <1>3, <1>4 DEF Leads

(* What leads to a directory that exists is a directory that exists.          *)
LEMMA LeadsThere ==
  ASSUME IsTree(path), NEW q \in Path, NEW recursive \in BOOLEAN, NEW d \in Dirs \cap Placed,
         Leads(q, recursive, path[d])
  PROVE  \E e \in Dirs \cap Placed : path[e] = q /\ NodesAt(q) = {e} /\ Isdir(q)
<1>1. d \in Nodes /\ path[d] # Nowhere /\ path[d] \in Path
  BY TreePaths DEF Placed
<1>2. IsPrefix(q, path[d])
  BY DEF Leads
<1>3. PICK e \in Dirs : path[e] = q
  BY <1>1, <1>2, ClosedAt
<1>4. e \in Nodes /\ e \in Placed
  BY <1>3, DirWatchAssumption DEF Placed, Nodes, Path
<1>5. NodesAt(q) = {e}
  BY <1>3, <1>4 DEF NodesAt, Placed, IsTree
<1> QED
  BY <1>3, <1>4, <1>5, DirWatchAssumption DEF Isdir

LEMMA PlacedIsFinite == IsFiniteSet(Placed)
<1>1. IsFiniteSet(Nodes)
  BY DirWatchAssumption, FS_Union DEF Nodes
<1> QED
  BY <1>1, FS_Subset DEF Placed

(* A listing has each of the names, in some order.                           *)
LEMMA ListingIs ==
  ASSUME IsTree(path), NEW d, NEW listing \in Listings(d)
  PROVE  /\ listing \in Seq(Path)
         /\ Range(listing) = {p \in {path[n] : n \in Placed} :
              /\ \E name \in Names : p = Append(path[d], name)
              /\ ~Isdir(p) \/ Head(roots).recursive}
<1> DEFINE all == {path[n] : n \in Placed}
           S == {p \in all : /\ \E name \in Names : p = Append(path[d], name)
                             /\ ~Isdir(p) \/ Head(roots).recursive}
           f == [n \in Placed |-> path[n]]
<1>1. f \in Surjection(Placed, all)
  BY DEF Surjection
<1>2. IsFiniteSet(all)
  BY <1>1, PlacedIsFinite, FS_Surjection
<1>3. S \subseteq all /\ all \subseteq Path
  BY TreePaths DEF Placed
<1>4. IsFiniteSet(S)
  BY <1>2, <1>3, FS_Subset
<1>5. listing \in SetToSeqs(S)
  BY DEF Listings
<1> HIDE DEF S
<1> DEFINE N == Cardinality(S)
<1>6. N \in Nat
  BY <1>4, FS_CardinalityType
<1>7. listing \in [1..N -> S] /\ \A i, j \in 1..N : i # j => listing[i] # listing[j]
  BY <1>5 DEF SetToSeqs
<1>8. listing \in Injection(1..N, S)
  BY <1>7 DEF Injection, IsInjective
<1>9. Cardinality(1..N) = N
  BY <1>6, FS_Interval
<1>10. listing \in Surjection(1..N, S)
  BY <1>4, <1>8, <1>9, FS_Injection
<1>11. Range(listing) = S
  BY <1>10 DEF Surjection, Range
<1>12. listing \in Seq(S)
  BY <1>6, <1>7
<1>13. listing \in Seq(Path)
  BY <1>3, <1>12, SeqMonotonic
<1> QED
  BY <1>11, <1>13 DEF S
-------------------------------------------------------------------------------
(* The invariant: what the queue of the kernel and the stack of the walk are, *)
(* which directories are still to be watched, and why no change is lost.     *)
QueueOK == IsQueue(inotify)

WalkOK == IF pc = "loop" THEN roots = << >> /\ _queue = << >> ELSE roots # << >>

Unwatched == \A n \in Nodes : path[n] = Nowhere => wds[n] = 0

Covered ==
  \A d \in (Dirs \cap Placed) \ stray :
    Reached(path[d]) /\ wds[d] = 0 => Window(d) \/ Coming(path[d])

Visited(p) == p \in Range(_queue) \/ Coming(Front(p)) \/ (pc = "judge" /\ entry = p)

Kept == \A p \in unseen : Pending(p) \/ (~skip /\ Visited(p) /\ \E f \in Files : path[f] = p)

IInv == TypeOK /\ QueueOK /\ WalkOK /\ Unwatched /\ TableTrue /\ Covered /\ Kept

LEMMA RootsAre ==
  /\ Range(Roots) \subseteq [path : Path, recursive : BOOLEAN]
  /\ Roots \in Seq(Range(Roots)) /\ Roots # << >> /\ Len(Roots) \in Nat \ {0}
  /\ Head(Roots) = Roots[1] /\ Roots[1] \in Range(Roots)
<1>1. Roots \in Seq([path : Path, recursive : BOOLEAN]) /\ Roots # << >>
  BY DirWatchAssumption DEF Path
<1>2. Range(Roots) \subseteq [path : Path, recursive : BOOLEAN] /\ Roots \in Seq(Range(Roots))
  BY <1>1, RangeOfSeq, SeqOfRange
<1>3. Len(Roots) \in Nat \ {0} /\ Head(Roots) = Roots[1] /\ DOMAIN Roots = 1..Len(Roots)
  BY <1>1, EmptySeq, LenProperties
<1>4. Roots[1] \in Range(Roots)
  BY <1>3 DEF Range
<1> QED
  BY <1>1, <1>2, <1>3, <1>4

LEMMA InitHolds == Init => IInv
<1> SUFFICES ASSUME Init PROVE IInv
  OBVIOUS
<1> DEFINE r == Roots[1]
<1>0. r \in Range(Roots) /\ r.path \in Path /\ r.recursive \in BOOLEAN /\ Head(Roots) = r
  BY RootsAre
<1>1. /\ path \in Trees /\ wds = [n \in Nodes |-> 0] /\ inotify = << >> /\ _hash = << >>
      /\ roots = Roots /\ _queue = << r.path >> /\ skip \in BOOLEAN /\ pc = "next"
      /\ entry = << >> /\ stray = {}
  BY <1>0 DEF Init
<1>2. IsTree(path)
  BY <1>1, DirWatchAssumption
<1>3. Range(_queue) = {r.path}
  BY <1>1 DEF Range
<1>4. ASSUME NEW p, Reached(p) PROVE Coming(p)
  <2>1. PICK i \in 1..Len(Roots) : Leads(Roots[i].path, Roots[i].recursive, p)
    BY <1>4, RootsAre, LenProperties DEF Reached, Range
  <2>2. CASE i = 1
    BY <1>0, <1>1, <1>3, <2>1, <2>2 DEF Coming
  <2>3. CASE i # 1
    <3>1. i \in 2..Len(Roots)
      BY <2>3, RootsAre
    <3> QED BY <1>1, <2>1, <3>1 DEF Coming
  <2> QED BY <2>2, <2>3
<1>5. unseen \subseteq Path /\ \A p \in unseen :
        ~skip /\ Reached(Front(p)) /\ \E f \in Files : path[f] = p
  <2>1. CASE skip
    BY <2>1 DEF Init
  <2>2. CASE ~skip
    <3>1. unseen = {path[f] : f \in {g \in Files \cap Placed : Reached(Front(path[g]))}}
      BY <2>2 DEF Init
    <3>2. \A f \in Files \cap Placed : path[f] \in Path
      BY <1>2, TreePaths DEF Placed
    <3> QED BY <2>2, <3>1, <3>2
  <2> QED BY <2>1, <2>2
<1>6. << >> \in Seq(Events) /\ Len(<< >>) = 0 /\ << >> \in Path /\ << >> \in Seq(Path)
  BY EmptySeq DEF Path
<1>7. IsQueue(<< >>)
  BY <1>6, DirWatchAssumption DEF IsQueue
<1>8. TypeOK
  <2>1. wds \in [Nodes -> 0..Len(_hash)]
    BY <1>1, <1>6
  <2>2. inotify \in Seq(Events) /\ Len(inotify) <= MaxQueued + 1
    BY <1>1, <1>7 DEF IsQueue
  <2>3. _queue \in Seq(Path)
    BY <1>0, <1>1
  <2>4. roots \in Seq(Range(Roots))
    BY <1>1, RootsAre
  <2> QED BY <1>1, <1>2, <1>5, <1>6, <2>1, <2>2, <2>3, <2>4 DEF TypeOK, Events, Path
<1>9. WalkOK /\ QueueOK /\ Unwatched /\ TableTrue
  BY <1>1, <1>7, RootsAre DEF WalkOK, QueueOK, Unwatched, TableTrue, Placed
<1>10. Covered
  BY <1>4 DEF Covered
<1>11. Kept
  BY <1>4, <1>5 DEF Kept, Visited
<1> QED
  BY <1>8, <1>9, <1>10, <1>11 DEF IInv
-------------------------------------------------------------------------------
(* The environment.                                                        *)

(* What a change must leave for the invariant to hold after it.               *)
LEMMA Changed ==
  ASSUME IInv, UNCHANGED walk, IsTree(path'), wds' \in [Nodes -> 0..Len(_hash)],
         IsQueue(inotify'), Range(inotify) \subseteq Range(inotify'),
         unseen' \subseteq Path, stray' \subseteq Dirs,
         \A n \in Nodes : path'[n] = Nowhere => wds'[n] = 0,
         \A d \in Dirs : path'[d] # Nowhere /\ d \notin stray' =>
            \/ path'[d] = path[d] /\ d \notin stray /\ wds'[d] = wds[d]
            \/ wds'[d] = 0 /\ (Reached(path'[d]) => Coming(path'[d])),
         \A p \in unseen' :
            \/ p \in unseen /\ \A f \in Files : path[f] = p => path'[f] = p
            \/ ~skip /\ Coming(Front(p)) /\ \E f \in Files : path'[f] = p
            \/ Pending(p)'
  PROVE  IInv'
<1>0. /\ _hash' = _hash /\ skip' = skip /\ roots' = roots /\ _queue' = _queue
      /\ pc' = pc /\ entry' = entry
  BY DEF walk
<1>1. \A p : Coming(p)' <=> Coming(p)
  BY <1>0 DEF Coming
<1>2. \A p : Pending(p) => Pending(p)'
  BY <1>0 DEF Pending
<1>3. IsQueue(inotify)'
  BY <1>0 DEF IsQueue, Events
<1>4. TypeOK'
  BY <1>0, <1>3 DEF IInv, TypeOK, IsQueue, Events, Path
<1>5. QueueOK' /\ WalkOK' /\ Unwatched'
  BY <1>0, <1>3 DEF IInv, QueueOK, WalkOK, Unwatched
<1>6. TableTrue'
  <2> SUFFICES ASSUME NEW d \in Dirs, path'[d] # Nowhere, d \notin stray', wds'[d] # 0
               PROVE  _hash'[wds'[d]] = path'[d]
    BY DEF TableTrue, Placed
  <2>1. path'[d] = path[d] /\ d \notin stray /\ wds'[d] = wds[d]
    OBVIOUS
  <2>2. d \in (Dirs \cap Placed) \ stray
    BY <2>1 DEF Placed, Nodes
  <2> QED BY <1>0, <2>1, <2>2 DEF IInv, TableTrue
<1>7. Covered'
  <2> SUFFICES ASSUME NEW d \in Dirs, path'[d] # Nowhere, d \notin stray', wds'[d] = 0,
                      Reached(path'[d])
               PROVE  Window(d)' \/ Coming(path'[d])
    BY <1>1 DEF Covered, Placed, Coming, Reached
  <2>1. CASE path'[d] = path[d] /\ d \notin stray /\ wds'[d] = wds[d]
    <3>1. d \in (Dirs \cap Placed) \ stray
      BY <2>1 DEF Placed, Nodes
    <3>2. Window(d) \/ Coming(path[d])
      BY <2>1, <3>1 DEF IInv, Covered
    <3>3. Window(d) => Window(d)'
      BY <1>0, <2>1 DEF Window
    <3> QED BY <2>1, <3>2, <3>3
  <2>2. CASE Coming(path'[d])
    BY <2>2
  <2> QED BY <2>1, <2>2
<1>8. Kept'
  <2> SUFFICES ASSUME NEW p \in unseen', ~Pending(p)'
               PROVE  ~skip' /\ Visited(p)' /\ \E f \in Files : path'[f] = p
    BY DEF Kept
  <2>1. CASE ~skip /\ Coming(Front(p)) /\ \E f \in Files : path'[f] = p
    BY <1>0, <1>1, <2>1 DEF Visited
  <2>2. CASE p \in unseen /\ \A f \in Files : path[f] = p => path'[f] = p
    <3>1. ~skip /\ Visited(p) /\ \E f \in Files : path[f] = p
      BY <1>2, <2>2 DEF IInv, Kept
    <3>2. Visited(p)'
      BY <1>0, <1>1, <3>1 DEF Visited
    <3> QED BY <1>0, <2>2, <3>1, <3>2
  <2> QED BY <2>1, <2>2
<1> QED
  BY <1>4, <1>5, <1>6, <1>7, <1>8 DEF IInv

LEMMA OwedIs ==
  ASSUME IInv, NEW d \in Dirs \cap Placed, NEW name \in Names, NEW gone \in BOOLEAN,
         NEW p \in Owed(d, name, gone), UNCHANGED walk
  PROVE  /\ p = Append(path[d], name) /\ p \in Path /\ Front(p) = path[d]
         /\ Pending(p)' \/ (~gone /\ ~skip /\ Coming(path[d]))
<1>1. path[d] \in Path
  BY TreePaths DEF IInv, TypeOK, Placed
<1>2. /\ p = Append(path[d], name) /\ Promised(d)
      /\ IF wds[d] = 0 THEN ~gone ELSE [wd |-> wds[d], name |-> name] \in Range(inotify')
  BY DEF Owed
<1>3. p \in Path /\ Front(p) = path[d]
  BY <1>1, <1>2, CutAppend
<1>4. CASE wds[d] = 0
  BY <1>2, <1>3, <1>4 DEF IInv, Covered, Promised
<1>5. CASE wds[d] # 0
  <2> DEFINE e == [wd |-> wds[d], name |-> name]
  <2>1. _hash[wds[d]] = path[d]
    BY <1>2, <1>5 DEF IInv, TableTrue, Promised
  <2>2. e \in Range(inotify') /\ e.name # NoName /\ Append(_hash'[e.wd], e.name) = p
    BY <1>2, <1>5, <2>1, DirWatchAssumption DEF walk
  <2> HIDE DEF e
  <2>3. Pending(p)'
    BY <2>2 DEF Pending
  <2> QED BY <1>2, <1>3, <2>3
<1> QED
  BY <1>2, <1>3, <1>4, <1>5

LEMMA HoldsIs ==
  ASSUME TypeOK, NEW d \in Dirs, NEW name \in Names, NEW n \in Nodes, Holds(d, name, n)
  PROVE  /\ d \in Dirs \cap Placed /\ n \in Placed /\ n # Top
         /\ path[n] = Append(path[d], name) /\ path[n] \in Path /\ path[d] \in Path
<1>1. d \in Placed /\ path[n] = Append(path[d], name) /\ path[d] \in Path
  BY TreePaths DEF Holds, TypeOK, Placed
<1>2. path[n] \in Path /\ Len(path[n]) = Len(path[d]) + 1 /\ Len(path[d]) \in Nat
  BY <1>1, CutAppend DEF Path
<1>3. path[n] # << >>
  BY <1>2, EmptySeq
<1>4. n # Top
  BY <1>3 DEF TypeOK, IsTree
<1> QED
  BY <1>1, <1>2, <1>4, DirWatchAssumption DEF Placed, Path

LEMMA TouchStep ==
  ASSUME IInv, NEW f \in Files, NEW d \in Dirs, NEW name \in Names, Touch(f, d, name)
  PROVE  IInv'
<1>0. /\ UNCHANGED walk /\ path' = path /\ wds' = wds /\ stray' = stray /\ TypeOK
      /\ Holds(d, name, f) /\ f \in Nodes /\ d \in Nodes
      /\ inotify' = Queued(Queued(inotify, d, name), f, NoName)
      /\ unseen' = (unseen \ {path[f]}) \cup Owed(d, name, FALSE)
  BY DEF Touch, IInv, Nodes
<1>1. d \in Dirs \cap Placed /\ path[f] = Append(path[d], name)
  BY <1>0, HoldsIs
<1>2. IsQueue(inotify) /\ _hash \in Seq(Path) /\ wds \in [Nodes -> 0..Len(_hash)]
  BY DEF IInv, TypeOK, QueueOK, Path
<1>3. IsQueue(Queued(inotify, d, name)) /\ Range(inotify) \subseteq Range(Queued(inotify, d, name))
  BY <1>0, <1>2, QueuedIs
<1>4. IsQueue(inotify') /\ Range(inotify) \subseteq Range(inotify')
  BY <1>0, <1>2, <1>3, QueuedIs
<1>5. ASSUME NEW p \in Owed(d, name, FALSE)
      PROVE  p \in Path /\ p = path[f] /\ (Pending(p)' \/ (~skip /\ Coming(Front(p))))
  BY <1>0, <1>1, OwedIs
<1>6. unseen' \subseteq Path
  BY <1>0, <1>5 DEF TypeOK, Path
<1>7. ASSUME NEW e \in Dirs, path'[e] # Nowhere, e \notin stray'
      PROVE  path'[e] = path[e] /\ e \notin stray /\ wds'[e] = wds[e]
  BY <1>0, <1>7
<1>8. ASSUME NEW p \in unseen'
      PROVE  \/ p \in unseen /\ \A g \in Files : path[g] = p => path'[g] = p
             \/ ~skip /\ Coming(Front(p)) /\ \E g \in Files : path'[g] = p
             \/ Pending(p)'
  BY <1>0, <1>5, <1>8
<1> QED
  BY <1>0, <1>2, <1>4, <1>6, <1>7, <1>8, Changed DEF IInv, TypeOK, Unwatched

LEMMA MakeStep ==
  ASSUME IInv, NEW n \in Nodes, NEW d \in Dirs, NEW name \in Names, Make(n, d, name)
  PROVE  IInv'
<1> DEFINE to == Append(path[d], name)
<1>0. /\ UNCHANGED walk /\ wds' = wds /\ TypeOK /\ d \in Nodes
      /\ n \notin Placed /\ d \in Dirs \cap Placed /\ NodesAt(to) = {}
      /\ path' = [path EXCEPT ![n] = to] /\ inotify' = Queued(inotify, d, name)
      /\ unseen' = IF n \in Files THEN (unseen \ {path'[n]}) \cup Owed(d, name, FALSE) ELSE unseen
      /\ Arrived({n} \cap Dirs)
  BY DEF Make, IInv, Nodes
<1>1. path[d] \in Path /\ path[d] # Nowhere /\ path[n] = Nowhere /\ IsTree(path)
  BY <1>0, TreePaths DEF TypeOK, Placed
<1>2. to \in Path /\ to # Nowhere /\ Front(to) = path[d]
  BY <1>1, CutAppend, DirWatchAssumption DEF Path
<1>3. \A m \in Nodes : path[m] # to
  BY <1>0, <1>2 DEF NodesAt, Placed
<1>4. IsTree(path')
  BY <1>0, <1>1, <1>3, TreeMake
<1>5. path'[n] = to /\ \A m \in Nodes : m # n => path'[m] = path[m]
  BY <1>0 DEF TypeOK, IsTree
<1>6. IsQueue(inotify') /\ Range(inotify) \subseteq Range(inotify')
  BY <1>0, QueuedIs DEF IInv, TypeOK, QueueOK, Path
<1>7. wds[n] = 0
  BY <1>1 DEF IInv, Unwatched
<1>8. stray' \subseteq Dirs
  BY <1>0 DEF Arrived, TypeOK
<1>9. ASSUME NEW e \in Dirs, path'[e] # Nowhere, e \notin stray'
      PROVE  \/ path'[e] = path[e] /\ e \notin stray /\ wds'[e] = wds[e]
             \/ wds'[e] = 0 /\ (Reached(path'[e]) => Coming(path'[e]))
  <2>1. CASE e = n
    BY <1>0, <1>7, <1>9, <2>1 DEF Arrived
  <2>2. CASE e # n
    BY <1>0, <1>5, <1>9, <2>2 DEF Arrived, Nodes
  <2> QED BY <2>1, <2>2
<1> HIDE DEF to
<1>10. ASSUME NEW p \in Owed(d, name, FALSE)
       PROVE  p \in Path /\ p = to /\ (Pending(p)' \/ (~skip /\ Coming(Front(p))))
  BY <1>0, OwedIs DEF to
<1>11. unseen' \subseteq Path
  BY <1>0, <1>10 DEF TypeOK, Path
<1>12. ASSUME NEW p \in unseen
       PROVE  \A g \in Files : path[g] = p => path'[g] = p
  <2>1. p # Nowhere
    BY <1>0, DirWatchAssumption DEF TypeOK
  <2> QED BY <1>1, <1>5, <2>1 DEF Nodes
<1>13. ASSUME NEW p \in unseen'
       PROVE  \/ p \in unseen /\ \A g \in Files : path[g] = p => path'[g] = p
              \/ ~skip /\ Coming(Front(p)) /\ \E g \in Files : path'[g] = p
              \/ Pending(p)'
  BY <1>0, <1>5, <1>10, <1>12, <1>13
<1>14. \A m \in Nodes : path'[m] = Nowhere => wds'[m] = 0
  BY <1>0, <1>2, <1>5 DEF IInv, Unwatched
<1> QED
  BY <1>0, <1>4, <1>6, <1>8, <1>9, <1>11, <1>13, <1>14, Changed DEF TypeOK

LEMMA UnlinkStep ==
  ASSUME IInv, NEW n \in Nodes, NEW d \in Dirs, NEW name \in Names, Unlink(n, d, name)
  PROVE  IInv'
<1>0. /\ UNCHANGED walk /\ stray' = stray /\ TypeOK /\ d \in Nodes
      /\ Holds(d, name, n) /\ Below(n) = {n}
      /\ path' = [path EXCEPT ![n] = Nowhere] /\ wds' = [wds EXCEPT ![n] = 0]
      /\ inotify' = Queued(Queued(Queued(inotify, n, NoName), n, NoName), d, name)
      /\ unseen' = IF n \in Files THEN (unseen \ {path[n]}) \cup Owed(d, name, TRUE) ELSE unseen
  BY DEF Unlink, IInv, Nodes
<1>1. d \in Dirs \cap Placed /\ n \in Placed /\ n # Top /\ path[n] = Append(path[d], name)
  BY <1>0, HoldsIs
<1>2. IsTree(path) /\ path[n] # Nowhere
  BY <1>0, <1>1 DEF TypeOK, Placed
<1>3. \A m \in Nodes : path[m] # Nowhere /\ IsPrefix(path[n], path[m]) => m = n
  BY <1>0 DEF Below, Placed
<1>4. IsTree(path')
  BY <1>0, <1>1, <1>2, <1>3, TreeUnlink
<1>5. path'[n] = Nowhere /\ \A m \in Nodes : m # n => path'[m] = path[m]
  BY <1>0 DEF TypeOK, IsTree
<1>6. IsQueue(inotify) /\ _hash \in Seq(Path) /\ wds \in [Nodes -> 0..Len(_hash)]
  BY DEF IInv, TypeOK, QueueOK, Path
<1>7. /\ wds' \in [Nodes -> 0..Len(_hash)] /\ wds'[n] = 0
      /\ \A m \in Nodes : m # n => wds'[m] = wds[m]
  BY <1>0, <1>6, LenProperties
<1>8. IsQueue(inotify') /\ Range(inotify) \subseteq Range(inotify')
  <2> DEFINE q1 == Queued(inotify, n, NoName) q2 == Queued(q1, n, NoName)
  <2>1. IsQueue(q1) /\ Range(inotify) \subseteq Range(q1)
    BY <1>6, QueuedIs
  <2> HIDE DEF q1
  <2>2. IsQueue(q2) /\ Range(q1) \subseteq Range(q2)
    BY <1>6, <2>1, QueuedIs
  <2> HIDE DEF q2
  <2>3. IsQueue(Queued(q2, d, name)) /\ Range(q2) \subseteq Range(Queued(q2, d, name))
    BY <1>0, <1>6, <2>2, QueuedIs
  <2>4. inotify' = Queued(q2, d, name)
    BY <1>0 DEF q1, q2
  <2> QED BY <2>1, <2>2, <2>3, <2>4
<1>9. ASSUME NEW e \in Dirs, path'[e] # Nowhere, e \notin stray'
      PROVE  path'[e] = path[e] /\ e \notin stray /\ wds'[e] = wds[e]
  BY <1>0, <1>5, <1>7, <1>9 DEF Nodes
<1>10. ASSUME NEW p \in Owed(d, name, TRUE) PROVE p \in Path /\ Pending(p)'
  BY <1>0, <1>1, OwedIs
<1>11. unseen' \subseteq Path
  BY <1>0, <1>10 DEF TypeOK, Path
<1>12. ASSUME NEW p \in unseen'
       PROVE  \/ p \in unseen /\ \A g \in Files : path[g] = p => path'[g] = p
              \/ Pending(p)'
  <2>1. CASE n \in Files /\ p \in Owed(d, name, TRUE)
    BY <1>10, <2>1
  <2>2. CASE p \in unseen /\ (n \in Files => p # path[n])
    BY <1>5, <2>2 DEF Nodes
  <2> QED BY <1>0, <1>12, <2>1, <2>2
<1>13. \A m \in Nodes : path'[m] = Nowhere => wds'[m] = 0
  BY <1>5, <1>7 DEF IInv, Unwatched
<1> QED
  BY <1>0, <1>4, <1>7, <1>8, <1>9, <1>11, <1>12, <1>13, Changed DEF TypeOK

LEMMA RenameStep ==
  ASSUME IInv, NEW n \in Nodes, NEW from \in Dirs, NEW old \in Names,
         NEW d \in Dirs, NEW name \in Names, Rename(n, from, old, d, name)
  PROVE  IInv'
<1> DEFINE to == Append(path[d], name)
<1>0. /\ UNCHANGED walk /\ wds' = wds /\ TypeOK /\ d \in Nodes /\ from \in Nodes
      /\ Holds(from, old, n) /\ d \in Dirs \cap Placed /\ d \notin Below(n) /\ NodesAt(to) = {}
      /\ path' = [m \in Nodes |-> IF m \in Below(n) THEN Moved(n, path[m], to) ELSE path[m]]
      /\ inotify' = Queued(Queued(inotify, from, old), d, name)
      /\ unseen' = IF n \in Files
                   THEN (unseen \ {path[n], path'[n]})
                          \cup Owed(from, old, TRUE) \cup Owed(d, name, FALSE)
                   ELSE {p \in unseen : ~IsPrefix(path[n], p)}
      /\ Arrived(Below(n) \cap Dirs)
  BY DEF Rename, IInv, Nodes
<1>1. /\ from \in Dirs \cap Placed /\ n \in Placed /\ n # Top
      /\ path[n] \in Path /\ path[n] # Nowhere /\ path[d] \in Path /\ path[d] # Nowhere
      /\ Len(path[n]) \in Nat /\ IsTree(path)
  BY <1>0, HoldsIs, TreePaths DEF Placed, TypeOK
<1>2. to \in Path /\ to # Nowhere /\ Front(to) = path[d]
  BY <1>1, CutAppend, DirWatchAssumption DEF Path
<1>3. \A m \in Nodes : path[m] # to
  BY <1>0, <1>2 DEF NodesAt, Placed
<1>4. \A m \in Nodes : m \in Below(n) <=> path[m] # Nowhere /\ IsPrefix(path[n], path[m])
  BY DEF Below, Placed
<1>5. ~IsPrefix(path[n], path[d])
  BY <1>0, <1>1, <1>4
<1>6. path' = [m \in Nodes |-> IF path[m] # Nowhere /\ IsPrefix(path[n], path[m])
                               THEN Shift(path[m], Len(path[n]), to) ELSE path[m]]
  BY <1>0, <1>4 DEF Moved, Shift
<1>7. IsTree(path')
  BY <1>1, <1>3, <1>5, <1>6, TreeRename
<1> HIDE DEF to
<1>8. \A m \in Nodes : m \notin Below(n) => path'[m] = path[m]
  BY <1>0
<1>9. IsQueue(inotify') /\ Range(inotify) \subseteq Range(inotify')
  <2>1. IsQueue(inotify) /\ _hash \in Seq(Path) /\ wds \in [Nodes -> 0..Len(_hash)]
    BY DEF IInv, TypeOK, QueueOK, Path
  <2> DEFINE q == Queued(inotify, from, old)
  <2>2. IsQueue(q) /\ Range(inotify) \subseteq Range(q)
    BY <1>0, <2>1, QueuedIs
  <2> HIDE DEF q
  <2>3. IsQueue(Queued(q, d, name)) /\ Range(q) \subseteq Range(Queued(q, d, name))
    BY <1>0, <2>1, <2>2, QueuedIs
  <2> QED BY <1>0, <2>2, <2>3 DEF q
<1>10. stray' \subseteq Dirs
  BY <1>0 DEF Arrived, TypeOK
<1>11. ASSUME NEW e \in Dirs, path'[e] # Nowhere, e \notin stray'
       PROVE  \/ path'[e] = path[e] /\ e \notin stray /\ wds'[e] = wds[e]
              \/ wds'[e] = 0 /\ (Reached(path'[e]) => Coming(path'[e]))
  <2>1. CASE e \in Below(n)
    BY <1>0, <1>11, <2>1 DEF Arrived
  <2>2. CASE e \notin Below(n)
    BY <1>0, <1>8, <1>11, <2>2 DEF Arrived, Nodes
  <2> QED BY <2>1, <2>2
<1>12. \A m \in Nodes : path'[m] = Nowhere => wds'[m] = 0
  <2>1. ASSUME NEW m \in Below(n) PROVE path'[m] # Nowhere
    <3>1. m \in Nodes /\ path[m] \in Path /\ Len(path[m]) \in Nat /\ IsPrefix(path[n], path[m])
      BY <1>1, <2>1, TreePaths DEF Below, Placed
    <3>2. Len(path[n]) \in 0..Len(path[m])
      BY <1>1, <3>1, PrefixIs
    <3>3. Shift(path[m], Len(path[n]), to) \in Path
      BY <1>2, <3>1, <3>2, ShiftIs
    <3>4. path'[m] = Shift(path[m], Len(path[n]), to)
      BY <1>4, <1>6, <2>1, <3>1
    <3> QED BY <3>3, <3>4, DirWatchAssumption DEF Path
  <2> QED BY <1>0, <1>8, <2>1 DEF IInv, Unwatched
<1>13. CASE n \in Files
  <2>1. ASSUME NEW m \in Below(n) PROVE m = n
    <3>1. m \in Nodes /\ path[m] # Nowhere /\ IsPrefix(path[n], path[m])
      BY <2>1 DEF Below, Placed
    <3>2. SUFFICES ASSUME path[m] # path[n] PROVE FALSE
      BY <1>1, <3>1 DEF IsTree
    <3>3. PICK e \in Dirs : path[e] = path[n]
      BY <1>1, <3>1, <3>2, ClosedAt
    <3>4. e = n
      BY <1>1, <3>3 DEF IsTree, Nodes
    <3> QED BY <1>13, <3>4, DirWatchAssumption
  <2>2. path'[n] = to
    <3>1. IsPrefix(path[n], path[n])
      BY <1>1 DEF IsPrefix
    <3>2. path'[n] = Shift(path[n], Len(path[n]), to)
      BY <1>1, <1>6, <3>1
    <3>3. SubSeq(path[n], Len(path[n]) + 1, Len(path[n])) = << >>
      BY <1>1, SubSeqEmpty
    <3>4. to \o << >> = to
      BY <1>2, ConcatEmptySeq DEF Path
    <3> QED BY <3>2, <3>3, <3>4 DEF Shift
  <2>3. unseen' = (unseen \ {path[n], to}) \cup Owed(from, old, TRUE) \cup Owed(d, name, FALSE)
    BY <1>0, <1>13, <2>2
  <2>4. ASSUME NEW p \in Owed(from, old, TRUE) PROVE p \in Path /\ Pending(p)'
    BY <1>0, <1>1, OwedIs
  <2>5. ASSUME NEW p \in Owed(d, name, FALSE)
        PROVE  p \in Path /\ p = to /\ (Pending(p)' \/ (~skip /\ Coming(Front(p))))
    BY <1>0, OwedIs DEF to
  <2>6. unseen' \subseteq Path
    BY <1>0, <2>3, <2>4, <2>5 DEF TypeOK, Path
  <2>7. ASSUME NEW p \in unseen'
        PROVE  \/ p \in unseen /\ \A g \in Files : path[g] = p => path'[g] = p
               \/ ~skip /\ Coming(Front(p)) /\ \E g \in Files : path'[g] = p
               \/ Pending(p)'
    <3>1. CASE p \in Owed(from, old, TRUE)
      BY <2>4, <3>1
    <3>2. CASE p \in Owed(d, name, FALSE)
      BY <1>13, <2>2, <2>5, <3>2
    <3>3. CASE p \in unseen /\ p # path[n]
      BY <1>8, <2>1, <3>3 DEF Nodes
    <3> QED BY <2>3, <2>7, <3>1, <3>2, <3>3
  <2> QED
    BY <1>0, <1>7, <1>9, <1>10, <1>11, <1>12, <2>6, <2>7, Changed DEF TypeOK
<1>14. CASE n \notin Files
  <2>1. unseen' = {p \in unseen : ~IsPrefix(path[n], p)}
    BY <1>0, <1>14
  <2>2. unseen' \subseteq Path
    BY <1>0, <2>1 DEF TypeOK, Path
  <2>3. ASSUME NEW p \in unseen'
        PROVE  p \in unseen /\ \A g \in Files : path[g] = p => path'[g] = p
    <3>1. \A g \in Files : path[g] = p => g \notin Below(n)
      BY <1>4, <2>1 DEF Nodes
    <3> QED BY <1>8, <2>1, <3>1 DEF Nodes
  <2> QED
    BY <1>0, <1>7, <1>9, <1>10, <1>11, <1>12, <2>2, <2>3, Changed DEF TypeOK
<1> QED
  BY <1>13, <1>14
-------------------------------------------------------------------------------
(* The steps of the walk and of the loop.                                   *)
LEMMA DirectoryOf ==
  ASSUME TypeOK, NEW f \in Files, path[f] # Nowhere
  PROVE  \E d \in Dirs \cap Placed, a \in Names :
           path[d] = Front(path[f]) /\ path[f] = Append(path[d], a)
<1> DEFINE p == path[f] k == Len(p) - 1
<1>0. IsTree(path) /\ f \in Nodes /\ Top \in Nodes /\ f # Top
  BY DirWatchAssumption DEF TypeOK, Nodes
<1>1. p \in Path /\ Len(p) \in Nat
  BY <1>0, TreePaths
<1>2. p # << >>
  BY <1>0 DEF IsTree
<1>3. Len(p) # 0
  BY <1>1, <1>2, EmptySeq DEF Path
<1>4. k \in 0..Len(p) - 1 /\ k + 1 = Len(p) /\ k \in 0..Len(p)
  BY <1>1, <1>3
<1>5. PICK d \in Dirs : path[d] = SubSeq(p, 1, k)
  BY <1>0, <1>4 DEF IsTree
<1>6. Front(p) = SubSeq(p, 1, k)
  BY DEF Front
<1> HIDE DEF k
<1>7. p[k + 1] \in Names /\ SubSeq(p, 1, k + 1) = Append(SubSeq(p, 1, k), p[k + 1])
  BY <1>1, <1>4, CutStep
<1>8. SubSeq(p, 1, k + 1) = p
  BY <1>1, <1>4, SubSeqFull DEF Path
<1>9. d \in Placed
  BY <1>1, <1>4, <1>5, Cuts, DirWatchAssumption DEF Placed, Nodes, Path
<1> QED
  BY <1>5, <1>6, <1>7, <1>8, <1>9

LEMMA QueueTop ==
  ASSUME TypeOK, _queue # << >>
  PROVE  /\ Last(_queue) \in Path /\ Front(_queue) \in Seq(Path)
         /\ Range(_queue) = Range(Front(_queue)) \cup {Last(_queue)}
<1> DEFINE l == Len(_queue)
<1>1. _queue \in Seq(Path) /\ l \in Nat \ {0} /\ DOMAIN _queue = 1..l
  BY EmptySeq, LenProperties DEF TypeOK, Path
<1>2. Last(_queue) = _queue[l] /\ l \in 1..l
  BY <1>1 DEF Last
<1>3. Front(_queue) = SubSeq(_queue, 1, l - 1)
  BY DEF Front
<1>4. /\ Front(_queue) \in Seq(Path) /\ Len(Front(_queue)) = l - 1
      /\ \A i \in 1..l - 1 : Front(_queue)[i] = _queue[i]
  <2>1. \A i \in 1..l - 1 : _queue[i] \in Path
    BY <1>1
  <2> QED BY <1>1, <1>3, <2>1, SubSeqProperties
<1>5. DOMAIN Front(_queue) = 1..l - 1
  BY <1>1, <1>4, LenProperties
<1>6. Last(_queue) \in Path
  BY <1>1, <1>2, ElementOfSeq
<1>7. ASSUME NEW q \in Range(_queue) PROVE q \in Range(Front(_queue)) \cup {Last(_queue)}
  <2>1. PICK i \in 1..l : _queue[i] = q
    BY <1>1 DEF Range
  <2>2. CASE i = l
    BY <1>2, <2>1, <2>2
  <2>3. CASE i # l
    <3>0. l \in Nat /\ i \in 1..l
      BY <1>1
    <3>1. i \in 1..l - 1
      <4> HIDE DEF l
      <4> QED BY <2>3, <3>0
    <3> QED BY <1>4, <1>5, <2>1, <3>1 DEF Range
  <2> QED BY <2>2, <2>3
<1>8. \A i \in 1..l - 1 : i \in 1..l
  BY <1>1
<1> HIDE DEF l
<1>9. Range(Front(_queue)) \subseteq Range(_queue) /\ Last(_queue) \in Range(_queue)
  BY <1>1, <1>2, <1>4, <1>5, <1>8 DEF Range
<1> QED
  BY <1>4, <1>6, <1>7, <1>9

(* What a turn of the walk does: it takes a path from the stack, and lists a  *)
(* directory that is to be monitored in its place.                          *)
Passes(name) ==
  /\ _queue' = Front(_queue) /\ ~Isdir(name)
  /\ entry' = name /\ pc' = IF skip THEN "next" ELSE "judge"

Skips(name) ==
  /\ _queue' = Front(_queue) /\ pc' = pc /\ entry' = entry
  /\ NodesAt(name) = {} \/ ~need_mon(name)

Enters(name, d, listing) ==
  /\ _queue' = Front(_queue) \o listing /\ entry' = name /\ pc' = "watch"
  /\ d \in NodesAt(name) /\ listing \in Listings(d)

Refused(name) ==
  /\ _queue' = Front(_queue) /\ pc' = pc /\ entry' = entry
  /\ Isdir(name) /\ GivenUp(name)

LEMMA NextSplit ==
  ASSUME NextEntry
  PROVE  /\ pc = "next" /\ _queue # << >>
         /\ UNCHANGED <<tree, kernel, _hash, skip, roots>>
         /\ \/ Refused(Last(_queue))
            \/ /\ UNCHANGED <<unseen, stray>>
               /\ \/ Passes(Last(_queue)) \/ Skips(Last(_queue))
                  \/ \E d \in Dirs : \E listing \in Listings(d) : Enters(Last(_queue), d, listing)
BY DEF NextEntry, Continue, Passes, Skips, Enters, Refused

(* Only what is below a directory that was refused loses a promise.           *)
LEMMA NextLoses ==
  ASSUME NextEntry
  PROVE  /\ stray \subseteq stray' /\ stray' \subseteq stray \cup Dirs
         /\ unseen' \subseteq unseen
         /\ stray' # stray \/ unseen' # unseen => Refused(Last(_queue))
BY NextSplit DEF Refused, GivenUp

LEMMA NextQueue ==
  ASSUME TypeOK, NextEntry
  PROVE  /\ _queue' \in Seq(Path) /\ Range(Front(_queue)) \subseteq Range(_queue')
         /\ \A d \in Dirs, listing \in Seq(Path) :
              Enters(Last(_queue), d, listing) => Range(listing) \subseteq Range(_queue')
<1>1. Front(_queue) \in Seq(Path) /\ IsTree(path)
  BY NextSplit, QueueTop DEF TypeOK
<1>2. ASSUME NEW d, NEW listing \in Seq(Path), Enters(Last(_queue), d, listing)
      PROVE  /\ _queue' \in Seq(Path) /\ Range(Front(_queue)) \subseteq Range(_queue')
             /\ Range(listing) \subseteq Range(_queue')
  <2>1. _queue' = Front(_queue) \o listing
    BY <1>2 DEF Enters
  <2> QED BY <1>1, <2>1, ConcatProperties, RangeConcatenation
<1>3. CASE _queue' = Front(_queue)
  BY <1>1, <1>2, <1>3
<1>4. CASE \E d \in Dirs : \E listing \in Listings(d) : Enters(Last(_queue), d, listing)
  <2>1. PICK d \in Dirs : \E listing \in Listings(d) : Enters(Last(_queue), d, listing)
    BY <1>4
  <2>2. PICK listing \in Listings(d) : Enters(Last(_queue), d, listing)
    BY <2>1
  <2>3. listing \in Seq(Path)
    BY <1>1, ListingIs
  <2> QED BY <1>2, <2>2, <2>3
<1> QED
  BY <1>3, <1>4, NextSplit DEF Passes, Skips, Refused

LEMMA RootsLeft ==
  ASSUME TypeOK, roots # << >>
  PROVE  /\ Len(roots) \in Nat \ {0} /\ Head(roots) = roots[1]
         /\ Tail(roots) \in Seq(Range(Roots)) /\ Len(Tail(roots)) = Len(roots) - 1
         /\ \A i \in 1..Len(roots) - 1 : Tail(roots)[i] = roots[i + 1]
         /\ \A i \in 1..Len(roots) : roots[i].path \in Path /\ roots[i].recursive \in BOOLEAN
<1>1. roots \in Seq(Range(Roots))
  BY DEF TypeOK
<1>2. Len(roots) \in Nat \ {0} /\ Head(roots) = roots[1]
  BY <1>1, EmptySeq
<1>3. /\ Tail(roots) \in Seq(Range(Roots)) /\ Len(Tail(roots)) = Len(roots) - 1
      /\ \A i \in 1..Len(Tail(roots)) : Tail(roots)[i] = roots[i + 1]
  BY <1>1, HeadTailProperties
<1>4. \A i \in 1..Len(roots) : roots[i] \in Range(Roots)
  BY <1>1, ElementOfSeq
<1>5. \A r \in Range(Roots) : r.path \in Path /\ r.recursive \in BOOLEAN
  BY RootsAre
<1> QED
  BY <1>2, <1>3, <1>4, <1>5

(* What the walk is to come to, it still is after a turn, or has just listed, *)
(* unless it was refused.                                                  *)
LEMMA NextComing ==
  ASSUME IInv, NextEntry, NEW d \in Dirs \cap Placed, Coming(path[d])
  PROVE  \/ Coming(path[d])'
         \/ Refused(Last(_queue)) /\ Forgotten(Last(_queue), path[d])
         \/ /\ pc' = "watch" /\ entry' = path[d]
            /\ \A f \in Files, a \in Names :
                 path[f] = Append(path[d], a) => path[f] \in Range(_queue')
<1> DEFINE name == Last(_queue) r == Head(roots).recursive p == path[d]
<1>a. TypeOK /\ roots # << >>
  BY NextSplit DEF IInv, WalkOK
<1>b. r \in BOOLEAN
  <2>1. 1 \in 1..Len(roots)
    BY <1>a, RootsLeft
  <2> QED BY <1>a, <2>1, RootsLeft
<1>0. /\ IsTree(path) /\ d \in Nodes /\ p \in Path /\ path' = path /\ roots' = roots
      /\ name \in Path /\ Range(_queue) = Range(Front(_queue)) \cup {name}
  BY <1>a, NextSplit, QueueTop, TreePaths DEF TypeOK, Placed, Nodes, tree
<1>1. ASSUME NEW q \in Range(_queue'), Leads(q, r, p)
      PROVE  Coming(path[d])'
  BY <1>0, <1>1 DEF Coming
<1>2. CASE \E i \in 2..Len(roots) : Leads(roots[i].path, roots[i].recursive, p)
  BY <1>0, <1>2 DEF Coming
<1>3. CASE \E q \in Range(Front(_queue)) : Leads(q, r, p)
  BY <1>a, <1>1, <1>3, NextQueue
<1>4. CASE Leads(name, r, p)
  <2> HIDE DEF name, r
  <2>1. PICK e \in Dirs \cap Placed : path[e] = name /\ NodesAt(name) = {e} /\ Isdir(name)
    BY <1>0, <1>b, <1>4, LeadsThere
  <2>2. /\ IsPrefix(name, p) /\ need_mon(name)
        /\ name # p => /\ r /\ Len(name) + 1 \in 1..Len(p)
                       /\ Leads(SubSeq(p, 1, Len(name) + 1), r, p)
    BY <1>0, <1>b, <1>4, LeadsDown
  <2>a. CASE Refused(name)
    <3>1. ~Coming(path[d])' => Forgotten(name, path[d])
      BY <2>2 DEF Forgotten
    <3> QED BY <2>a, <3>1 DEF name
  <2>b. CASE ~Refused(name)
    <3>3. PICK listing \in Listings(e) : Enters(name, e, listing)
      BY <2>1, <2>2, <2>b, NextSplit DEF Passes, Skips, Enters, name
    <3>4. /\ listing \in Seq(Path)
          /\ Range(listing) = {q \in {path[n] : n \in Placed} :
               /\ \E a \in Names : q = Append(name, a)
               /\ ~Isdir(q) \/ r}
      BY <1>0, <2>1, ListingIs DEF r
    <3>5. Range(listing) \subseteq Range(_queue')
      BY <1>a, <2>1, <3>3, <3>4, NextQueue DEF name
    <3>6. CASE name = p
      <4>1. pc' = "watch" /\ entry' = path[d]
        BY <3>3, <3>6 DEF Enters
      <4>2. ASSUME NEW f \in Files, NEW a \in Names, path[f] = Append(path[d], a)
            PROVE  path[f] \in Range(_queue')
        <5>1. path[f] \in Path
          BY <1>0, <4>2, CutAppend
        <5>2. f \in Placed
          BY <5>1, DirWatchAssumption DEF Placed, Nodes, Path
        <5>3. ~Isdir(path[f])
          BY <5>2 DEF Isdir, NodesAt
        <5> QED BY <3>4, <3>5, <3>6, <4>2, <5>2, <5>3
      <4> QED BY <4>1, <4>2
    <3>7. CASE name # p
      <4> DEFINE k == Len(name) + 1 c == SubSeq(p, 1, k)
      <4>0. Len(name) \in 0..Len(p) - 1 /\ k \in 0..Len(p) /\ name = SubSeq(p, 1, Len(name))
        BY <1>0, <2>2, <3>7, PrefixIs DEF Path
      <4>1. p[k] \in Names /\ c = Append(name, p[k])
        BY <1>0, <4>0, CutStep
      <4>2. c \in Path /\ IsPrefix(c, p)
        BY <1>0, <4>0, Cuts, CutIsPrefix
      <4>3. r /\ Leads(c, r, p)
        BY <2>2, <3>7
      <4> HIDE DEF c
      <4>4. \E n \in Placed : path[n] = c
        <5>1. CASE c = p
          BY <5>1
        <5>2. CASE c # p
          <6>1. p # Nowhere
            BY <1>0, DirWatchAssumption DEF Path
          <6>2. PICK n \in Dirs : path[n] = c
            BY <1>0, <4>2, <5>2, <6>1, ClosedAt
          <6> QED BY <4>2, <6>2, DirWatchAssumption DEF Placed, Nodes, Path
        <5> QED BY <5>1, <5>2
      <4>5. c \in Range(listing)
        BY <3>4, <4>1, <4>3, <4>4
      <4> QED BY <1>1, <3>5, <4>3, <4>5 DEF r
    <3> QED BY <3>6, <3>7
  <2> QED BY <2>a, <2>b
<1> QED
  BY <1>0, <1>2, <1>3, <1>4 DEF Coming

LEMMA NextStep == IInv /\ NextEntry => IInv'
<1> SUFFICES ASSUME IInv, NextEntry PROVE IInv'
  OBVIOUS
<1> DEFINE name == Last(_queue)
<1>0. /\ TypeOK /\ IsTree(path) /\ pc = "next" /\ roots # << >>
      /\ path' = path /\ wds' = wds /\ inotify' = inotify /\ _hash' = _hash /\ skip' = skip
      /\ roots' = roots /\ unseen' \subseteq unseen /\ stray \subseteq stray'
      /\ stray' \subseteq stray \cup Dirs
  BY NextSplit, NextLoses DEF IInv, WalkOK, TypeOK, tree, kernel
<1>1. /\ name \in Path /\ Range(_queue) = Range(Front(_queue)) \cup {name}
      /\ _queue' \in Seq(Path) /\ Range(Front(_queue)) \subseteq Range(_queue')
  BY <1>0, NextSplit, NextQueue, QueueTop
<1>2. \A p : Pending(p)' <=> Pending(p)
  BY <1>0 DEF Pending
<1>3. IsQueue(inotify)' /\ QueueOK'
  BY <1>0 DEF IInv, QueueOK, IsQueue, Events
<1>4. /\ pc' \in {"next", "judge", "watch"} /\ entry' \in Path
      /\ pc' = pc \/ entry' = name
  <2>1. entry \in Path
    BY <1>0 DEF TypeOK, Path
  <2> QED BY <1>0, <1>1, <2>1, NextSplit DEF Passes, Skips, Enters, Refused
<1>5. TypeOK'
  BY <1>0, <1>1, <1>4 DEF TypeOK, Path
<1>6. WalkOK' /\ Unwatched' /\ TableTrue'
  BY <1>0, <1>4 DEF IInv, WalkOK, Unwatched, TableTrue, Placed
<1>7. Covered'
  <2> SUFFICES ASSUME NEW d \in Dirs, path[d] # Nowhere, d \notin stray',
                      Reached(path[d]), wds[d] = 0
               PROVE  Window(d)' \/ Coming(path[d])'
    BY <1>0 DEF Covered, Placed, Reached
  <2>1. d \in Dirs \cap Placed
    BY DEF Placed, Nodes
  <2>2. Coming(path[d])
    BY <1>0, <2>1 DEF IInv, Covered, Window
  <2>3. ~(Refused(name) /\ Forgotten(name, path[d]))
    BY <2>1 DEF Refused, GivenUp
  <2>4. Coming(path[d])' \/ (pc' = "watch" /\ entry' = path[d])
    BY <2>1, <2>2, <2>3, NextComing
  <2> QED BY <1>0, <2>4 DEF Window
<1>8. Kept'
  <2> SUFFICES ASSUME NEW p \in unseen', ~Pending(p)
               PROVE  ~skip /\ Visited(p)' /\ \E f \in Files : path[f] = p
    BY <1>0, <1>2 DEF Kept
  <2>1. ~skip /\ Visited(p) /\ \E f \in Files : path[f] = p
    BY <1>0 DEF IInv, Kept
  <2>2. PICK f \in Files : path[f] = p
    BY <2>1
  <2>3. p \in Path /\ f \in Nodes /\ p # Nowhere
    BY <1>0, DirWatchAssumption DEF TypeOK, Path, Nodes
  <2>4. CASE p \in Range(Front(_queue))
    BY <1>1, <2>1, <2>4 DEF Visited
  <2>5. CASE p = name
    <3>1. NodesAt(name) = {f}
      BY <1>0, <2>2, <2>3, <2>5 DEF NodesAt, Placed, IsTree
    <3>2. ~Isdir(name) /\ f \notin Dirs
      BY <3>1, DirWatchAssumption DEF Isdir
    <3>3. Passes(name) \/ Skips(name)
      BY <3>1, <3>2, NextSplit DEF Enters, Refused
    <3>4. Passes(name)
      BY <3>1, <3>2, <3>3, NextSplit DEF NextEntry, Continue, Skips, Passes, Enters
    <3> QED BY <2>1, <2>5, <3>4 DEF Passes, Visited
  <2>6. CASE Coming(Front(p))
    <3>1. PICK d \in Dirs \cap Placed, a \in Names :
            path[d] = Front(p) /\ p = Append(path[d], a)
      BY <1>0, <2>2, <2>3, DirectoryOf
    <3>2. Refused(name) /\ Forgotten(name, path[d]) => p \in Range(_queue')
      <4>1. Forgotten(name, path[d]) => Forgotten(name, Front(p))
        BY <1>0, <3>1 DEF Forgotten, Coming
      <4> QED BY <4>1 DEF Refused, GivenUp
    <3>3. Coming(path[d])' \/ p \in Range(_queue')
      BY <2>2, <2>6, <3>1, <3>2, NextComing
    <3>4. Coming(path[d])' => Coming(Front(p))'
      BY <1>0, <3>1 DEF Coming
    <3> QED BY <2>1, <3>3, <3>4 DEF Visited
  <2> QED BY <1>0, <1>1, <2>1, <2>4, <2>5, <2>6 DEF Visited
<1> QED
  BY <1>3, <1>5, <1>6, <1>7, <1>8 DEF IInv

LEMMA WalkDoneStep == IInv /\ WalkDone => IInv'
<1> SUFFICES ASSUME IInv, WalkDone PROVE IInv'
  OBVIOUS
<1>0. /\ TypeOK /\ IsTree(path) /\ pc = "next" /\ roots # << >> /\ _queue = << >>
      /\ path' = path /\ wds' = wds /\ inotify' = inotify /\ _hash' = _hash /\ skip' = skip
      /\ unseen' = unseen /\ stray' = stray /\ entry' = entry /\ roots' = Tail(roots)
      /\ IF roots' = << >> THEN pc' = "loop" /\ _queue' = _queue
                           ELSE _queue' = << Head(roots').path >> /\ pc' = pc
  BY DEF WalkDone, IInv, WalkOK, TypeOK, tree, kernel
<1>1. \A p : Pending(p)' <=> Pending(p)
  BY <1>0 DEF Pending
<1>2. /\ Len(roots) \in Nat \ {0} /\ roots' \in Seq(Range(Roots)) /\ Len(roots') = Len(roots) - 1
      /\ \A i \in 1..Len(roots) - 1 : roots'[i] = roots[i + 1]
  BY <1>0, RootsLeft
<1>3. ASSUME roots' # << >>
      PROVE  /\ Len(roots) \in Nat \ {0, 1} /\ Head(roots') = roots[2] /\ roots[2].path \in Path
             /\ _queue' = << roots[2].path >>
  <2>1. Len(roots') \in Nat \ {0} /\ Head(roots') = roots'[1]
    BY <1>2, <1>3, EmptySeq
  <2>2. Len(roots) \in Nat \ {0, 1} /\ 1 \in 1..Len(roots) - 1 /\ 2 \in 1..Len(roots)
    BY <1>2, <2>1
  <2>3. roots'[1] = roots[2]
    BY <1>2, <2>2
  <2> QED BY <1>0, <1>3, <2>1, <2>2, <2>3, RootsLeft
<1>4. ASSUME NEW p, Coming(p) PROVE Coming(p)'
  <2>1. Range(_queue) = {}
    BY <1>0 DEF Range
  <2>2. PICK i \in 2..Len(roots) : Leads(roots[i].path, roots[i].recursive, p)
    BY <1>4, <2>1 DEF Coming
  <2>3. roots' # << >>
    BY <1>2, <2>2
  <2>4. CASE i = 2
    <3>1. roots[2].path \in Range(_queue')
      BY <1>3, <2>3 DEF Range
    <3> QED BY <1>3, <2>2, <2>3, <2>4, <3>1 DEF Coming
  <2>5. CASE i # 2
    <3>1. i - 1 \in 2..Len(roots') /\ i - 1 \in 1..Len(roots) - 1 /\ (i - 1) + 1 = i
      BY <1>2, <2>2, <2>5
    <3>2. roots'[i - 1] = roots[i]
      BY <1>2, <3>1
    <3> QED BY <2>2, <3>1, <3>2 DEF Coming
  <2> QED BY <2>4, <2>5
<1>5. TypeOK'
  <2>1. _queue' \in Seq(Path)
    <3>1. CASE roots' = << >>
      BY <1>0, <3>1 DEF TypeOK, Path
    <3>2. CASE roots' # << >>
      <4>1. roots[2].path \in Path /\ _queue' = << roots[2].path >>
        BY <1>3, <3>2
      <4>2. \A p \in Path : << p >> \in Seq(Path)
        OBVIOUS
      <4> QED BY <4>1, <4>2, Zenon
    <3> QED BY <3>1, <3>2
  <2>2. pc' \in {"next", "loop"}
    BY <1>0
  <2> QED BY <1>0, <1>2, <2>1, <2>2 DEF TypeOK, Path
<1>6. QueueOK' /\ WalkOK' /\ Unwatched' /\ TableTrue'
  BY <1>0 DEF IInv, WalkOK, Unwatched, TableTrue, Placed, QueueOK, IsQueue, Events
<1>7. Covered'
  <2> SUFFICES ASSUME NEW d \in Dirs, path[d] # Nowhere, d \notin stray,
                      Reached(path[d]), wds[d] = 0
               PROVE  Coming(path[d])'
    BY <1>0 DEF Covered, Placed, Reached
  <2>1. Coming(path[d])
    BY <1>0 DEF IInv, Covered, Window, Placed, Nodes
  <2>2. \A p : p = path[d] => Coming(p)'
    BY <1>4, <2>1
  <2> QED BY <1>0, <2>2 DEF Coming
<1>8. Kept'
  BY <1>0, <1>1, <1>4 DEF IInv, Kept, Visited, Range
<1> QED
  BY <1>5, <1>6, <1>7, <1>8 DEF IInv

LEMMA AddDirStep == IInv /\ AddDir => IInv'
<1> SUFFICES ASSUME IInv, AddDir PROVE IInv'
  OBVIOUS
<1>0. /\ TypeOK /\ IsTree(path) /\ pc = "watch" /\ pc' = "next" /\ roots # << >>
      /\ path' = path /\ inotify' = inotify /\ skip' = skip /\ roots' = roots
      /\ _queue' = _queue /\ entry' = entry /\ unseen' = unseen
      /\ stray \subseteq stray' /\ stray' \subseteq stray \cup Dirs
      /\ _hash \in Seq(Path) /\ entry \in Path
      /\ wds \in [Nodes -> 0..Len(_hash)] /\ Len(_hash) \in Nat
  BY DEF AddDir, IInv, WalkOK, TypeOK, tree, Path
<1>1. \A p : Coming(p)' <=> Coming(p)
  BY <1>0 DEF Coming
<1>2. \A n \in Nodes : n \in NodesAt(entry) <=> path[n] = entry
  BY <1>0, DirWatchAssumption DEF NodesAt, Placed, Path
<1>3. \A m, n \in Nodes : path[m] = entry /\ path[n] = entry => m = n
  BY <1>0, DirWatchAssumption DEF IsTree, Path
<1> DEFINE Refuses == \A d \in Dirs : path[d] = entry /\ wds[d] = 0 => d \in stray' \/ Coming(entry)
           Same == /\ _hash' = _hash /\ wds' = wds
                   /\ Refuses \/ \A m \in Nodes : path[m] = entry => wds[m] # 0
           Added(n) == /\ path[n] = entry /\ _hash' = Append(_hash, entry)
                       /\ wds' = [wds EXCEPT ![n] = Len(_hash) + 1]
<1>4. Same \/ \E n \in Nodes : Added(n)
  <2>1. CASE /\ UNCHANGED <<wds, _hash>>
             /\ stray' = stray \cup {d \in Dirs \cap NodesAt(entry) : wds[d] = 0 /\ ~Coming(entry)}
    <3>1. \A d \in Dirs : path[d] = entry => d \in Dirs \cap NodesAt(entry)
      BY <1>2 DEF Nodes
    <3> QED BY <2>1, <3>1
  <2>2. CASE \E n \in NodesAt(entry) : Enter(n)
    <3>1. PICK n \in NodesAt(entry) : Enter(n)
      BY <2>2
    <3>2. n \in Nodes /\ path[n] = entry
      BY <1>2, <3>1 DEF NodesAt, Placed
    <3>3. Len(Append(_hash, entry)) = Len(_hash) + 1
      BY <1>0, AppendProperties
    <3> QED BY <1>3, <3>1, <3>2, <3>3 DEF Enter
  <2> QED BY <2>1, <2>2 DEF AddDir
<1>5. /\ _hash' \in Seq(Path) /\ Len(_hash') \in Nat /\ Len(_hash) <= Len(_hash')
      /\ \A i \in 1..Len(_hash) : _hash'[i] = _hash[i]
      /\ wds' \in [Nodes -> 0..Len(_hash')]
      /\ Refuses \/ \A m \in Nodes : path[m] = entry => wds'[m] # 0
      /\ \A m \in Nodes : \/ wds'[m] = wds[m]
                          \/ path[m] = entry /\ wds'[m] # 0 /\ _hash'[wds'[m]] = entry
  <2>1. CASE Same
    BY <1>0, <2>1
  <2>2. ASSUME NEW n \in Nodes, Added(n)
        PROVE  /\ _hash' \in Seq(Path) /\ Len(_hash') \in Nat /\ Len(_hash) <= Len(_hash')
               /\ \A i \in 1..Len(_hash) : _hash'[i] = _hash[i]
               /\ wds' \in [Nodes -> 0..Len(_hash')]
               /\ wds'[n] # 0 /\ _hash'[wds'[n]] = entry
               /\ \A m \in Nodes : m # n => wds'[m] = wds[m]
    <3>1. /\ _hash' \in Seq(Path) /\ Len(_hash') = Len(_hash) + 1
          /\ \A i \in 1..Len(_hash) : _hash'[i] = _hash[i]
          /\ _hash'[Len(_hash) + 1] = entry
      BY <1>0, <2>2, AppendProperties
    <3>2. wds' = [wds EXCEPT ![n] = Len(_hash) + 1]
      BY <2>2
    <3>3. wds' \in [Nodes -> 0..Len(_hash) + 1] /\ wds'[n] = Len(_hash) + 1
      BY <1>0, <3>2
    <3> QED BY <1>0, <3>1, <3>2, <3>3
  <2>3. CASE \E n \in Nodes : Added(n)
    <3>1. PICK n \in Nodes : Added(n)
      BY <2>3
    <3>2. \A m \in Nodes : path[m] = entry <=> m = n
      BY <1>3, <3>1
    <3> HIDE DEF Added
    <3> QED BY <2>2, <3>1, <3>2
  <2> QED BY <1>4, <2>1, <2>3
<1> HIDE DEF Same, Added, Refuses
<1>6. DOMAIN _hash = 1..Len(_hash) /\ DOMAIN _hash' = 1..Len(_hash')
  BY <1>0, <1>5, LenProperties
<1>7. Events \subseteq Events'
  <2>1. DOMAIN _hash \subseteq DOMAIN _hash'
    BY <1>0, <1>5, <1>6
  <2> QED BY <2>1 DEF Events
<1>8. IsQueue(inotify)'
  <2>1. inotify \in Seq(Events)
    BY DEF IInv, QueueOK, IsQueue
  <2>2. inotify \in Seq(Events')
    BY <1>7, <2>1, SeqMonotonic
  <2> QED BY <1>0, <2>2 DEF IInv, QueueOK, IsQueue
<1>9. TypeOK'
  BY <1>0, <1>5, <1>8 DEF TypeOK, IsQueue, Events, Path
<1>10. QueueOK' /\ WalkOK' /\ Unwatched'
  <2>1. Unwatched'
    BY <1>0, <1>5, DirWatchAssumption DEF IInv, Unwatched, Path
  <2> QED BY <1>0, <1>8, <2>1 DEF IInv, QueueOK, WalkOK
<1>11. TableTrue'
  <2> SUFFICES ASSUME NEW d \in Dirs, path[d] # Nowhere, d \notin stray', wds'[d] # 0
               PROVE  _hash'[wds'[d]] = path[d]
    BY <1>0 DEF TableTrue, Placed
  <2>1. d \in Nodes /\ d \in Placed /\ d \notin stray
    BY <1>0 DEF Placed, Nodes
  <2>2. CASE wds'[d] = wds[d]
    <3>1. wds[d] \in 1..Len(_hash)
      BY <1>0, <2>1, <2>2
    <3>2. _hash[wds[d]] = path[d]
      BY <2>1, <2>2 DEF IInv, TableTrue
    <3> QED BY <1>5, <2>2, <3>1, <3>2
  <2>3. CASE wds'[d] # wds[d]
    BY <1>5, <2>1, <2>3
  <2> QED BY <2>2, <2>3
<1>12. Covered'
  <2> SUFFICES ASSUME NEW d \in Dirs, path[d] # Nowhere, d \notin stray',
                      Reached(path[d]), wds'[d] = 0
               PROVE  Coming(path[d])'
    BY <1>0 DEF Covered, Placed, Reached
  <2>1. d \in Nodes /\ d \in Placed /\ d \notin stray
    BY <1>0 DEF Placed, Nodes
  <2>2. wds[d] = 0
    BY <1>5, <2>1
  <2>3. Coming(path[d])
    <3>1. CASE path[d] = entry
      BY <1>5, <2>1, <2>2, <3>1 DEF Refuses
    <3>2. CASE path[d] # entry
      BY <2>1, <2>2, <3>2 DEF IInv, Covered, Window
    <3> QED BY <3>1, <3>2
  <2> QED BY <1>0, <2>3 DEF Coming
<1>13. \A p : Pending(p) => Pending(p)'
  <2> SUFFICES ASSUME NEW p, NEW e \in Range(inotify), e.name # NoName,
                      Append(_hash[e.wd], e.name) = p
               PROVE  Pending(p)'
    BY DEF Pending
  <2>1. e \in Events
    BY RangeOfSeq DEF IInv, QueueOK, IsQueue
  <2>2. e.wd \in 1..Len(_hash)
    BY <1>6, <2>1 DEF Events, Overflow
  <2> QED BY <1>0, <1>5, <2>2 DEF Pending
<1>14. Kept'
  BY <1>0, <1>1, <1>13 DEF IInv, Kept, Visited
<1> QED
  BY <1>9, <1>10, <1>11, <1>12, <1>14 DEF IInv

LEMMA JudgeStep == IInv /\ Judge => IInv'
<1> SUFFICES ASSUME IInv, Judge PROVE IInv'
  OBVIOUS
<1>0. /\ TypeOK /\ IsTree(path) /\ pc = "judge" /\ pc' = "next" /\ unseen' = unseen \ {entry}
      /\ path' = path /\ wds' = wds /\ inotify' = inotify /\ _hash' = _hash /\ skip' = skip
      /\ roots' = roots /\ _queue' = _queue /\ entry' = entry /\ stray' = stray
  BY DEF Judge, IInv, TypeOK, tree, kernel
<1>1. \A p : (Coming(p)' <=> Coming(p)) /\ (Pending(p)' <=> Pending(p))
  BY <1>0 DEF Coming, Pending
<1>2. TypeOK' /\ QueueOK' /\ WalkOK' /\ Unwatched' /\ TableTrue'
  BY <1>0 DEF IInv, TypeOK, QueueOK, IsQueue, Events, WalkOK, Unwatched, TableTrue, Placed
<1>3. Covered'
  <2> SUFFICES ASSUME NEW d \in Dirs, path[d] # Nowhere, d \notin stray,
                      Reached(path[d]), wds[d] = 0
               PROVE  Coming(path[d])'
    BY <1>0 DEF Covered, Placed, Reached
  <2>1. Coming(path[d])
    BY <1>0 DEF IInv, Covered, Window, Placed, Nodes
  <2> QED BY <1>0, <2>1 DEF Coming
<1>4. Kept'
  BY <1>0, <1>1 DEF IInv, Kept, Visited
<1> QED
  BY <1>2, <1>3, <1>4 DEF IInv

LEMMA WatchStep == IInv /\ Watch => IInv'
<1> SUFFICES ASSUME IInv, Watch PROVE IInv'
  OBVIOUS
<1> DEFINE e == Head(inotify)
<1>0. /\ TypeOK /\ IsTree(path) /\ pc = "loop" /\ inotify # << >> /\ inotify' = Tail(inotify)
      /\ unseen' = IF e.name = NoName THEN unseen ELSE unseen \ {Append(_hash[e.wd], e.name)}
      /\ path' = path /\ wds' = wds /\ _hash' = _hash /\ skip' = skip /\ pc' = pc
      /\ roots' = roots /\ _queue' = _queue /\ entry' = entry /\ stray' = stray
  BY DEF Watch, IInv, TypeOK, tree, walk
<1>1. /\ inotify \in Seq(Events) /\ Len(inotify) <= MaxQueued + 1
      /\ Len(inotify) \in Nat \ {0} /\ MaxQueued \in Nat
  BY <1>0, EmptySeq, DirWatchAssumption DEF IInv, QueueOK, IsQueue
<1>2. /\ inotify' \in Seq(Events) /\ Len(inotify') = Len(inotify) - 1
      /\ \A i \in 1..Len(inotify') : inotify'[i] = inotify[i + 1]
  BY <1>0, <1>1, HeadTailProperties
<1>3. IsQueue(inotify)'
  <2>1. Events' = Events
    BY <1>0 DEF Events
  <2>2. Len(inotify') <= MaxQueued + 1 /\ Len(inotify') # MaxQueued + 1
    BY <1>1, <1>2
  <2> QED BY <1>2, <2>1, <2>2 DEF IsQueue
<1>4. ASSUME NEW event \in Range(inotify), event # e PROVE event \in Range(inotify')
  <2>1. PICK i \in 1..Len(inotify) : inotify[i] = event
    BY <1>1, LenProperties DEF Range
  <2>2. i # 1
    BY <1>1, <1>4, <2>1
  <2>3. i - 1 \in 1..Len(inotify') /\ (i - 1) + 1 = i
    BY <1>1, <1>2, <2>1, <2>2
  <2>4. inotify'[i - 1] = event
    BY <1>2, <2>1, <2>3
  <2> QED BY <1>2, <2>3, <2>4, LenProperties DEF Range
<1>5. \A p \in unseen' : Pending(p) => Pending(p)'
  BY <1>0, <1>4 DEF Pending
<1>6. \A p : Coming(p)' <=> Coming(p)
  BY <1>0 DEF Coming
<1>7. TypeOK' /\ QueueOK' /\ WalkOK' /\ Unwatched' /\ TableTrue'
  <2>1. TypeOK'
    BY <1>0, <1>3 DEF TypeOK, IsQueue, Events
  <2> QED BY <1>0, <1>3, <2>1 DEF IInv, QueueOK, WalkOK, Unwatched, TableTrue, Placed
<1>8. Covered'
  <2> SUFFICES ASSUME NEW d \in Dirs, path[d] # Nowhere, d \notin stray,
                      Reached(path[d]), wds[d] = 0
               PROVE  Coming(path[d])'
    BY <1>0 DEF Covered, Placed, Reached
  <2>1. Coming(path[d])
    BY <1>0 DEF IInv, Covered, Window, Placed, Nodes
  <2> QED BY <1>0, <2>1 DEF Coming
<1>9. Kept'
  BY <1>0, <1>5, <1>6 DEF IInv, Kept, Visited
<1> QED
  BY <1>3, <1>7, <1>8, <1>9 DEF IInv

LEMMA Stutter == IInv /\ UNCHANGED vars => IInv'
<1> SUFFICES ASSUME IInv, UNCHANGED vars PROVE IInv'
  OBVIOUS
<1> USE DEF vars, tree, kernel, walk
<1>1. \A p : (Coming(p)' <=> Coming(p)) /\ (Pending(p)' <=> Pending(p))
  BY DEF Coming, Pending
<1>2. TypeOK' /\ QueueOK' /\ WalkOK' /\ Unwatched' /\ TableTrue'
  BY DEF IInv, TypeOK, QueueOK, IsQueue, Events, WalkOK, Unwatched, TableTrue, Placed
<1>3. Covered'
  BY DEF IInv, Covered, Placed, Window, Coming
<1>4. Kept'
  BY <1>1 DEF IInv, Kept, Visited
<1> QED
  BY <1>2, <1>3, <1>4 DEF IInv

LEMMA NextHolds == IInv /\ [Next]_vars => IInv'
<1> SUFFICES ASSUME IInv, [Next]_vars PROVE IInv'
  OBVIOUS
<1>1. CASE Environment
  BY <1>1, TouchStep, UnlinkStep, MakeStep, RenameStep DEF Environment
<1>2. CASE Walk
  BY <1>2, NextStep, WalkDoneStep, AddDirStep, JudgeStep DEF Walk
<1>3. CASE Watch
  BY <1>3, WatchStep
<1>4. CASE Poll \/ UNCHANGED vars
  BY <1>4, Stutter DEF Poll
<1> QED
  BY <1>1, <1>2, <1>3, <1>4 DEF Next

LEMMA IInvHolds == Spec => []IInv
BY InitHolds, NextHolds, PTL DEF Spec
-------------------------------------------------------------------------------
(* Every node that exists has one path, within directories, through any        *)
(* sequence of renames; every event with a name has a descriptor of the table *)
(* (the find of watch() is not tested, file_watcher.cpp:303), and the queue of *)
(* the kernel never holds more than its limit and the mark of an overflow.     *)
THEOREM DirWatchTypeCorrect == Spec => []TypeOK
<1>1. IInv => TypeOK
  BY DEF IInv
<1> QED
  BY <1>1, IInvHolds, PTL

(* Whatever is made, removed and renamed while the walk goes on, a watched    *)
(* directory that was not renamed has its own path in the table that watch()  *)
(* looks names up in (file_watcher.cpp:241), for any number of walks.         *)
THEOREM TableIsTrue == Spec => []TableTrue
<1>1. IInv => TableTrue
  BY DEF IInv
<1> QED
  BY <1>1, IInvHolds, PTL

(* A change that is promised is never lost between readdir, the watch, the    *)
(* queue and the table (file_watcher.cpp:117-311), for any tree and any        *)
(* interleaving: it is on the stack, below what is, judged next, or queued.    *)
(* Any directory may fail to be opened or watched at any time; that costs only *)
(* what is promised below it.                                              *)
THEOREM NothingIsLost == Spec => []NothingLost
<1>1. IInv => NothingLost
  BY DEF IInv, Kept, Visited, NothingLost
<1> QED
  BY <1>1, IInvHolds, PTL

(* When load_watcher returns (monitor.cpp:338), every directory that a check   *)
(* names or reaches is watched, whichever way the tree changed under the walk, *)
(* but for those that came or moved to where all the walks had passed, and    *)
(* those that opendir or inotify_add_watch refused when the last walk came    *)
(* (file_watcher.cpp:134-138, 235-238), and what is below these.              *)
THEOREM AllAreWatched == Spec => []AllWatched
<1>1. IInv => AllWatched
  <2> SUFFICES ASSUME IInv, pc = "loop", NEW d \in (Dirs \cap Placed) \ stray,
                      Reached(path[d]), wds[d] = 0
               PROVE  FALSE
    BY DEF AllWatched
  <2>1. roots = << >> /\ _queue = << >>
    BY DEF IInv, WalkOK
  <2>2. Coming(path[d])
    BY DEF IInv, Covered, Window
  <2>3. Range(_queue) = {} /\ 2..Len(roots) = {}
    BY <2>1, EmptySeq DEF Range
  <2> QED BY <2>2, <2>3 DEF Coming
<1> QED
  BY <1>1, IInvHolds, PTL
===============================================================================
