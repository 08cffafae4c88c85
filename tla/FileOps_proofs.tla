--------------------------- MODULE FileOps_proofs ---------------------------
(***************************************************************************)
(* Proofs about FileOps: a tree stays a tree, no step loses what it was    *)
(* not asked to destroy, a step that reports success has done what it      *)
(* says, and what is barred is left alone, for every set of paths, every   *)
(* tree and every configuration.                                           *)
(*                                                                         *)
(* The order is: paths and their prefixes; trees; the inductive invariant; *)
(* how steps are taken up; their system calls, one lemma each; the         *)
(* theorems.                                                               *)
(***************************************************************************)
EXTENDS FileOps, SequenceTheorems, TLAPS

-----------------------------------------------------------------------------
(* Paths are sequences of names; a path is below another one when that is   *)
(* a prefix of it.                                                          *)

Names == Seq(STRING)
AnyPath == Path \cup {Root}

LEMMA PrefixMeans ==
    ASSUME NEW s \in Names, NEW t \in Names
    PROVE  IsPrefix(s, t) <=> /\ Len(s) <= Len(t)
                              /\ \A i \in 1 .. Len(s) : s[i] = t[i]
<1> DEFINE a == SubSeq(s, 1, Len(s))
           b == SubSeq(t, 1, Len(s))
<1>1. Len(s) \in Nat /\ Len(t) \in Nat
  BY DEF Names
<1> SUFFICES ASSUME Len(s) <= Len(t)
             PROVE  a = b <=> \A i \in 1 .. Len(s) : s[i] = t[i]
  BY DEF IsPrefix
<1>2. a = s
  BY SubSeqFull DEF Names
<1>3. /\ b \in Seq(STRING) /\ Len(b) = Len(s)
      /\ \A i \in 1 .. Len(s) : b[i] = t[i]
  <2>1. \A i \in 1 .. Len(s) : t[i] \in STRING
    BY <1>1, ElementOfSeq DEF Names
  <2>2. /\ b \in Seq(STRING) /\ Len(b) = IF 1 <= Len(s) THEN Len(s) - 1 + 1 ELSE 0
        /\ \A i \in 1 .. Len(s) - 1 + 1 : b[i] = t[1 + i - 1]
    <3> HIDE DEF b
    <3>1. 1 \in Int /\ Len(s) \in Int
      BY <1>1
    <3> QED
      BY <2>1, <3>1, SubSeqProperties DEF b
  <2> HIDE DEF b
  <2> QED
    BY <1>1, <2>2
<1> HIDE DEF a, b
<1>4. s = b <=> \A i \in 1 .. Len(s) : s[i] = b[i]
  BY <1>3, SeqEqual DEF Names
<1> QED
  BY <1>1, <1>2, <1>3, <1>4

LEMMA CutMeans ==
    ASSUME NEW s \in Names, NEW n \in 0 .. Len(s)
    PROVE  /\ SubSeq(s, 1, n) \in Names /\ Len(SubSeq(s, 1, n)) = n
           /\ \A i \in 1 .. n : SubSeq(s, 1, n)[i] = s[i]
<1> DEFINE b == SubSeq(s, 1, n)
<1>1. Len(s) \in Nat /\ 1 \in Int /\ n \in Int
  BY DEF Names
<1>2. \A i \in 1 .. n : s[i] \in STRING
  BY <1>1, ElementOfSeq DEF Names
<1>3. /\ b \in Seq(STRING) /\ Len(b) = IF 1 <= n THEN n - 1 + 1 ELSE 0
      /\ \A i \in 1 .. n - 1 + 1 : b[i] = s[1 + i - 1]
  <2> HIDE DEF b
  <2> QED
    BY <1>1, <1>2, SubSeqProperties DEF b
<1> HIDE DEF b
<1>4. b \in Names /\ Len(b) = n /\ \A i \in 1 .. n : b[i] = s[i]
  BY <1>1, <1>3 DEF Names
<1> QED
  BY <1>4 DEF b

LEMMA PathsAreNames ==
    /\ Path \subseteq Names /\ Root \in Names /\ AnyPath \subseteq Names
    /\ Len(Root) = 0 /\ Root \notin Path /\ Outside \notin Path
    /\ \A p \in Path : Len(p) \in Nat \ {0} /\ p # Root
<1>1. Path \subseteq Names /\ Root \notin Path /\ Outside \notin Path
  BY FileOpsAssumption DEF Names
<1>2. Root \in Names /\ Len(Root) = 0
  BY EmptySeq DEF Names, Root
<1>3. \A p \in Path : Len(p) \in Nat \ {0} /\ p # Root
  BY <1>1, EmptySeq DEF Names, Root
<1> QED
  BY <1>1, <1>2, <1>3 DEF AnyPath

LEMMA NamesEqual ==
    ASSUME NEW s \in Names, NEW t \in Names, Len(s) = Len(t),
           \A i \in 1 .. Len(s) : s[i] = t[i]
    PROVE  s = t
BY SeqEqual DEF Names

LEMMA PrefixOrder ==
    ASSUME NEW s \in Names, NEW t \in Names
    PROVE  /\ IsPrefix(s, s) /\ IsPrefix(Root, s)
           /\ IsPrefix(s, t) /\ IsPrefix(t, s) => s = t
           /\ \A u \in Names : IsPrefix(s, t) /\ IsPrefix(t, u) => IsPrefix(s, u)
           /\ \A u \in Names : IsPrefix(s, u) /\ IsPrefix(t, u)
                               => IsPrefix(s, t) \/ IsPrefix(t, s)
           /\ IsPrefix(s, Root) => s = Root
<1>1. \A u \in Names : Len(u) \in Nat
  BY DEF Names
<1>2. IsPrefix(s, s)
  BY <1>1, PrefixMeans
<1>3. \A u \in Names : IsPrefix(Root, u)
  BY <1>1, PrefixMeans, PathsAreNames
<1>4. \A u, v \in Names : IsPrefix(u, v) /\ IsPrefix(v, u) => u = v
  <2> SUFFICES ASSUME NEW u \in Names, NEW v \in Names, IsPrefix(u, v), IsPrefix(v, u)
               PROVE  u = v
    OBVIOUS
  <2>1. Len(u) = Len(v) /\ \A i \in 1 .. Len(u) : u[i] = v[i]
    BY <1>1, PrefixMeans
  <2> QED
    BY <2>1, NamesEqual
<1>5. ASSUME NEW u \in Names, IsPrefix(s, t), IsPrefix(t, u) PROVE IsPrefix(s, u)
  BY <1>1, <1>5, PrefixMeans
<1>6. ASSUME NEW u \in Names, IsPrefix(s, u), IsPrefix(t, u)
      PROVE  IsPrefix(s, t) \/ IsPrefix(t, s)
  BY <1>1, <1>6, PrefixMeans
<1> QED
  BY <1>2, <1>3, <1>4, <1>5, <1>6, PathsAreNames

LEMMA FrontIsParent ==
    ASSUME NEW p \in Path
    PROVE  /\ Front(p) \in AnyPath /\ IsStrictPrefix(Front(p), p)
           /\ Len(Front(p)) = Len(p) - 1
           /\ \A q \in Names : IsStrictPrefix(q, p) <=> IsPrefix(q, Front(p))
<1> DEFINE f == Front(p)
<1>1. p \in Names /\ Len(p) \in Nat /\ Len(p) > 0 /\ \A q \in Names : Len(q) \in Nat
  BY PathsAreNames DEF Names
<1> HIDE DEF f
<1>2. Len(p) - 1 \in 0 .. Len(p) /\ (Len(p) # 1 => Len(p) - 1 \in 1 .. Len(p))
  <2> DEFINE n == Len(p)
  <2>1. n \in Nat /\ n > 0
    BY <1>1
  <2> HIDE DEF n
  <2>2. n - 1 \in 0 .. n /\ (n # 1 => n - 1 \in 1 .. n)
    BY <2>1
  <2> QED
    BY <2>2 DEF n
<1>3. f \in Names /\ Len(f) = Len(p) - 1 /\ \A i \in 1 .. Len(p) - 1 : f[i] = p[i]
  BY <1>1, <1>2, CutMeans DEF f, Front
<1>4. f \in AnyPath
  <2>1. CASE Len(p) = 1
    <3>1. f = Root
      BY <1>1, <1>3, <2>1, EmptySeq, PathsAreNames, NamesEqual
    <3> QED
      BY <3>1 DEF AnyPath
  <2>2. CASE Len(p) # 1
    <3>1. Len(p) - 1 \in 1 .. Len(p)
      BY <1>2, <2>2
    <3> QED
      BY <3>1, FileOpsAssumption DEF f, AnyPath, Front
  <2> QED
    BY <2>1, <2>2
<1>5. IsPrefix(f, p) /\ f # p
  BY <1>1, <1>3, PrefixMeans
<1>6. ASSUME NEW q \in Names, IsPrefix(q, p), q # p PROVE IsPrefix(q, f)
  <2>1. Len(q) <= Len(p) /\ \A i \in 1 .. Len(q) : q[i] = p[i]
    BY <1>1, <1>6, PrefixMeans
  <2>2. Len(q) # Len(p)
    BY <1>1, <1>6, <2>1, NamesEqual
  <2> QED
    BY <1>1, <1>3, <2>1, <2>2, PrefixMeans
<1>7. ASSUME NEW q \in Names, IsPrefix(q, f) PROVE IsPrefix(q, p) /\ q # p
  <2>1. IsPrefix(q, p)
    BY <1>1, <1>3, <1>5, <1>7, PrefixOrder
  <2>2. q # p
    BY <1>1, <1>3, <1>7, PrefixMeans
  <2> QED
    BY <2>1, <2>2
<1> QED
  BY <1>3, <1>4, <1>5, <1>6, <1>7 DEF f, IsStrictPrefix

LEMMA PrefixOfPath ==
    ASSUME NEW p \in Path, NEW q \in Names, IsPrefix(q, p), q # Root
    PROVE  q \in Path
<1>1. q = SubSeq(p, 1, Len(q)) /\ Len(q) \in 1 .. Len(p)
  <2>1. Len(q) \in Nat /\ Len(p) \in Nat /\ p \in Names
    BY PathsAreNames DEF Names
  <2>2. Len(q) <= Len(p) /\ SubSeq(q, 1, Len(q)) = SubSeq(p, 1, Len(q))
    BY DEF IsPrefix
  <2>3. SubSeq(q, 1, Len(q)) = q
    BY SubSeqFull DEF Names
  <2>4. Len(q) # 0
    BY EmptySeq DEF Names, Root
  <2> QED
    BY <2>1, <2>2, <2>3, <2>4
<1> QED
  BY <1>1, FileOpsAssumption

LEMMA PartIsBelow ==
    ASSUME NEW q \in Names, Append(q, Part) \in Path
    PROVE  Front(Append(q, Part)) = q /\ Last(Append(q, Part)) = Part
<1> DEFINE a == Append(q, Part)
<1>1. Part \in STRING /\ Len(q) \in Nat /\ a \in Names
  <2>1. a \in Names
    BY PathsAreNames
  <2>2. Part \in STRING
    BY FileOpsAssumption
  <2>3. Len(q) \in Nat
    BY DEF Names
  <2> QED
    BY <2>1, <2>2, <2>3
<1>2. /\ Len(a) = Len(q) + 1 /\ a[Len(q) + 1] = Part
      /\ \A i \in 1 .. Len(q) : a[i] = q[i]
  BY <1>1 DEF Names
<1> HIDE DEF a
<1>3. /\ SubSeq(a, 1, Len(q)) \in Names /\ Len(SubSeq(a, 1, Len(q))) = Len(q)
      /\ \A i \in 1 .. Len(q) : SubSeq(a, 1, Len(q))[i] = a[i]
  BY <1>1, <1>2, CutMeans
<1>4. SubSeq(a, 1, Len(q)) = q
  BY <1>2, <1>3, NamesEqual
<1>5. Front(a) = q /\ Last(a) = Part
  BY <1>1, <1>2, <1>4 DEF Front, Last
<1> QED
  BY <1>5 DEF a

LEMMA MovedMeans ==
    ASSUME NEW src \in Names, NEW dst \in Names, NEW p \in Names, IsPrefix(src, p)
    PROVE  /\ Moved(p, src, dst) \in Names
           /\ Len(Moved(p, src, dst)) = Len(dst) + (Len(p) - Len(src))
           /\ Len(src) \in Nat /\ Len(dst) \in Nat /\ Len(p) \in Nat
           /\ Len(src) <= Len(p) /\ \A i \in 1 .. Len(src) : src[i] = p[i]
           /\ \A i \in 1 .. Len(dst) : Moved(p, src, dst)[i] = dst[i]
           /\ \A i \in 1 .. Len(p) - Len(src) :
                  Moved(p, src, dst)[Len(dst) + i] = p[Len(src) + i]
<1> DEFINE k == Len(src)
           n == Len(p)
           b == SubSeq(p, k + 1, n)
           m == Moved(p, src, dst)
<1>1. k \in Nat /\ n \in Nat /\ Len(dst) \in Nat
  BY DEF Names
<1>2. k <= n /\ \A i \in 1 .. k : src[i] = p[i]
  BY PrefixMeans
<1>3. \A i \in 1 .. n : p[i] \in STRING
  BY ElementOfSeq DEF Names
<1> HIDE DEF k, n
<1>4. /\ b \in Seq(STRING) /\ Len(b) = IF k + 1 <= n THEN n - (k + 1) + 1 ELSE 0
      /\ \A i \in 1 .. n - (k + 1) + 1 : b[i] = p[(k + 1) + i - 1]
  <2>1. k + 1 \in Int /\ n \in Int /\ \A i \in k + 1 .. n : p[i] \in STRING
    BY <1>1, <1>3
  <2> HIDE DEF b
  <2> QED
    BY <2>1, SubSeqProperties DEF b
<1> HIDE DEF b
<1>5. /\ b \in Names /\ Len(b) = n - k /\ \A i \in 1 .. n - k : b[i] = p[k + i]
  BY <1>1, <1>2, <1>4 DEF Names
<1>6. m = dst \o b
  BY DEF Moved, b, k, n
<1> HIDE DEF m
<1>7. /\ m \in Names /\ Len(m) = Len(dst) + Len(b)
      /\ \A i \in 1 .. Len(dst) + Len(b) :
            m[i] = IF i <= Len(dst) THEN dst[i] ELSE b[i - Len(dst)]
  BY <1>5, <1>6, ConcatProperties DEF Names
<1>8. \A i \in 1 .. Len(dst) : m[i] = dst[i]
  BY <1>1, <1>2, <1>5, <1>7
<1>9. ASSUME NEW i \in 1 .. n - k PROVE m[Len(dst) + i] = p[k + i]
  <2>1. Len(dst) + i \in 1 .. Len(dst) + Len(b) /\ ~(Len(dst) + i <= Len(dst))
        /\ (Len(dst) + i) - Len(dst) = i
    BY <1>1, <1>2, <1>5
  <2>2. m[Len(dst) + i] = b[i]
    BY <1>7, <2>1
  <2> QED
    BY <1>5, <2>2
<1>10. m \in Names /\ Len(m) = Len(dst) + (n - k)
  BY <1>5, <1>7
<1> QED
  BY <1>1, <1>2, <1>8, <1>9, <1>10 DEF k, n, m

LEMMA MovedBack ==
    ASSUME NEW src \in Names, NEW dst \in Names, NEW p \in Names, IsPrefix(src, p)
    PROVE  /\ Moved(p, src, dst) \in Names /\ IsPrefix(dst, Moved(p, src, dst))
           /\ Moved(Moved(p, src, dst), dst, src) = p
           /\ Moved(src, src, dst) = dst
<1> DEFINE m == Moved(p, src, dst)
           b == Moved(m, dst, src)
           a == Moved(src, src, dst)
<1> HIDE DEF m, b, a
<1>1. /\ m \in Names /\ Len(m) = Len(dst) + (Len(p) - Len(src))
      /\ Len(src) \in Nat /\ Len(dst) \in Nat /\ Len(p) \in Nat
      /\ Len(src) <= Len(p)
      /\ \A i \in 1 .. Len(dst) : m[i] = dst[i]
      /\ \A i \in 1 .. Len(p) - Len(src) : m[Len(dst) + i] = p[Len(src) + i]
  BY MovedMeans DEF m
<1>2. \A i \in 1 .. Len(src) : src[i] = p[i]
  BY PrefixMeans
<1>3. IsPrefix(dst, m)
  BY <1>1, PrefixMeans
<1>4. b = p
  <2>1. /\ b \in Names /\ Len(b) = Len(src) + (Len(m) - Len(dst))
        /\ \A i \in 1 .. Len(src) : b[i] = src[i]
        /\ \A i \in 1 .. Len(m) - Len(dst) : b[Len(src) + i] = m[Len(dst) + i]
    BY <1>1, <1>3, MovedMeans DEF b
  <2>2. Len(b) = Len(p) /\ Len(m) - Len(dst) = Len(p) - Len(src)
    BY <1>1, <2>1
  <2>3. ASSUME NEW i \in 1 .. Len(b) PROVE b[i] = p[i]
    <3>1. CASE i <= Len(src)
      BY <1>1, <1>2, <2>1, <2>2, <3>1
    <3>2. CASE ~(i <= Len(src))
      <4> DEFINE j == i - Len(src)
      <4>1. j \in 1 .. Len(p) - Len(src) /\ i = Len(src) + j
        BY <1>1, <2>2, <3>2
      <4> HIDE DEF j
      <4> QED
        BY <1>1, <2>1, <2>2, <4>1
    <3> QED
      BY <3>1, <3>2
  <2> QED
    BY <2>1, <2>2, <2>3, NamesEqual
<1>5. a = dst
  <2>1. IsPrefix(src, src)
    BY PrefixOrder
  <2>2. /\ a \in Names /\ Len(a) = Len(dst) + (Len(src) - Len(src))
        /\ \A i \in 1 .. Len(dst) : a[i] = dst[i]
    BY <2>1, MovedMeans DEF a
  <2>3. Len(a) = Len(dst)
    BY <1>1, <2>2
  <2> QED
    BY <2>2, <2>3, NamesEqual
<1> QED
  BY <1>1, <1>3, <1>4, <1>5 DEF m, a, b

LEMMA MovedBelow ==
    ASSUME NEW src \in Names, NEW dst \in Names, NEW p \in Names, NEW q \in Names,
           IsPrefix(src, p), IsStrictPrefix(p, q)
    PROVE  IsPrefix(src, q) /\ IsStrictPrefix(Moved(p, src, dst), Moved(q, src, dst))
<1> DEFINE m == Moved(p, src, dst)
           l == Moved(q, src, dst)
<1> HIDE DEF m, l
<1>1. IsPrefix(src, q) /\ IsPrefix(p, q) /\ p # q
  BY PrefixOrder DEF IsStrictPrefix
<1>2. /\ m \in Names /\ Len(m) = Len(dst) + (Len(p) - Len(src))
      /\ Len(src) \in Nat /\ Len(dst) \in Nat /\ Len(p) \in Nat
      /\ Len(src) <= Len(p)
      /\ \A i \in 1 .. Len(dst) : m[i] = dst[i]
      /\ \A i \in 1 .. Len(p) - Len(src) : m[Len(dst) + i] = p[Len(src) + i]
  BY MovedMeans, ZenonT(60) DEF m
<1>3. /\ l \in Names /\ Len(l) = Len(dst) + (Len(q) - Len(src)) /\ Len(q) \in Nat
      /\ \A i \in 1 .. Len(dst) : l[i] = dst[i]
      /\ \A i \in 1 .. Len(q) - Len(src) : l[Len(dst) + i] = q[Len(src) + i]
  BY <1>1, MovedMeans, ZenonT(60) DEF l
<1>4. Len(p) <= Len(q) /\ \A i \in 1 .. Len(p) : p[i] = q[i]
  BY <1>1, PrefixMeans
<1>5. m # l
  BY <1>1, <1>2, MovedBack DEF m, l
<1>6. Len(m) <= Len(l)
  BY <1>2, <1>3, <1>4
<1>7. ASSUME NEW i \in 1 .. Len(m) PROVE m[i] = l[i]
  <2>1. CASE i <= Len(dst)
    BY <1>2, <1>3, <2>1
  <2>2. CASE ~(i <= Len(dst))
    <3> DEFINE j == i - Len(dst)
    <3>1. /\ j \in 1 .. Len(p) - Len(src) /\ j \in 1 .. Len(q) - Len(src)
          /\ i = Len(dst) + j /\ Len(src) + j \in 1 .. Len(p)
      BY <1>2, <1>3, <1>4, <2>2
    <3> HIDE DEF j
    <3>2. m[i] = p[Len(src) + j] /\ l[i] = q[Len(src) + j]
      BY <1>2, <1>3, <3>1
    <3> QED
      BY <1>4, <3>1, <3>2
  <2> QED
    BY <2>1, <2>2
<1>8. IsPrefix(m, l)
  BY <1>2, <1>3, <1>6, <1>7, PrefixMeans
<1> QED
  BY <1>1, <1>5, <1>8 DEF IsStrictPrefix, m, l

-----------------------------------------------------------------------------
(* Trees.                                                                   *)

LEMMA NodeKinds ==
    ASSUME NEW n \in Node
    PROVE  /\ n.kind \in {"absent", "dir", "file", "cut"}
           /\ n.kind = "absent" <=> n = Absent
           /\ n.kind = "dir" <=> n = Dir
           /\ n.kind = "file" => n.data \in Data /\ n = Whole(n.data)
           /\ Cut(n.data) \in Node /\ Cut(n.data).kind = "cut"
BY DEF Node, Absent, Dir, Whole, Cut

LEMMA NodesMade ==
    /\ Absent \in Node /\ Dir \in Node /\ Absent # Dir
    /\ \A d \in Data : Whole(d) \in Node /\ Cut(d) \in Node
    /\ \A d : /\ Whole(d).kind = "file" /\ Whole(d).data = d
              /\ Cut(d).kind = "cut" /\ Cut(d).data = d
    /\ {"written", "merged", "part"} \subseteq Data /\ FirstData \subseteq Data
BY DEF Node, Absent, Dir, Whole, Cut, Data

LEMMA UnderMeans ==
    /\ \A d \in AnyPath : Under(d) = {p \in Path : IsPrefix(d, p)}
    /\ \A d \in AnyPath : d \notin Mounts \cup ReadOnlyDirs \cup Protected \/ d \in Path
    /\ Mounts \subseteq Path /\ ReadOnlyDirs \subseteq Path /\ Protected \subseteq Path
<1>1. \A d \in AnyPath : d \in Request \cup {Root}
  BY DEF AnyPath, Request
<1> QED
  BY <1>1, FileOpsAssumption DEF Under, Below, AnyPath

(* A tree: its types, what exists lies in directories, and a mounted file  *)
(* system stays.                                                           *)
Shape(t) ==
    /\ t \in [Path -> Node]
    /\ \A p, q \in Path : IsStrictPrefix(p, q) /\ t[q] # Absent => t[p] = Dir
    /\ \A m \in Mounts : t[m] = Dir

LEMMA ParentOf ==
    ASSUME NEW t, Shape(t), NEW p \in Path, t[p] # Absent
    PROVE  Front(p) = Root \/ t[Front(p)] = Dir
BY FrontIsParent DEF Shape, AnyPath

LEMMA NothingBelow ==
    ASSUME NEW t, Shape(t), NEW p \in Path, t[p] # Dir
    PROVE  p \notin Mounts /\ \A q \in Path : IsStrictPrefix(p, q) => t[q] = Absent
BY DEF Shape

(* One node of a tree is made, replaced or removed.                        *)
CanPut(t, p, n) ==
    /\ n # Absent => Front(p) = Root \/ t[Front(p)] = Dir
    /\ n # Dir => p \notin Mounts /\ \A q \in Path : IsStrictPrefix(p, q) => t[q] = Absent

LEMMA NodePut ==
    ASSUME NEW t, NEW p \in Path, NEW n \in Node, Shape(t), CanPut(t, p, n)
    PROVE  Shape([t EXCEPT ![p] = n])
<1> DEFINE u == [t EXCEPT ![p] = n]
<1>1. /\ u \in [Path -> Node] /\ u[p] = n /\ \A q \in Path \ {p} : u[q] = t[q]
  BY DEF Shape
<1> HIDE DEF u
<1>2. ASSUME NEW q \in Path, NEW r \in Path, IsStrictPrefix(q, r), u[r] # Absent
      PROVE  u[q] = Dir
  <2>1. q # r
    BY <1>2 DEF IsStrictPrefix
  <2>2. CASE r = p
    <3>1. n # Absent /\ u[q] = t[q]
      BY <1>1, <1>2, <2>1, <2>2
    <3>2. IsPrefix(q, Front(p)) /\ Front(p) \in AnyPath
      BY <1>2, <2>2, FrontIsParent, PathsAreNames
    <3>3. Front(p) # Root
      BY <3>2, PrefixOrder, PathsAreNames
    <3>4. t[Front(p)] = Dir /\ Front(p) \in Path
      BY <3>1, <3>2, <3>3 DEF AnyPath, CanPut
    <3> QED
      BY <3>1, <3>2, <3>4, NodesMade DEF Shape, IsStrictPrefix
  <2>3. CASE r # p
    <3>1. t[r] # Absent
      BY <1>1, <1>2, <2>3
    <3>2. t[q] = Dir
      BY <1>2, <3>1 DEF Shape
    <3>3. q = p => n = Dir
      BY <1>2, <3>1 DEF CanPut
    <3> QED
      BY <1>1, <3>2, <3>3
  <2> QED
    BY <2>2, <2>3
<1>3. \A m \in Mounts : u[m] = Dir
  BY <1>1, UnderMeans DEF Shape, CanPut
<1>4. Shape(u)
  BY <1>1, <1>2, <1>3 DEF Shape
<1> QED
  BY <1>4 DEF u

LEMMA MovedSame ==
    ASSUME NEW src \in Names, NEW p \in Names, IsPrefix(src, p)
    PROVE  Moved(p, src, src) = p
<1> DEFINE m == Moved(p, src, src)
<1> HIDE DEF m
<1>1. /\ m \in Names /\ Len(m) = Len(src) + (Len(p) - Len(src))
      /\ Len(src) \in Nat /\ Len(p) \in Nat /\ Len(src) <= Len(p)
      /\ \A i \in 1 .. Len(src) : m[i] = src[i]
      /\ \A i \in 1 .. Len(p) - Len(src) : m[Len(src) + i] = p[Len(src) + i]
  BY MovedMeans DEF m
<1>2. \A i \in 1 .. Len(src) : src[i] = p[i]
  BY PrefixMeans
<1>3. ASSUME NEW i \in 1 .. Len(m) PROVE m[i] = p[i]
  <2>1. CASE i <= Len(src)
    BY <1>1, <1>2, <2>1
  <2>2. CASE ~(i <= Len(src))
    <3> DEFINE j == i - Len(src)
    <3>1. j \in 1 .. Len(p) - Len(src) /\ i = Len(src) + j
      BY <1>1, <2>2
    <3> HIDE DEF j
    <3> QED
      BY <1>1, <3>1
  <2> QED
    BY <2>1, <2>2
<1>4. Len(m) = Len(p)
  BY <1>1
<1>5. m = p
  BY <1>1, <1>3, <1>4, NamesEqual
<1> QED
  BY <1>5 DEF m

(* What exists, in terms of the tree.                                      *)
LEMMA ExistsMeans ==
    ASSUME Shape(tree), NEW p \in Path
    PROVE  /\ Exists(p) <=> tree[p] # Absent
           /\ IsDir(p) <=> tree[p] = Dir
           /\ IsFile(p) <=> tree[p] \notin {Absent, Dir}
           /\ IsFile(p) => tree[p].kind \in {"file", "cut"}
<1>1. tree[p] \in Node /\ p # Root
  BY PathsAreNames DEF Shape
<1> QED
  BY <1>1, NodeKinds DEF Exists, IsDir, IsFile

LEMMA FrontIsDir ==
    ASSUME Shape(tree), NEW p \in Path
    PROVE  IsDir(Front(p)) <=> Front(p) = Root \/ tree[Front(p)] = Dir
<1>1. Front(p) \in AnyPath
  BY FrontIsParent
<1> QED
  BY <1>1, ExistsMeans DEF AnyPath, IsDir

(* A renaming that the operating system allows.                            *)
LEMMA RenamedApart ==
    ASSUME Shape(tree), NEW src \in Path, NEW dst \in Path, src # dst,
           CanRename(src, dst)
    PROVE  /\ ~IsPrefix(src, dst) /\ ~IsPrefix(dst, src)
           /\ tree[src] # Absent /\ tree[dst] # Dir
           /\ Front(dst) = Root \/ tree[Front(dst)] = Dir
           /\ \A m \in Mounts : ~IsPrefix(src, m)
<1>1. /\ tree[src] # Absent /\ tree[dst] # Dir
      /\ Front(dst) = Root \/ tree[Front(dst)] = Dir
      /\ tree[src] = Dir => ~IsPrefix(src, dst)
      /\ \A m \in Mounts : ~IsPrefix(src, m)
  BY ExistsMeans, FrontIsDir DEF CanRename, SameDevice
<1>2. ~IsPrefix(dst, src)
  BY <1>1, NothingBelow DEF IsStrictPrefix
<1>3. ASSUME IsPrefix(src, dst) PROVE FALSE
  <2>1. tree[src] # Dir
    BY <1>1, <1>3
  <2>2. IsPrefix(src, Front(dst)) /\ Front(dst) \in AnyPath
    BY <1>3, FrontIsParent, PathsAreNames DEF IsStrictPrefix
  <2>3. Front(dst) # Root
    BY <2>2, PrefixOrder, PathsAreNames
  <2>4. tree[Front(dst)] = Dir /\ Front(dst) \in Path
    BY <1>1, <2>2, <2>3 DEF AnyPath
  <2> QED
    BY <2>1, <2>2, <2>4, NothingBelow, NodesMade DEF IsStrictPrefix
<1> QED
  BY <1>1, <1>2, <1>3

LEMMA RenamedMeans ==
    ASSUME Shape(tree), NEW src \in Path, NEW dst \in Path, src # dst,
           CanRename(src, dst), Fits(src, dst), NEW u, u = Renamed(src, dst)
    PROVE  /\ \A p \in Under(src) :
                 /\ u[p] = Absent
                 /\ tree[p] # Absent => /\ Moved(p, src, dst) \in Under(dst)
                                        /\ u[Moved(p, src, dst)] = tree[p]
           /\ \A p \in Under(dst) : p # dst => tree[p] = Absent
           /\ \A p \in Path \ (Under(src) \cup Under(dst)) : u[p] = tree[p]
           /\ Shape(u)
<1> DEFINE S == {p \in Path : IsPrefix(src, p)}
           D == {p \in Path : IsPrefix(dst, p)}
<1>1. Under(src) = S /\ Under(dst) = D
  BY UnderMeans DEF AnyPath
<1>2. /\ ~IsPrefix(src, dst) /\ ~IsPrefix(dst, src)
      /\ tree[src] # Absent /\ tree[dst] # Dir
      /\ Front(dst) = Root \/ tree[Front(dst)] = Dir
      /\ \A m \in Mounts : ~IsPrefix(src, m)
  BY RenamedApart
<1>3. S \cap D = {}
  BY <1>2, PrefixOrder, PathsAreNames
<1>4. \A p \in D : p # dst => tree[p] = Absent
  BY <1>2, NothingBelow DEF IsStrictPrefix
<1>5. \A p \in Path : u[p] = IF p \in D /\ Moved(p, dst, src) \in Path
                             THEN tree[Moved(p, dst, src)]
                             ELSE IF p \in S \cup D THEN Absent ELSE tree[p]
  BY <1>1 DEF Renamed
<1>6. u \in [Path -> Node]
  <2>1. u = [p \in Path |-> IF p \in D /\ Moved(p, dst, src) \in Path
                            THEN tree[Moved(p, dst, src)]
                            ELSE IF p \in S \cup D THEN Absent ELSE tree[p]]
    BY <1>1 DEF Renamed
  <2> HIDE DEF S, D
  <2> QED
    BY <2>1, NodesMade DEF Shape
<1>7. ASSUME NEW p \in S PROVE u[p] = Absent
  BY <1>3, <1>5
<1>8. ASSUME NEW p \in S, tree[p] # Absent
      PROVE  Moved(p, src, dst) \in D /\ u[Moved(p, src, dst)] = tree[p]
  <2> DEFINE m == Moved(p, src, dst)
  <2>1. m \in Path
    BY <1>1, <1>8, ExistsMeans DEF Fits
  <2>2. IsPrefix(dst, m) /\ Moved(m, dst, src) = p
    BY <1>8, MovedBack, PathsAreNames
  <2> HIDE DEF m
  <2>3. m \in D /\ u[m] = tree[p]
    BY <1>5, <2>1, <2>2
  <2> QED
    BY <2>3 DEF m
<1>9. \A p \in Path \ (S \cup D) : u[p] = tree[p]
  BY <1>5
<1>10. ASSUME NEW p \in Path, NEW q \in Path, IsStrictPrefix(p, q), u[q] # Absent
       PROVE  u[p] = Dir
  <2>1. IsPrefix(p, q) /\ p \in Names /\ q \in Names /\ src \in Names /\ dst \in Names
    BY <1>10, PathsAreNames DEF IsStrictPrefix
  <2>2. q \notin S
    BY <1>7, <1>10
  <2>3. p \notin S
    BY <2>1, <2>2, PrefixOrder
  <2>4. CASE q \in D /\ p \in D
    <3> DEFINE mp == Moved(p, dst, src)
               mq == Moved(q, dst, src)
    <3>1. mq \in Path /\ u[q] = tree[mq]
      BY <1>5, <1>10, <2>4
    <3>2. IsStrictPrefix(mp, mq) /\ mp \in Names /\ IsPrefix(src, mp)
      BY <1>10, <2>1, <2>4, MovedBelow, MovedBack
    <3> HIDE DEF mp, mq
    <3>3. mp # Root
      BY <2>1, <3>2, PrefixOrder, PathsAreNames
    <3>4. mp \in Path
      BY <3>1, <3>2, <3>3, PrefixOfPath DEF IsStrictPrefix
    <3>5. tree[mp] = Dir
      BY <1>10, <3>1, <3>2, <3>4 DEF Shape
    <3> QED
      BY <1>5, <2>4, <3>4, <3>5 DEF mp
  <2>5. CASE q \in D /\ p \notin D
    <3>1. IsPrefix(p, dst) /\ p # dst
      BY <2>1, <2>5, PrefixOrder
    <3>2. IsPrefix(p, Front(dst)) /\ Front(dst) \in AnyPath
      BY <2>1, <3>1, FrontIsParent DEF IsStrictPrefix
    <3>3. Front(dst) # Root
      BY <3>2, PrefixOrder, PathsAreNames
    <3>4. tree[Front(dst)] = Dir /\ Front(dst) \in Path
      BY <1>2, <3>2, <3>3 DEF AnyPath
    <3>5. tree[p] = Dir
      BY <3>2, <3>4, NodesMade DEF Shape, IsStrictPrefix
    <3> QED
      BY <1>5, <2>3, <2>5, <3>5
  <2>6. CASE q \notin D
    <3>1. p \notin D
      BY <2>1, <2>6, PrefixOrder
    <3>2. u[q] = tree[q] /\ u[p] = tree[p]
      BY <1>9, <2>2, <2>3, <2>6, <3>1
    <3> QED
      BY <1>10, <3>2 DEF Shape
  <2> QED
    BY <2>4, <2>5, <2>6
<1>11. ASSUME NEW m \in Mounts PROVE u[m] = Dir
  <2>1. m \in Path /\ tree[m] = Dir /\ m \notin S
    BY <1>2, <1>11, UnderMeans DEF Shape
  <2>2. m \notin D
    BY <1>2, <1>4, <2>1, NodesMade
  <2> QED
    BY <1>9, <2>1, <2>2
<1> HIDE DEF S, D
<1> QED
  BY <1>1, <1>4, <1>6, <1>7, <1>8, <1>9, <1>10, <1>11 DEF Shape

LEMMA RenamedItself ==
    ASSUME Shape(tree), NEW p \in Path
    PROVE  Renamed(p, p) = tree
<1>1. Under(p) = {q \in Path : IsPrefix(p, q)}
  BY UnderMeans DEF AnyPath
<1>2. \A q \in Under(p) : q \in Path /\ Moved(q, p, p) = q
  BY <1>1, MovedSame, PathsAreNames
<1> QED
  BY <1>2 DEF Renamed, Shape

-----------------------------------------------------------------------------
(* The inductive invariant: the types, the shape of the tree, and for each *)
(* kind of step how far it has come and what it may still destroy.         *)

Acts == {"inspect", "run", "write", "mkdir", "delete", "copy", "move", "rename",
         "merge", "split"}
Calls == {"mkdir", "open", "fill", "rename", "read", "remove", "unlink", "convert", "end"}
StepType ==
    [act : Acts, src : AnyPath, dst : AnyPath, more : SUBSET Path, pc : Calls,
     data : Node, res : {"running", "ok", "error", "killed"}, was : [Path -> Node]]

Types ==
    /\ step \in StepType /\ (step.res = "running") = (step.pc # "end")
    /\ count \in 0 .. MaxSteps /\ given \subseteq Data

Running(act) == step.pc # "end" /\ step.act = act
Given(p) == tree[p].kind = "file" => tree[p].data \in given
BelowReadOnly(p) == \E r \in ReadOnlyDirs : IsStrictPrefix(r, p)
SameBut(P) == \A p \in Path \ P : tree[p] = step.was[p]

(* Directories may have been made on the way to p, and nothing else.       *)
MadeFor(p) ==
    \A q \in Path \ {p} :
       tree[q] = step.was[q]
       \/ (step.was[q] = Absent /\ IsStrictPrefix(q, p) /\ tree[q] = Dir)

(* The path p is to be written: what it held was given up, and once it is  *)
(* truncated it is the step's own.                                         *)
Writes(p) ==
    /\ p \in Path /\ Given(p) /\ MadeFor(p)
    /\ step.pc = "fill" => tree[p].kind = "cut" /\ ~Kept(p)

WriteInv ==
    Running("write") =>
       step.pc \in {"mkdir", "open", "fill"} /\ Writes(step.dst) /\ step.dst \notin Protected

MkdirInv ==
    Running("mkdir") => step.pc = "mkdir" /\ step.dst \in Path /\ MadeFor(step.dst)

DeleteInv ==
    Running("delete") =>
       /\ step.pc = "unlink" /\ step.src \in Path /\ ~Kept(step.src)
       /\ (\A p \in Under(step.src) : Given(p)) /\ SameBut(Under(step.src))

CopyInv ==
    Running("copy") =>
       /\ step.pc \in {"open", "fill"} /\ step.src \in Path /\ step.src # step.dst
       /\ step.dst \in Path /\ ~Kept(step.dst) /\ SameBut({step.dst})
       /\ tree[step.dst].kind = IF step.pc = "open" THEN "absent" ELSE "cut"

(* A move and a rename have a source that may go, and replace a file at    *)
(* most; a move that copies has read its source, which is no directory.    *)
Goes ==
    /\ step.src \in Path /\ step.dst \in Path /\ ~Kept(step.src)
    /\ step.src # step.dst /\ step.pc # "remove" => Given(step.dst)
    /\ tree[step.dst] # Dir => ~Kept(step.dst)

MoveInv ==
    Running("move") =>
       /\ step.pc \in {"rename", "read", "open", "fill", "remove"} /\ Goes
       /\ step.pc = "rename" => Fits(step.src, step.dst)
       /\ step.pc \in {"rename", "read", "open"} => tree = step.was
       /\ step.pc = "read" => step.src # step.dst \/ ~IsFile(step.src)
       /\ step.pc \in {"open", "fill", "remove"} =>
             /\ step.src # step.dst /\ tree[step.src] = step.data
             /\ step.data \notin {Absent, Dir} /\ SameBut({step.dst})
       /\ step.pc = "fill" => tree[step.dst].kind = "cut"
       /\ step.pc = "remove" => tree[step.dst] = step.data

RenameInv ==
    Running("rename") =>
       step.pc = "rename" /\ Goes /\ Fits(step.src, step.dst) /\ tree = step.was

MergeInv ==
    Running("merge") =>
       /\ step.pc \in {"mkdir", "convert", "fill"} /\ Writes(step.dst)
       /\ tree[step.dst] # Dir => step.dst \notin Protected
       /\ step.pc = "convert" => ~BelowReadOnly(step.dst)

SplitInv ==
    Running("split") =>
       /\ step.pc \in {"mkdir", "convert", "fill"}
       /\ step.pc = "fill" => Writes(step.dst)
       /\ step.pc # "fill" =>
             Writes(Append(step.dst, Part)) /\ step.dst \in Path \ Protected
       /\ step.pc = "convert" => ~IsReadOnly(step.dst)

Idles == step.pc # "end" => step.act \notin {"inspect", "run"}

StepInv ==
    /\ WriteInv /\ MkdirInv /\ DeleteInv /\ CopyInv /\ MoveInv /\ RenameInv
    /\ MergeInv /\ SplitInv /\ Idles

FilesInv == Types /\ Shape(tree) /\ StepInv /\ NothingLost /\ SuccessMeansDone

(* What BarredStays says of a step.                                        *)
Spares ==
    \A p \in Path :
       Kept(p) /\ IsFile(p) /\ tree'[p] # tree[p] =>
          /\ tree'[p] = Absent
          /\ step.act \in {"delete", "move", "rename"}
          /\ IsStrictPrefix(step.src, p)

LEMMA OfItsKind ==
    /\ step'.act = "write" /\ WriteInv' => StepInv'
    /\ step'.act = "mkdir" /\ MkdirInv' => StepInv'
    /\ step'.act = "delete" /\ DeleteInv' => StepInv'
    /\ step'.act = "copy" /\ CopyInv' => StepInv'
    /\ step'.act = "move" /\ MoveInv' => StepInv'
    /\ step'.act = "rename" /\ RenameInv' => StepInv'
    /\ step'.act = "merge" /\ MergeInv' => StepInv'
    /\ step'.act = "split" /\ SplitInv' => StepInv'
    /\ step'.pc = "end" => StepInv'
BY DEF StepInv, WriteInv, MkdirInv, DeleteInv, CopyInv, MoveInv, RenameInv, MergeInv,
       SplitInv, Idles, Running

(* A step in the middle of its calls is of a kind that makes this call.    *)
LEMMA ItsKind ==
    ASSUME FilesInv, step.pc # "end"
    PROVE  /\ step.act \in Acts \ {"inspect", "run"}
           /\ step.act = "write" => step.pc \in {"mkdir", "open", "fill"}
           /\ step.act = "mkdir" => step.pc = "mkdir"
           /\ step.act = "delete" => step.pc = "unlink"
           /\ step.act = "copy" => step.pc \in {"open", "fill"}
           /\ step.act = "move" => step.pc \in {"rename", "read", "open", "fill", "remove"}
           /\ step.act = "rename" => step.pc = "rename"
           /\ step.act \in {"merge", "split"} => step.pc \in {"mkdir", "convert", "fill"}
           /\ step.res = "running"
<1>1. step.act \in Acts \ {"inspect", "run"} /\ step.res = "running"
  BY DEF FilesInv, Types, StepType, StepInv, Idles
<1> QED
  BY <1>1 DEF FilesInv, StepInv, WriteInv, MkdirInv, DeleteInv, CopyInv, MoveInv,
              RenameInv, MergeInv, SplitInv, Running

LEMMA StillThere ==
    ASSUME NothingLost, given \subseteq given',
           \A d \in FirstData \ given', p \in Path :
              tree[p] = Whole(d) => \E q \in Path : tree'[q] = Whole(d)
    PROVE  NothingLost'
BY DEF NothingLost

LEMMA NothingNew ==
    ASSUME NothingLost, given \subseteq given', tree' = tree
    PROVE  NothingLost' /\ Spares
BY StillThere DEF Spares

LEMMA Stopped ==
    ASSUME FilesInv, NEW r \in {"error", "killed"}, step' = [Idle EXCEPT !.res = r],
           count' \in 0 .. MaxSteps, given' = given, tree' = tree
    PROVE  FilesInv' /\ Spares
<1>1. /\ step' = [act |-> "inspect", src |-> Root, dst |-> Root, more |-> {}, pc |-> "end",
                  data |-> Absent, res |-> r, was |-> FirstTree]
  BY DEF Idle
<1>2. FirstTree \in [Path -> Node] /\ Absent \in Node /\ Root \in AnyPath
  BY FileOpsAssumption, NodesMade DEF AnyPath
<1>3. step' \in StepType
  <2>1. {} \in SUBSET Path /\ r \in {"running", "ok", "error", "killed"}
    OBVIOUS
  <2>2. "inspect" \in Acts /\ "end" \in Calls
    BY DEF Acts, Calls
  <2>3. Idle \in StepType
    BY <1>2, <2>1, <2>2 DEF StepType, Idle
  <2> QED
    BY <2>1, <2>3 DEF StepType
<1>4. Types'
  BY <1>1, <1>3 DEF FilesInv, Types
<1>5. StepInv'
  BY <1>1, OfItsKind
<1>6. NothingLost' /\ Spares
  BY NothingNew DEF FilesInv
<1>7. SuccessMeansDone'
  BY <1>1 DEF SuccessMeansDone
<1> QED
  BY <1>4, <1>5, <1>6, <1>7 DEF FilesInv, Shape

LEMMA Failed ==
    ASSUME FilesInv, Finish("error"), UNCHANGED tree, Keep
    PROVE  FilesInv' /\ Spares
BY Stopped DEF Finish, Keep, FilesInv, Types

LEMMA Advanced ==
    ASSUME FilesInv, step.pc # "end", NEW pc \in Calls \ {"end"}, Advance(pc), Keep
    PROVE  /\ Types' /\ step'.pc = pc /\ step'.res = "running"
           /\ step'.act = step.act /\ step'.src = step.src /\ step'.dst = step.dst
           /\ step'.data = step.data /\ step'.was = step.was
<1>1. step \in StepType /\ step.res = "running"
  BY DEF FilesInv, Types, StepType
<1>2. step' \in StepType /\ step'.pc = pc /\ step'.res = "running"
  BY <1>1 DEF Advance, StepType
<1>3. /\ step'.act = step.act /\ step'.src = step.src /\ step'.dst = step.dst
      /\ step'.data = step.data /\ step'.was = step.was
  BY <1>1 DEF Advance, StepType
<1> QED
  BY <1>2, <1>3 DEF Types, Keep, FilesInv

LEMMA Ended ==
    ASSUME FilesInv, step.pc # "end", Finish("ok"), Keep
    PROVE  /\ Types' /\ step'.pc = "end" /\ step'.res = "ok" /\ StepInv'
           /\ step'.act = step.act /\ step'.src = step.src /\ step'.dst = step.dst
           /\ step'.data = step.data /\ step'.was = step.was
<1>1. step \in StepType /\ step' = [step EXCEPT !.pc = "end", !.res = "ok"]
  BY DEF FilesInv, Types, Finish
<1>2. step' \in StepType /\ step'.pc = "end" /\ step'.res = "ok"
  BY <1>1 DEF StepType, Calls
<1>3. /\ step'.act = step.act /\ step'.src = step.src /\ step'.dst = step.dst
      /\ step'.data = step.data /\ step'.was = step.was
  BY <1>1 DEF StepType
<1> QED
  BY <1>2, <1>3, OfItsKind DEF Types, Keep, FilesInv

(* One node is put into the tree by a step in progress.                    *)
LEMMA Putting ==
    ASSUME FilesInv, NEW p \in Path, NEW n \in Node, given' = given,
           tree' = [tree EXCEPT ![p] = n],
           CanPut(tree, p, n),
           Given(p) \/ \E q \in Path \ {p} : tree[q] = tree[p],
           Kept(p) /\ IsFile(p) => /\ n = Absent /\ step.act \in {"delete", "move", "rename"}
                                   /\ IsStrictPrefix(step.src, p)
    PROVE  /\ Shape(tree)' /\ tree'[p] = n /\ (\A q \in Path \ {p} : tree'[q] = tree[q])
           /\ NothingLost' /\ Spares
<1>1. Shape(tree') /\ tree'[p] = n /\ \A q \in Path \ {p} : tree'[q] = tree[q]
  <2>1. Shape(tree)
    BY DEF FilesInv
  <2>2. Shape(tree')
    BY <2>1, NodePut
  <2> QED
    BY <2>1, <2>2 DEF Shape
<1>2. Shape(tree)'
  BY <1>1 DEF Shape
<1>3. ASSUME NEW d \in FirstData \ given', NEW q \in Path, tree[q] = Whole(d)
      PROVE  \E r \in Path : tree'[r] = Whole(d)
  <2>1. CASE q # p
    BY <1>1, <1>3, <2>1
  <2>2. CASE q = p
    <3>1. ~Given(p)
      BY <1>3, <2>2, NodesMade DEF Given
    <3> QED
      BY <1>1, <1>3, <2>2, <3>1
  <2> QED
    BY <2>1, <2>2
<1>4. NothingLost'
  BY <1>3, StillThere DEF FilesInv
<1>5. Spares
  BY <1>1 DEF Spares
<1> QED
  BY <1>1, <1>2, <1>4, <1>5

-----------------------------------------------------------------------------
(* Steps are taken up.                                                      *)

(* A step is refused.                                                      *)
LEMMA Refused ==
    ASSUME FilesInv, count < MaxSteps, count' = count + 1, given' = given, UNCHANGED tree,
           step' = [Idle EXCEPT !.res = "error"]
    PROVE  FilesInv' /\ Spares
<1>1. count' \in 0 .. MaxSteps
  BY FileOpsAssumption DEF FilesInv, Types
<1> QED
  BY <1>1, Stopped

(* A step is taken up.                                                     *)
Taken(act, src, dst, more, pc, hit) ==
    /\ count < MaxSteps /\ count' = count + 1 /\ UNCHANGED tree
    /\ step' = [act |-> act, src |-> src, dst |-> dst, more |-> more, pc |-> pc,
                data |-> Absent, was |-> tree,
                res |-> IF pc = "end" THEN "ok" ELSE "running"]
    /\ given' = given \cup ContentOf(hit)

LEMMA Begun ==
    ASSUME FilesInv,
           NEW act \in Acts, NEW src \in AnyPath, NEW dst \in AnyPath, NEW more \in SUBSET Path,
           NEW pc \in Calls, NEW hit \in SUBSET Path, Taken(act, src, dst, more, pc, hit)
    PROVE  /\ Types' /\ Shape(tree)' /\ NothingLost' /\ Spares
           /\ step'.act = act /\ step'.src = src /\ step'.dst = dst /\ step'.pc = pc
           /\ step'.was = tree /\ tree' = tree
           /\ step'.res = IF pc = "end" THEN "ok" ELSE "running"
           /\ \A p \in hit : Given(p)'
           /\ \A p \in Path : MadeFor(p)'
           /\ \A P : SameBut(P)'
<1>1. Shape(tree) /\ Types /\ NothingLost
  BY DEF FilesInv
<1>2. tree \in [Path -> Node]
  BY <1>1 DEF Shape
<1> USE DEF Taken
<1>3. ContentOf(hit) \subseteq Data
  BY <1>2, NodeKinds DEF ContentOf
<1>4. \A p \in hit : Given(p)'
  BY DEF ContentOf, Given
<1>5. step' \in StepType
  <2>1. Absent \in Node
    BY NodesMade
  <2> DEFINE r == IF pc = "end" THEN "ok" ELSE "running"
  <2>2. r \in {"running", "ok", "error", "killed"}
    OBVIOUS
  <2>3. step' = [act |-> act, src |-> src, dst |-> dst, more |-> more, pc |-> pc,
                 data |-> Absent, was |-> tree, res |-> r]
    OBVIOUS
  <2> HIDE DEF r
  <2> QED
    BY <1>2, <2>1, <2>2, <2>3 DEF StepType
<1>6. /\ step'.act = act /\ step'.src = src /\ step'.dst = dst /\ step'.pc = pc
      /\ step'.was = tree /\ tree' = tree
      /\ step'.res = IF pc = "end" THEN "ok" ELSE "running"
  OBVIOUS
<1>7. (step'.res = "running") = (step'.pc # "end")
  BY <1>6
<1>8. count' \in 0 .. MaxSteps /\ given' \subseteq Data
  BY <1>1, <1>3, FileOpsAssumption DEF Types
<1>9. NothingLost' /\ Spares
  BY <1>1, NothingNew
<1>10. Shape(tree)'
  BY <1>1 DEF Shape
<1>11. (\A p \in Path : MadeFor(p)') /\ (\A P : SameBut(P)')
  BY <1>6 DEF MadeFor, SameBut
<1> QED
  BY <1>4, <1>5, <1>6, <1>7, <1>8, <1>9, <1>10, <1>11 DEF Types

(* A step that has system calls to make has not succeeded yet.             *)
LEMMA InProgress ==
    ASSUME Types', Shape(tree)', NothingLost', StepInv', step'.res = "running"
    PROVE  FilesInv'
BY DEF FilesInv, SuccessMeansDone

LEMMA KeptMeans ==
    ASSUME NEW p \in Path
    PROVE  /\ Kept(p) <=> p \in Protected \/ BelowReadOnly(p)
           /\ BelowReadOnly(p) => IsReadOnly(p)
<1>1. \A r \in ReadOnlyDirs : r \in Request /\ Under(r) = {q \in Path : IsPrefix(r, q)}
  BY UnderMeans DEF Request, AnyPath
<1> QED
  BY <1>1 DEF Kept, BelowReadOnly, IsReadOnly, IsStrictPrefix

LEMMA RequestMeans ==
    \A p \in Request : ResolvePath(p) <=> p \in Path
BY FileOpsAssumption DEF Request, ResolvePath

LEMMA InspectKeeps ==
    ASSUME FilesInv, NEW p \in Request, Inspect(p)
    PROVE  FilesInv' /\ Spares
<1> DEFINE ok == ResolvePath(p) /\ CheckProtected(p) /\ ValidatePath(p) /\ Exists(p)
<1>1. CASE ~ok
  BY <1>1, Refused DEF Inspect, Begin
<1>2. CASE ok
  <2>1. p \in AnyPath /\ Root \in AnyPath
    BY <1>2, RequestMeans DEF AnyPath
  <2>2. Taken("inspect", p, Root, {}, "end", {})
    BY <1>2 DEF Inspect, Begin, Taken
  <2>3. "inspect" \in Acts /\ "end" \in Calls /\ {} \in SUBSET Path
    BY DEF Acts, Calls
  <2>4. /\ Types' /\ Shape(tree)' /\ NothingLost' /\ Spares
        /\ step'.act = "inspect" /\ step'.pc = "end" /\ step'.was = tree /\ tree' = tree
    BY <2>1, <2>2, <2>3, Begun, ZenonT(60)
  <2>5. SuccessMeansDone'
    BY <2>4 DEF SuccessMeansDone, Done
  <2> QED
    BY <2>4, <2>5, OfItsKind DEF FilesInv
<1> QED
  BY <1>1, <1>2

LEMMA RunCommandKeeps ==
    ASSUME FilesInv, NEW allowed \in BOOLEAN, RunCommand(allowed)
    PROVE  FilesInv' /\ Spares
<1>1. CASE ~allowed
  BY <1>1, Refused DEF RunCommand, Begin
<1>2. CASE allowed
  <2>1. Root \in AnyPath
    BY DEF AnyPath
  <2>2. Taken("run", Root, Root, {}, "end", {})
    BY <1>2 DEF RunCommand, Begin, Taken
  <2>3. "run" \in Acts /\ "end" \in Calls /\ {} \in SUBSET Path
    BY DEF Acts, Calls
  <2>4. /\ Types' /\ Shape(tree)' /\ NothingLost' /\ Spares
        /\ step'.act = "run" /\ step'.pc = "end" /\ step'.was = tree /\ tree' = tree
    BY <2>1, <2>2, <2>3, Begun, ZenonT(60)
  <2>5. SuccessMeansDone'
    BY <2>4 DEF SuccessMeansDone, Done
  <2> QED
    BY <2>4, <2>5, OfItsKind DEF FilesInv
<1> QED
  BY <1>1, <1>2

LEMMA WriteKeeps ==
    ASSUME FilesInv, NEW p \in Request, NEW small \in BOOLEAN, Write(p, small)
    PROVE  FilesInv' /\ Spares
<1> DEFINE ok == ResolvePath(p) /\ CheckProtected(p) /\ small
<1>1. CASE ~ok
  BY <1>1, Refused DEF Write, Begin
<1>2. CASE ok
  <2>1. p \in Path /\ p \in AnyPath /\ Root \in AnyPath /\ p \notin Protected
    BY <1>2, RequestMeans DEF AnyPath, CheckProtected
  <2>2. Taken("write", Root, p, {}, "mkdir", {p})
    BY <1>2 DEF Write, Begin, Taken
  <2>3. "write" \in Acts /\ "mkdir" \in Calls /\ {} \in SUBSET Path /\ {p} \in SUBSET Path
    BY <2>1 DEF Acts, Calls
  <2>4. /\ Types' /\ Shape(tree)' /\ NothingLost' /\ Spares /\ step'.res = "running"
        /\ step'.act = "write" /\ step'.pc = "mkdir" /\ step'.dst = p
        /\ Given(p)' /\ MadeFor(p)'
    BY <2>1, <2>2, <2>3, Begun, ZenonT(60)
  <2>5. WriteInv'
    BY <2>1, <2>4 DEF WriteInv, Writes
  <2> QED
    BY <2>4, <2>5, OfItsKind, InProgress
<1> QED
  BY <1>1, <1>2

LEMMA MkdirKeeps ==
    ASSUME FilesInv, NEW p \in Request, Mkdir(p)
    PROVE  FilesInv' /\ Spares
<1> DEFINE ok == ResolvePath(p) /\ CheckProtected(p)
<1>1. CASE ~ok
  BY <1>1, Refused DEF Mkdir, Begin
<1>2. CASE ok
  <2>1. p \in Path /\ p \in AnyPath /\ Root \in AnyPath
    BY <1>2, RequestMeans DEF AnyPath
  <2>2. Taken("mkdir", Root, p, {}, "mkdir", {})
    BY <1>2 DEF Mkdir, Begin, Taken
  <2>3. "mkdir" \in Acts /\ "mkdir" \in Calls /\ {} \in SUBSET Path
    BY DEF Acts, Calls
  <2>4. /\ Types' /\ Shape(tree)' /\ NothingLost' /\ Spares /\ step'.res = "running"
        /\ step'.act = "mkdir" /\ step'.pc = "mkdir" /\ step'.dst = p /\ MadeFor(p)'
    BY <2>1, <2>2, <2>3, Begun, ZenonT(60)
  <2>5. MkdirInv'
    BY <2>1, <2>4 DEF MkdirInv
  <2> QED
    BY <2>4, <2>5, OfItsKind, InProgress
<1> QED
  BY <1>1, <1>2

LEMMA DeleteKeeps ==
    ASSUME FilesInv, NEW p \in Request, Delete(p)
    PROVE  FilesInv' /\ Spares
<1> DEFINE ok == /\ ResolvePath(p) /\ CheckProtected(p)
                 /\ ValidatePath(p) /\ ~IsReadOnly(p) /\ Exists(p)
<1>1. CASE ~ok
  BY <1>1, Refused DEF Delete, Begin
<1>2. CASE ok
  <2>1. /\ p \in Path /\ p \in AnyPath /\ Root \in AnyPath /\ ~Kept(p)
        /\ Under(p) \in SUBSET Path
    BY <1>2, RequestMeans, KeptMeans, UnderMeans DEF AnyPath, CheckProtected
  <2>2. Taken("delete", p, Root, {}, "unlink", Under(p))
    BY <1>2 DEF Delete, Begin, Taken
  <2>3. "delete" \in Acts /\ "unlink" \in Calls /\ {} \in SUBSET Path
    BY DEF Acts, Calls
  <2>4. /\ Types' /\ Shape(tree)' /\ NothingLost' /\ Spares /\ step'.res = "running"
        /\ step'.act = "delete" /\ step'.pc = "unlink" /\ step'.src = p
        /\ (\A q \in Under(p) : Given(q)') /\ SameBut(Under(p))'
    BY <2>1, <2>2, <2>3, Begun, ZenonT(60)
  <2>5. DeleteInv'
    BY <2>1, <2>4 DEF DeleteInv, SameBut, Given, Kept
  <2> QED
    BY <2>4, <2>5, OfItsKind, InProgress
<1> QED
  BY <1>1, <1>2

LEMMA IntoMeans ==
    ASSUME FilesInv, NEW src \in Path, NEW dst \in Path, DestProtected(dst, src),
           tree[dst] # Dir
    PROVE  Into(dst, src) = dst /\ dst \notin Protected
<1>1. ~IsDir(dst)
  BY ExistsMeans DEF FilesInv
<1> QED
  BY <1>1 DEF Into, DestProtected, CheckProtected

LEMMA CopyKeeps ==
    ASSUME FilesInv, NEW src \in Request, NEW dst \in Request, Copy(src, dst)
    PROVE  FilesInv' /\ Spares
<1> DEFINE ok == /\ ResolvePath(src) /\ ResolvePath(dst)
                 /\ CheckProtected(src) /\ DestProtected(dst, src)
                 /\ CopyAllowed(src, dst)
           t == Into(dst, src)
<1>1. CASE ~ok
  BY <1>1, Refused DEF Copy, Begin
<1>2. CASE ok
  <2>1. src \in Path /\ dst \in Path /\ dst # Outside
    BY <1>2, RequestMeans DEF ResolvePath
  <2>2. t \in Path
    BY <2>1 DEF Copy, Known
  <2>3. tree[t].kind = "absent" /\ tree[src] # Absent /\ src # t
    BY <1>2, <2>1, <2>2, ExistsMeans, NodeKinds DEF CopyAllowed, FilesInv, Shape
  <2>4. ~Kept(t)
    BY <1>2, <2>2, KeptMeans DEF DestProtected, CheckProtected, CopyAllowed, ValidateWritePath
  <2>5. Taken("copy", src, t, {}, "open", {})
    BY <1>2, <2>1 DEF Copy, Begin, Taken
  <2>6. /\ "copy" \in Acts /\ "open" \in Calls /\ {} \in SUBSET Path
        /\ src \in AnyPath /\ t \in AnyPath
    BY <2>1, <2>2 DEF Acts, Calls, AnyPath
  <2> HIDE DEF t
  <2>7. /\ Types' /\ Shape(tree)' /\ NothingLost' /\ Spares /\ step'.res = "running"
        /\ step'.act = "copy" /\ step'.pc = "open" /\ step'.src = src /\ step'.dst = t
        /\ step'.was = tree /\ tree' = tree
    BY <2>5, <2>6, Begun, ZenonT(60)
  <2>8. CopyInv'
    BY <2>1, <2>2, <2>3, <2>4, <2>7 DEF CopyInv, SameBut, Kept
  <2> QED
    BY <2>7, <2>8, OfItsKind, InProgress
<1> QED
  BY <1>1, <1>2

(* What Goes asks of a move or a rename when it is taken up.               *)
LEMMA TakenToGo ==
    ASSUME FilesInv, NEW src \in Path, NEW dst \in Path,
           NEW act \in {"move", "rename"}, Taken(act, src, dst, {}, "rename", {dst} \ {src}),
           src \notin Protected, ~IsReadOnly(src), ~IsReadOnly(dst),
           tree[dst] # Dir => dst \notin Protected, Fits(src, dst)
    PROVE  FilesInv' /\ Spares
<1>1. /\ act \in Acts /\ "rename" \in Calls /\ {} \in SUBSET Path
      /\ src \in AnyPath /\ dst \in AnyPath /\ {dst} \ {src} \in SUBSET Path
  BY DEF Acts, Calls, AnyPath
<1>2. /\ Types' /\ Shape(tree)' /\ NothingLost' /\ Spares /\ step'.res = "running"
      /\ step'.act = act /\ step'.pc = "rename" /\ step'.src = src /\ step'.dst = dst
      /\ step'.was = tree /\ tree' = tree /\ \A p \in {dst} \ {src} : Given(p)'
  BY <1>1, Begun
<1>3. ~Kept(src) /\ (tree[dst] # Dir => ~Kept(dst))
  BY KeptMeans
<1>4. Goes'
  BY <1>2, <1>3 DEF Goes, Given, Kept
<1>5. Fits(step.src, step.dst)'
  BY <1>2 DEF Fits, Exists
<1>6. MoveInv' /\ RenameInv'
  BY <1>2, <1>4, <1>5 DEF MoveInv, RenameInv
<1> QED
  BY <1>2, <1>6, OfItsKind, InProgress

LEMMA MoveKeeps ==
    ASSUME FilesInv, NEW src \in Request, NEW dst \in Request, Move(src, dst)
    PROVE  FilesInv' /\ Spares
<1> DEFINE ok == /\ ResolvePath(src) /\ ResolvePath(dst)
                 /\ CheckProtected(src) /\ DestProtected(dst, src)
                 /\ ValidateWritePath(src) /\ ValidateWritePath(dst)
<1>1. CASE ~ok
  BY <1>1, Refused DEF Move, Begin
<1>2. CASE ok
  <2>1. src \in Path /\ dst \in Path
    BY <1>2, RequestMeans
  <2>2. tree[dst] # Dir => dst \notin Protected
    BY <1>2, <2>1, IntoMeans
  <2>3. Taken("move", src, dst, {}, "rename", {dst} \ {src})
    BY <1>2 DEF Move, Begin, Taken
  <2>4. src \notin Protected /\ ~IsReadOnly(src) /\ ~IsReadOnly(dst) /\ Fits(src, dst)
    BY <1>2 DEF CheckProtected, ValidateWritePath, Move
  <2> QED
    BY <2>1, <2>2, <2>3, <2>4, TakenToGo
<1> QED
  BY <1>1, <1>2

LEMMA RenameKeeps ==
    ASSUME FilesInv, NEW src \in Request, NEW dst \in Request, Rename(src, dst)
    PROVE  FilesInv' /\ Spares
<1> DEFINE ok == /\ ResolvePath(src) /\ ResolvePath(dst)
                 /\ CheckProtected(src) /\ CheckProtected(dst)
                 /\ ValidateWritePath(src) /\ ValidateWritePath(dst)
<1>1. CASE ~ok
  BY <1>1, Refused DEF Rename, Begin
<1>2. CASE ok
  <2>1. src \in Path /\ dst \in Path
    BY <1>2, RequestMeans
  <2>2. Taken("rename", src, dst, {}, "rename", {dst} \ {src})
    BY <1>2 DEF Rename, Begin, Taken
  <2>3. /\ src \notin Protected /\ ~IsReadOnly(src) /\ ~IsReadOnly(dst) /\ Fits(src, dst)
        /\ dst \notin Protected
    BY <1>2 DEF CheckProtected, ValidateWritePath, Rename
  <2> QED
    BY <2>1, <2>2, <2>3, TakenToGo
<1> QED
  BY <1>1, <1>2

LEMMA MergePDFKeeps ==
    ASSUME FilesInv, NEW sources \in Sources, NEW dst \in Request, MergePDF(sources, dst)
    PROVE  FilesInv' /\ Spares
<1> DEFINE ok == /\ Len(sources) >= 2 /\ ResolvePath(dst)
                 /\ \A p \in Range(sources) : ResolvePath(p) /\ CheckProtected(p)
                 /\ DestProtected(dst, sources[1])
<1>1. CASE ~ok
  BY <1>1, Refused DEF MergePDF, Begin
<1>2. CASE ok
  <2>1. dst \in Path
    BY <1>2, RequestMeans
  <2>2. sources \in Seq(Request) /\ Len(sources) >= 2
    BY <1>2, FileOpsAssumption
  <2>3. Range(sources) \subseteq Request /\ sources[1] \in Range(sources)
    BY <2>2 DEF Range
  <2>4. Range(sources) \subseteq Path
    BY <1>2, <2>3, RequestMeans
  <2>5. tree[dst] # Dir => dst \notin Protected
    BY <1>2, <2>1, <2>3, <2>4, IntoMeans
  <2>6. Taken("merge", sources[1], dst, Range(sources), "mkdir", {dst})
    BY <1>2 DEF MergePDF, Begin, Taken
  <2>7. /\ "merge" \in Acts /\ "mkdir" \in Calls /\ Range(sources) \in SUBSET Path
        /\ sources[1] \in AnyPath /\ dst \in AnyPath /\ {dst} \in SUBSET Path
    BY <2>1, <2>3, <2>4 DEF Acts, Calls, AnyPath
  <2>8. /\ Types' /\ Shape(tree)' /\ NothingLost' /\ Spares /\ step'.res = "running"
        /\ step'.act = "merge" /\ step'.pc = "mkdir" /\ step'.dst = dst /\ tree' = tree
        /\ Given(dst)' /\ MadeFor(dst)'
    <3>1. dst \in {dst}
      OBVIOUS
    <3> QED
      BY <2>1, <2>6, <2>7, <3>1, Begun, ZenonT(60)
  <2>9. MergeInv'
    BY <2>1, <2>5, <2>8 DEF MergeInv, Writes
  <2> QED
    BY <2>8, <2>9, OfItsKind, InProgress
<1> QED
  BY <1>1, <1>2

LEMMA SplitPDFKeeps ==
    ASSUME FilesInv, NEW src \in Request, NEW dst \in Request, SplitPDF(src, dst)
    PROVE  FilesInv' /\ Spares
<1> DEFINE ok == /\ ResolvePath(src) /\ ResolvePath(dst)
                 /\ CheckProtected(src) /\ CheckProtected(dst)
           t == Append(dst, Part)
<1>1. CASE ~ok
  BY <1>1, Refused DEF SplitPDF, Begin
<1>2. CASE ok
  <2>1. src \in Path /\ dst \in Path /\ dst # Outside /\ dst \notin Protected
    BY <1>2, RequestMeans DEF ResolvePath, CheckProtected
  <2>2. t \in Path
    BY <2>1 DEF SplitPDF
  <2>3. Taken("split", src, dst, {}, "mkdir", Path \cap {t})
    BY <1>2 DEF SplitPDF, Begin, Taken
  <2>4. /\ "split" \in Acts /\ "mkdir" \in Calls /\ {} \in SUBSET Path
        /\ src \in AnyPath /\ dst \in AnyPath /\ Path \cap {t} \in SUBSET Path
        /\ t \in Path \cap {t}
    BY <2>1, <2>2 DEF Acts, Calls, AnyPath
  <2> HIDE DEF t
  <2>5. /\ Types' /\ Shape(tree)' /\ NothingLost' /\ Spares /\ step'.res = "running"
        /\ step'.act = "split" /\ step'.pc = "mkdir" /\ step'.dst = dst
        /\ Given(t)' /\ MadeFor(t)'
    BY <2>2, <2>3, <2>4, Begun, ZenonT(60)
  <2>6. Writes(t)'
    BY <2>2, <2>5 DEF Writes
  <2>7. SplitInv'
    BY <2>1, <2>5, <2>6 DEF SplitInv, t
  <2> QED
    BY <2>5, <2>7, OfItsKind, InProgress
<1> QED
  BY <1>1, <1>2

-----------------------------------------------------------------------------
(* The system calls.                                                        *)

LEMMA OnTheWay ==
    ASSUME FilesInv, step.pc = "mkdir"
    PROVE  /\ MkdirTarget \in AnyPath
           /\ step.act \in {"write", "mkdir", "merge", "split"} /\ step.res = "running"
           /\ \E p \in Path :
                 /\ p = IF step.act = "split" THEN Append(step.dst, Part) ELSE step.dst
                 /\ MadeFor(p) /\ (step.act # "mkdir" => Given(p))
                 /\ p = MkdirTarget <=> step.act = "mkdir"
                 /\ step.act # "mkdir" => MkdirTarget = Front(p)
<1>1. step.act \in {"write", "mkdir", "merge", "split"} /\ step.res = "running"
  BY ItsKind DEF Acts
<1>2. CASE step.act \in {"write", "merge"}
  <2>1. step.dst \in Path /\ Given(step.dst) /\ MadeFor(step.dst)
    BY <1>2 DEF FilesInv, StepInv, WriteInv, MergeInv, Running, Writes
  <2>2. MkdirTarget = Front(step.dst) /\ Front(step.dst) \in AnyPath /\ Front(step.dst) # step.dst
    BY <1>2, <2>1, FrontIsParent DEF MkdirTarget, IsStrictPrefix
  <2> QED
    BY <1>1, <1>2, <2>1, <2>2
<1>3. CASE step.act = "mkdir"
  <2>1. step.dst \in Path /\ MadeFor(step.dst) /\ MkdirTarget = step.dst
    BY <1>3 DEF FilesInv, StepInv, MkdirInv, Running, MkdirTarget
  <2> QED
    BY <1>1, <1>3, <2>1 DEF AnyPath
<1>4. CASE step.act = "split"
  <2> DEFINE t == Append(step.dst, Part)
  <2>1. /\ t \in Path /\ Given(t) /\ MadeFor(t) /\ step.dst \in Path /\ MkdirTarget = step.dst
    BY <1>4 DEF FilesInv, StepInv, SplitInv, Running, Writes, MkdirTarget
  <2>2. Front(t) = step.dst
    BY <2>1, PartIsBelow, PathsAreNames
  <2>3. Front(t) # t
    BY <2>1, FrontIsParent DEF IsStrictPrefix
  <2> HIDE DEF t
  <2> QED
    BY <1>1, <1>4, <2>1, <2>2, <2>3 DEF AnyPath, t
<1> QED
  BY <1>1, <1>2, <1>3, <1>4

(* The first directory that is missing is made.                            *)
LEMMA DirectoryMade ==
    ASSUME FilesInv, step.pc = "mkdir", NEW q \in Missing,
           \A r \in Missing : IsPrefix(q, r), ~Exists(q),
           tree' = [tree EXCEPT ![q] = Dir], UNCHANGED step, Keep
    PROVE  FilesInv' /\ Spares
<1>1. /\ Shape(tree) /\ Types /\ tree \in [Path -> Node]
  BY DEF FilesInv, Shape
<1>2. PICK p \in Path :
        /\ p = IF step.act = "split" THEN Append(step.dst, Part) ELSE step.dst
        /\ MadeFor(p) /\ (step.act # "mkdir" => Given(p))
        /\ p = MkdirTarget <=> step.act = "mkdir"
        /\ step.act # "mkdir" => MkdirTarget = Front(p)
  BY OnTheWay
<1>3. /\ MkdirTarget \in AnyPath /\ step.res = "running"
      /\ step.act \in {"write", "mkdir", "merge", "split"}
  BY OnTheWay
<1>4. /\ q \in Path /\ tree[q] = Absent
      /\ q = MkdirTarget \/ IsStrictPrefix(q, MkdirTarget)
  <2>1. q # Root
    BY DEF Missing, IsDir
  <2>2. q \in Path /\ (q = MkdirTarget \/ IsStrictPrefix(q, MkdirTarget))
    BY <1>3, <2>1 DEF Missing, Ancestors, AnyPath
  <2> QED
    BY <1>1, <2>2, ExistsMeans
<1>5. q = p \/ IsStrictPrefix(q, p)
  <2>1. CASE step.act = "mkdir"
    BY <1>2, <1>4, <2>1
  <2>2. CASE step.act # "mkdir"
    <3>1. IsPrefix(q, Front(p))
      BY <1>2, <1>4, <2>2, PrefixOrder, PathsAreNames DEF IsStrictPrefix
    <3> QED
      BY <1>4, <3>1, FrontIsParent, PathsAreNames
  <2> QED
    BY <2>1, <2>2
<1>6. q = p => step.act = "mkdir"
  <2> SUFFICES ASSUME q = p, step.act # "mkdir"
               PROVE  FALSE
    OBVIOUS
  <2>1. IsPrefix(p, Front(p))
    BY <1>2, <1>4, PrefixOrder, PathsAreNames DEF IsStrictPrefix
  <2>2. IsStrictPrefix(p, p)
    BY <2>1, FrontIsParent, PathsAreNames
  <2> QED
    BY <2>2 DEF IsStrictPrefix
<1>7. Front(q) = Root \/ tree[Front(q)] = Dir
  <2> SUFFICES ASSUME Front(q) # Root, tree[Front(q)] # Dir
               PROVE  FALSE
    OBVIOUS
  <2>1. Front(q) \in Path /\ IsStrictPrefix(Front(q), q)
    BY <1>4, FrontIsParent DEF AnyPath
  <2>2. IsStrictPrefix(Front(q), MkdirTarget)
    <3>1. IsPrefix(Front(q), MkdirTarget)
      BY <1>3, <1>4, <2>1, PrefixOrder, PathsAreNames DEF IsStrictPrefix
    <3>2. Front(q) # MkdirTarget
      BY <1>3, <1>4, <2>1, PrefixOrder, PathsAreNames DEF IsStrictPrefix
    <3> QED
      BY <3>1, <3>2 DEF IsStrictPrefix
  <2>3. Front(q) \in Missing
    BY <1>1, <2>1, <2>2, ExistsMeans DEF Missing, Ancestors
  <2>4. IsPrefix(q, Front(q))
    BY <2>3
  <2> QED
    BY <1>4, <2>1, <2>4, PrefixOrder, PathsAreNames DEF IsStrictPrefix
<1>8. CanPut(tree, q, Dir) /\ Given(q) /\ ~IsFile(q) /\ Dir \in Node
  BY <1>1, <1>4, <1>7, NodesMade, ExistsMeans DEF CanPut, Given, Absent
<1>9. /\ Shape(tree)' /\ tree'[q] = Dir /\ (\A r \in Path \ {q} : tree'[r] = tree[r])
      /\ NothingLost' /\ Spares
  BY <1>4, <1>8, Putting DEF Keep
<1>10. Types'
  BY <1>1 DEF Types, Keep
<1>11. MadeFor(p)'
  <2> SUFFICES ASSUME NEW r \in Path \ {p}
               PROVE  \/ tree'[r] = step.was[r]
                      \/ step.was[r] = Absent /\ IsStrictPrefix(r, p) /\ tree'[r] = Dir
    BY DEF MadeFor
  <2>1. CASE r # q
    BY <1>2, <1>9, <2>1 DEF MadeFor
  <2>2. CASE r = q
    <3>1. step.was[q] = Absent
      BY <1>2, <1>4, <2>2, NodesMade DEF MadeFor
    <3> QED
      BY <1>5, <1>9, <2>2, <3>1
  <2> QED
    BY <2>1, <2>2
<1>12. step.act # "mkdir" => q # p /\ Given(p)' /\ tree'[p] = tree[p]
  BY <1>2, <1>6, <1>9 DEF Given, Keep
<1>13. step'.pc = "mkdir" /\ step'.act = step.act /\ step'.dst = step.dst
  OBVIOUS
<1>14. step.act # "mkdir" => Writes(p)'
  BY <1>2, <1>11, <1>12, <1>13 DEF Writes
<1>15. CASE step.act = "write"
  <2>1. WriteInv'
    BY <1>2, <1>13, <1>14, <1>15 DEF WriteInv, FilesInv, StepInv, Running
  <2> QED
    BY <1>9, <1>10, <1>3, <1>13, <1>15, <2>1, OfItsKind, InProgress
<1>16. CASE step.act = "mkdir"
  <2>1. MkdirInv'
    BY <1>2, <1>11, <1>13, <1>16 DEF MkdirInv
  <2> QED
    BY <1>9, <1>10, <1>3, <1>13, <1>16, <2>1, OfItsKind, InProgress
<1>17. CASE step.act = "merge"
  <2>1. MergeInv'
    BY <1>2, <1>12, <1>13, <1>14, <1>17 DEF MergeInv, FilesInv, StepInv, Running
  <2> QED
    BY <1>9, <1>10, <1>3, <1>13, <1>17, <2>1, OfItsKind, InProgress
<1>18. CASE step.act = "split"
  <2>1. SplitInv'
    BY <1>2, <1>13, <1>14, <1>18 DEF SplitInv, FilesInv, StepInv, Running
  <2> QED
    BY <1>9, <1>10, <1>3, <1>13, <1>18, <2>1, OfItsKind, InProgress
<1> QED
  BY <1>3, <1>15, <1>16, <1>17, <1>18

(* No directory is missing any more.                                       *)
LEMMA DirectoriesThere ==
    ASSUME FilesInv, step.pc = "mkdir", ValidateWritePath(MkdirTarget), Missing = {},
           CASE step.act = "mkdir" -> Finish("ok")
             [] step.act = "write" -> Advance("open")
             [] OTHER -> Advance("convert"),
           UNCHANGED tree, Keep
    PROVE  FilesInv' /\ Spares
<1>1. Shape(tree) /\ Shape(tree)' /\ NothingLost' /\ Spares
  BY NothingNew DEF FilesInv, Shape, Keep
<1>2. step.act \in {"write", "mkdir", "merge", "split"} /\ MkdirTarget \in AnyPath
  BY OnTheWay
<1>3. CASE step.act = "mkdir"
  <2>1. step.dst \in Path /\ MadeFor(step.dst) /\ MkdirTarget = step.dst
    BY <1>3 DEF FilesInv, StepInv, MkdirInv, Running, MkdirTarget
  <2>2. Finish("ok")
    BY <1>3
  <2>3. /\ Types' /\ step'.pc = "end" /\ step'.res = "ok" /\ StepInv'
        /\ step'.act = "mkdir" /\ step'.dst = step.dst /\ step'.was = step.was
    BY <1>3, <2>2, Ended
  <2>4. tree[step.dst] = Dir
    BY <1>1, <2>1, ExistsMeans DEF Missing
  <2>5. Done'
    BY <2>1, <2>3, <2>4 DEF Done, IsDir, Dir
  <2>6. Touched' = {step.dst}
    BY <2>3 DEF Touched
  <2>7. SuccessMeansDone'
    BY <2>1, <2>3, <2>5, <2>6 DEF SuccessMeansDone, MadeFor
  <2> QED
    BY <1>1, <2>3, <2>7 DEF FilesInv
<1>4. CASE step.act = "write"
  <2>1. Advance("open") /\ "open" \in Calls \ {"end"}
    BY <1>4 DEF Calls
  <2>2. /\ Types' /\ step'.pc = "open" /\ step'.res = "running" /\ step'.act = "write"
        /\ step'.dst = step.dst /\ step'.was = step.was
    BY <1>4, <2>1, Advanced
  <2>3. WriteInv'
    BY <1>4, <2>2 DEF WriteInv, FilesInv, StepInv, Running, Writes, Given, MadeFor, Keep
  <2> QED
    BY <1>1, <2>2, <2>3, OfItsKind, InProgress
<1>5. CASE step.act \in {"merge", "split"}
  <2>1. Advance("convert") /\ "convert" \in Calls \ {"end"}
    BY <1>5 DEF Calls
  <2>2. /\ Types' /\ step'.pc = "convert" /\ step'.res = "running" /\ step'.act = step.act
        /\ step'.dst = step.dst /\ step'.was = step.was
    BY <2>1, Advanced
  <2>3. CASE step.act = "merge"
    <3>1. step.dst \in Path /\ MkdirTarget = Front(step.dst)
      BY <2>3 DEF FilesInv, StepInv, MergeInv, Running, Writes, MkdirTarget
    <3>2. ~BelowReadOnly(step.dst)
      <4> SUFFICES ASSUME NEW r \in ReadOnlyDirs, IsStrictPrefix(r, step.dst)
                   PROVE  FALSE
        BY DEF BelowReadOnly
      <4>1. r \in Path /\ r \in Names /\ r \in AnyPath /\ r # Root
        BY UnderMeans, PathsAreNames DEF AnyPath
      <4>2. IsPrefix(r, Front(step.dst))
        BY <3>1, <4>1, FrontIsParent
      <4>3. Front(step.dst) # Root
        BY <4>1, <4>2, PrefixOrder
      <4>4. Front(step.dst) \in Under(r)
        BY <1>2, <3>1, <4>1, <4>2, <4>3, UnderMeans DEF AnyPath
      <4> QED
        BY <3>1, <4>4 DEF ValidateWritePath, IsReadOnly
    <3>3. MergeInv'
      BY <2>2, <2>3, <3>2
         DEF MergeInv, FilesInv, StepInv, Running, Writes, Given, MadeFor, Keep, BelowReadOnly
    <3> QED
      BY <1>1, <2>2, <2>3, <3>3, OfItsKind, InProgress
  <2>4. CASE step.act = "split"
    <3>1. ~IsReadOnly(step.dst)
      BY <2>4 DEF MkdirTarget, ValidateWritePath
    <3>2. SplitInv'
      BY <2>2, <2>4, <3>1
         DEF SplitInv, FilesInv, StepInv, Running, Writes, Given, MadeFor, Keep, IsReadOnly
    <3> QED
      BY <1>1, <2>2, <2>4, <3>2, OfItsKind, InProgress
  <2> QED
    BY <1>5, <2>3, <2>4
<1> QED
  BY <1>2, <1>3, <1>4, <1>5

LEMMA MkdirCallKeeps ==
    ASSUME FilesInv, MkdirCall
    PROVE  FilesInv' /\ Spares
<1>1. CASE Finish("error") /\ UNCHANGED tree
  BY <1>1, Failed DEF MkdirCall
<1>2. CASE /\ ValidateWritePath(MkdirTarget) /\ Missing = {}
           /\ CASE step.act = "mkdir" -> Finish("ok")
                [] step.act = "write" -> Advance("open")
                [] OTHER -> Advance("convert")
           /\ UNCHANGED tree
  BY <1>2, DirectoriesThere DEF MkdirCall
<1>3. ASSUME NEW q \in Missing, \A r \in Missing : IsPrefix(q, r), ~Exists(q),
             tree' = [tree EXCEPT ![q] = Dir], UNCHANGED step
      PROVE  FilesInv' /\ Spares
  BY <1>3, DirectoryMade DEF MkdirCall
<1> QED
  BY <1>1, <1>2, <1>3 DEF MkdirCall

(* The destination of a step that opens it.                                *)
LEMMA Openable ==
    ASSUME FilesInv, NEW p \in Path, CanCreate(p), NEW n \in Node
    PROVE  /\ CanPut(tree, p, n) /\ tree[p] # Dir
<1>1. Shape(tree)
  BY DEF FilesInv
<1>2. tree[p] # Dir /\ (Front(p) = Root \/ tree[Front(p)] = Dir)
  BY <1>1, ExistsMeans, FrontIsDir DEF CanCreate
<1> QED
  BY <1>1, <1>2, NothingBelow DEF CanPut

LEMMA OpenCallKeeps ==
    ASSUME FilesInv, OpenCall
    PROVE  FilesInv' /\ Spares
<1> DEFINE n == Cut(Contents.data)
<1>1. PICK dst \in AnyPath : dst = step.dst
  BY DEF FilesInv, Types, StepType
<1>2. CASE Finish("error") /\ UNCHANGED tree
  BY <1>2, Failed DEF OpenCall
<1>3. CASE ~(Finish("error") /\ UNCHANGED tree)
  <2>1. /\ CanCreate(dst) /\ (step.act = "write" => ValidateWritePath(dst))
        /\ tree' = [tree EXCEPT ![dst] = n] /\ Advance("fill") /\ Keep /\ step.pc = "open"
    BY <1>1, <1>3 DEF OpenCall
  <2>2. step.act \in {"write", "copy", "move"}
    BY <2>1, ItsKind DEF Acts
  <2>3. Shape(tree) /\ step \in StepType /\ step.data \in Node
    BY DEF FilesInv, Types, StepType
  <2>4. "fill" \in Calls \ {"end"}
    BY DEF Calls
  <2>5. /\ Types' /\ step'.pc = "fill" /\ step'.res = "running" /\ step'.act = step.act
        /\ step'.src = step.src /\ step'.dst = dst
        /\ step'.data = step.data /\ step'.was = step.was
    BY <1>1, <2>1, <2>4, Advanced
  <2>6. given' = given
    BY <2>1 DEF Keep
  <2> HIDE DEF n
  <2>7. CASE step.act = "write"
    <3>1. /\ dst \in Path /\ Given(dst) /\ MadeFor(dst) /\ dst \notin Protected
      BY <1>1, <2>1, <2>7 DEF FilesInv, StepInv, WriteInv, Running, Writes
    <3>2. ~Kept(dst)
      BY <2>1, <2>7, <3>1, KeptMeans DEF ValidateWritePath
    <3>3. n = Cut("written") /\ n \in Node
      BY <2>7, NodesMade DEF n, Contents
    <3>4. CanPut(tree, dst, n)
      BY <2>1, <3>1, <3>3, Openable
    <3>5. /\ Shape(tree)' /\ tree'[dst] = n /\ (\A q \in Path \ {dst} : tree'[q] = tree[q])
          /\ NothingLost' /\ Spares
      BY <2>1, <2>6, <3>1, <3>2, <3>3, <3>4, Putting
    <3>6. MadeFor(dst)' /\ tree'[dst].kind = "cut" /\ ~Kept(dst)'
      BY <2>5, <3>1, <3>2, <3>3, <3>5, NodesMade DEF MadeFor, Kept
    <3>7. WriteInv'
      BY <2>5, <3>1, <3>6 DEF WriteInv, Writes, Given
    <3> QED
      BY <2>5, <2>7, <3>5, <3>7, OfItsKind, InProgress
  <2>8. CASE step.act = "copy"
    <3>1. /\ dst \in Path /\ step.src \in Path /\ step.src # dst /\ ~Kept(dst)
          /\ SameBut({dst}) /\ tree[dst].kind = "absent"
      BY <1>1, <2>1, <2>8 DEF FilesInv, StepInv, CopyInv, Running
    <3>2. n = Cut(tree[step.src].data) /\ n \in Node /\ n.kind = "cut"
      BY <2>3, <2>8, <3>1, NodeKinds DEF n, Contents, Shape
    <3>3. CanPut(tree, dst, n) /\ Given(dst)
      BY <2>1, <3>1, <3>2, Openable DEF Given
    <3>4. /\ Shape(tree)' /\ tree'[dst] = n /\ (\A q \in Path \ {dst} : tree'[q] = tree[q])
          /\ NothingLost' /\ Spares
      BY <2>1, <2>6, <3>1, <3>2, <3>3, Putting
    <3>5. CopyInv'
      BY <2>5, <3>1, <3>2, <3>4 DEF CopyInv, SameBut, Kept
    <3> QED
      BY <2>5, <2>8, <3>4, <3>5, OfItsKind, InProgress
  <2>9. CASE step.act = "move"
    <3>1. /\ Goes /\ dst \in Path /\ step.src \in Path /\ step.src # dst
          /\ tree = step.was /\ tree[step.src] = step.data /\ step.data \notin {Absent, Dir}
      BY <1>1, <2>1, <2>9 DEF FilesInv, StepInv, MoveInv, Running, Goes
    <3>2. n = Cut(step.data.data) /\ n \in Node /\ n.kind = "cut"
      BY <2>3, <2>9, NodeKinds DEF n, Contents
    <3>3. /\ CanPut(tree, dst, n) /\ ~Kept(dst) /\ Given(dst)
      BY <1>1, <2>1, <3>1, <3>2, Openable DEF Goes
    <3>4. /\ Shape(tree)' /\ tree'[dst] = n /\ (\A q \in Path \ {dst} : tree'[q] = tree[q])
          /\ NothingLost' /\ Spares
      BY <2>1, <2>6, <3>1, <3>2, <3>3, Putting
    <3>5. Goes'
      BY <2>5, <3>1, <3>2, <3>3, <3>4 DEF Goes, Given, Kept
    <3>6. SameBut({dst})'
      BY <2>5, <3>1, <3>4 DEF SameBut
    <3>7. MoveInv'
      BY <2>5, <3>1, <3>2, <3>4, <3>5, <3>6 DEF MoveInv
    <3> QED
      BY <2>5, <2>9, <3>4, <3>7, OfItsKind, InProgress
  <2> QED
    BY <2>2, <2>7, <2>8, <2>9
<1> QED
  BY <1>2, <1>3

(* A file that was truncated is written.                                   *)
LEMMA Filled ==
    ASSUME FilesInv, NEW p \in Path, tree[p].kind = "cut", ~Kept(p),
           NEW n \in Node, n \notin {Absent, Dir},
           given' = given, tree' = [tree EXCEPT ![p] = n]
    PROVE  /\ Shape(tree)' /\ tree'[p] = n /\ (\A q \in Path \ {p} : tree'[q] = tree[q])
           /\ NothingLost' /\ Spares
<1>1. Shape(tree) /\ tree[p] \notin {Absent, Dir}
  BY NodeKinds DEF FilesInv, Absent, Dir
<1>2. CanPut(tree, p, n) /\ Given(p)
  BY <1>1, ParentOf, NothingBelow DEF CanPut, Given
<1> QED
  BY <1>2, Putting

LEMMA FillCallKeeps ==
    ASSUME FilesInv, FillCall
    PROVE  FilesInv' /\ Spares
<1>1. PICK dst \in AnyPath : dst = step.dst
  BY DEF FilesInv, Types, StepType
<1>2. CASE Finish("error") /\ UNCHANGED tree
  BY <1>2, Failed DEF FillCall
<1>3. CASE ~(Finish("error") /\ UNCHANGED tree)
  <2>1. /\ step.act = "copy" => IsFile(step.src)
        /\ tree' = [tree EXCEPT ![dst] = Contents] /\ Keep /\ step.pc = "fill"
        /\ step.act = "move" => Advance("remove")
        /\ step.act # "move" => Finish("ok")
    BY <1>1, <1>3 DEF FillCall
  <2>2. step.act \in {"write", "copy", "move", "merge", "split"}
    BY <2>1, ItsKind DEF Acts
  <2>3. Shape(tree) /\ step \in StepType /\ step.data \in Node
    BY DEF FilesInv, Types, StepType
  <2>4. given' = given
    BY <2>1 DEF Keep
  <2>5. step.act # "move" =>
          /\ Types' /\ step'.pc = "end" /\ step'.res = "ok" /\ StepInv'
          /\ step'.act = step.act /\ step'.src = step.src /\ step'.dst = dst
          /\ step'.was = step.was
    BY <1>1, <2>1, Ended
  <2>6. CASE step.act \in {"write", "merge", "split"}
    <3>1. dst \in Path /\ MadeFor(dst) /\ tree[dst].kind = "cut" /\ ~Kept(dst)
      BY <1>1, <2>1, <2>6 DEF FilesInv, StepInv, WriteInv, MergeInv, SplitInv, Running, Writes
    <3>2. Contents \in Node /\ Contents \notin {Absent, Dir} /\ Contents' = Contents
      <4>1. \A d \in Data : Whole(d) \in Node /\ Whole(d) \notin {Absent, Dir}
        BY NodesMade DEF Whole, Absent, Dir
      <4> QED
        BY <2>5, <2>6, <4>1, NodesMade DEF Contents
    <3>3. /\ Shape(tree)' /\ tree'[dst] = Contents
          /\ (\A q \in Path \ {dst} : tree'[q] = tree[q])
          /\ NothingLost' /\ Spares
      BY <2>1, <2>4, <3>1, <3>2, Filled
    <3>4. Done' /\ Touched' = {dst}
      BY <2>5, <2>6, <3>2, <3>3 DEF Done, Touched
    <3>5. SuccessMeansDone'
      BY <2>5, <2>6, <3>1, <3>3, <3>4 DEF SuccessMeansDone, MadeFor
    <3> QED
      BY <2>5, <2>6, <3>3, <3>5 DEF FilesInv
  <2>7. CASE step.act = "copy"
    <3>1. /\ dst \in Path /\ step.src \in Path /\ step.src # dst /\ ~Kept(dst)
          /\ SameBut({dst}) /\ tree[dst].kind = "cut"
      BY <1>1, <2>1, <2>7 DEF FilesInv, StepInv, CopyInv, Running
    <3>2. Contents = tree[step.src] /\ Contents \in Node /\ Contents \notin {Absent, Dir}
      BY <2>1, <2>3, <2>7, <3>1, ExistsMeans DEF Contents, Shape
    <3>3. /\ Shape(tree)' /\ tree'[dst] = tree[step.src]
          /\ (\A q \in Path \ {dst} : tree'[q] = tree[q])
          /\ NothingLost' /\ Spares
      BY <2>1, <2>4, <3>1, <3>2, Filled
    <3>4. Done' /\ Touched' = {dst}
      BY <2>5, <2>7, <3>1, <3>3 DEF Done, Touched, SameBut
    <3>5. SuccessMeansDone'
      BY <2>5, <2>7, <3>1, <3>3, <3>4 DEF SuccessMeansDone, SameBut
    <3> QED
      BY <2>5, <2>7, <3>3, <3>5 DEF FilesInv
  <2>8. CASE step.act = "move"
    <3>1. /\ Goes /\ dst \in Path /\ step.src \in Path /\ step.src # dst /\ SameBut({dst})
          /\ tree[step.src] = step.data /\ step.data \notin {Absent, Dir}
          /\ tree[dst].kind = "cut"
      BY <1>1, <2>1, <2>8 DEF FilesInv, StepInv, MoveInv, Running, Goes
    <3>2. ~Kept(dst)
      BY <1>1, <3>1 DEF Goes, Dir
    <3>3. Contents = step.data
      BY <2>8 DEF Contents
    <3>4. /\ Shape(tree)' /\ tree'[dst] = step.data
          /\ (\A q \in Path \ {dst} : tree'[q] = tree[q])
          /\ NothingLost' /\ Spares
      BY <2>1, <2>3, <2>4, <3>1, <3>2, <3>3, Filled
    <3>5. "remove" \in Calls \ {"end"}
      BY DEF Calls
    <3>6. /\ Types' /\ step'.pc = "remove" /\ step'.res = "running" /\ step'.act = "move"
          /\ step'.src = step.src /\ step'.dst = dst
          /\ step'.data = step.data /\ step'.was = step.was
      BY <1>1, <2>1, <2>8, <3>5, Advanced
    <3>7. Goes'
      BY <3>1, <3>2, <3>6 DEF Goes, Kept
    <3>8. SameBut({dst})'
      BY <3>1, <3>4, <3>6 DEF SameBut
    <3>9. MoveInv'
      BY <3>1, <3>4, <3>6, <3>7, <3>8 DEF MoveInv
    <3> QED
      BY <3>4, <3>6, <3>9, OfItsKind, InProgress
  <2> QED
    BY <2>2, <2>6, <2>7, <2>8
<1> QED
  BY <1>2, <1>3

(* The operating system never refuses to rename a file to itself.          *)
LEMMA ToItself ==
    ASSUME Shape(tree), NEW p \in Path, IsFile(p)
    PROVE  CanRename(p, p)
<1>1. tree[p] # Absent /\ tree[p] # Dir /\ Exists(p) /\ ~IsDir(p)
  BY ExistsMeans
<1>2. IsDir(Front(p))
  BY <1>1, ParentOf, FrontIsDir
<1>3. \A m \in Mounts : ~IsPrefix(p, m)
  BY <1>1, NothingBelow, UnderMeans, NodesMade DEF Shape, IsStrictPrefix
<1> QED
  BY <1>1, <1>2, <1>3 DEF CanRename, SameDevice

(* A move whose renaming failed goes on with a copy.                       *)
LEMMA FallsBack ==
    ASSUME FilesInv, step.pc = "rename", step.act = "move", Advance("read"),
           UNCHANGED tree, Keep, step.src # step.dst \/ ~IsFile(step.src)
    PROVE  FilesInv' /\ Spares
<1>1. "read" \in Calls \ {"end"}
  BY DEF Calls
<1>2. /\ Types' /\ step'.pc = "read" /\ step'.res = "running" /\ step'.act = "move"
      /\ step'.src = step.src /\ step'.dst = step.dst /\ step'.was = step.was
  BY <1>1, Advanced
<1>3. Goes /\ tree = step.was
  BY DEF FilesInv, StepInv, MoveInv, Running
<1>4. Goes'
  BY <1>2, <1>3 DEF Goes, Given, Kept, Keep
<1>5. MoveInv'
  BY <1>2, <1>3, <1>4 DEF MoveInv, IsFile
<1>6. Shape(tree)' /\ NothingLost' /\ Spares
  BY NothingNew DEF FilesInv, Shape, Keep
<1> QED
  BY <1>2, <1>5, <1>6, OfItsKind, InProgress

LEMMA RenamingKeeps ==
    ASSUME FilesInv, step.pc = "rename", CanRename(step.src, step.dst),
           tree' = Renamed(step.src, step.dst), Finish("ok"), Keep
    PROVE  FilesInv' /\ Spares
<1> DEFINE src == step.src
           dst == step.dst
<1>1. Shape(tree) /\ NothingLost /\ step.act \in {"move", "rename"}
  BY ItsKind DEF FilesInv, Acts
<1>2. /\ Goes /\ src \in Path /\ dst \in Path /\ Fits(src, dst) /\ tree = step.was
  BY <1>1 DEF FilesInv, StepInv, MoveInv, RenameInv, Running, Goes
<1>3. given' = given
  BY DEF Keep
<1>4. /\ Types' /\ step'.pc = "end" /\ step'.res = "ok" /\ StepInv'
      /\ step'.act = step.act /\ step'.src = src /\ step'.dst = dst
      /\ step'.was = step.was
  BY Ended
<1> HIDE DEF src, dst
<1>5. /\ Under(src) = {p \in Path : IsPrefix(src, p)}
      /\ Under(dst) = {p \in Path : IsPrefix(dst, p)}
  BY <1>2, UnderMeans DEF AnyPath
<1>6. CASE src = dst
  <2>1. tree' = tree
    BY <1>2, <1>6, RenamedItself, <1>1 DEF src, dst
  <2>2. Shape(tree)' /\ NothingLost' /\ Spares
    BY <1>1, <1>3, <2>1, NothingNew DEF Shape
  <2>3. \A p \in Under(src) : Moved(p, src, dst) = p
    BY <1>2, <1>5, <1>6, MovedSame, PathsAreNames
  <2>4. Done'
    BY <1>1, <1>2, <1>4, <1>6, <2>1, <2>3 DEF Done
  <2>5. SuccessMeansDone'
    BY <1>2, <1>4, <2>1, <2>4 DEF SuccessMeansDone
  <2> QED
    BY <1>4, <2>2, <2>5 DEF FilesInv
<1>7. CASE src # dst
  <2>1. tree' = Renamed(src, dst) /\ CanRename(src, dst)
    BY DEF src, dst
  <2>2. /\ \A p \in Under(src) :
                 /\ tree'[p] = Absent
                 /\ tree[p] # Absent => /\ Moved(p, src, dst) \in Under(dst)
                                        /\ tree'[Moved(p, src, dst)] = tree[p]
        /\ \A p \in Under(dst) : p # dst => tree[p] = Absent
        /\ \A p \in Path \ (Under(src) \cup Under(dst)) : tree'[p] = tree[p]
        /\ Shape(tree')
    <3>1. PICK u : u = Renamed(src, dst)
      OBVIOUS
    <3>2. u = tree'
      BY <2>1, <3>1
    <3> QED
      BY <1>1, <1>2, <1>7, <2>1, <3>1, <3>2, RenamedMeans
  <2>3. tree[dst] # Dir
    BY <1>1, <1>2, <1>7, <2>1, RenamedApart
  <2>4. Given(dst) /\ ~Kept(dst) /\ ~Kept(src)
    BY <1>2, <1>7, <2>3 DEF Goes, src, dst
  <2>5. ASSUME NEW d \in FirstData \ given', NEW p \in Path, tree[p] = Whole(d)
        PROVE  \E q \in Path : tree'[q] = Whole(d)
    <3>1. tree[p].kind = "file" /\ tree[p].data = d /\ tree[p] # Absent
      BY <2>5, NodesMade DEF Absent
    <3>2. p # dst
      BY <1>3, <2>4, <2>5, <3>1 DEF Given
    <3>3. CASE p \in Under(src)
      <4>1. Moved(p, src, dst) \in Path /\ tree'[Moved(p, src, dst)] = Whole(d)
        BY <1>5, <2>2, <2>5, <3>1, <3>3
      <4> QED
        BY <4>1
    <3>4. CASE p \notin Under(src)
      <4>1. p \notin Under(dst)
        BY <2>2, <3>1, <3>2
      <4> QED
        BY <2>2, <2>5, <3>4, <4>1
    <3> QED
      BY <3>3, <3>4
  <2>6. NothingLost'
    BY <1>1, <1>3, <2>5, StillThere
  <2>7. Spares
    <3> SUFFICES ASSUME NEW p \in Path, Kept(p), IsFile(p), tree'[p] # tree[p]
                 PROVE  tree'[p] = Absent /\ IsStrictPrefix(src, p)
      BY <1>1 DEF Spares, src
    <3>1. tree[p] # Absent
      BY <1>1, ExistsMeans
    <3>2. p \in Under(src)
      BY <2>2, <2>4, <3>1
    <3> QED
      BY <1>5, <2>2, <2>4, <3>2 DEF IsStrictPrefix
  <2>8. Done'
    <3>1. \A p \in Under(src) :
             /\ step.was[p] # Absent => tree'[Moved(p, src, dst)] = step.was[p]
             /\ ~Exists(p)'
      BY <1>2, <1>5, <2>2, PathsAreNames DEF Exists, Absent
    <3> QED
      BY <1>1, <1>4, <3>1 DEF Done
  <2>9. Touched' = Under(src) \cup Under(dst)
    BY <1>1, <1>4 DEF Touched
  <2>10. SuccessMeansDone'
    BY <1>2, <1>4, <2>2, <2>8, <2>9 DEF SuccessMeansDone
  <2>11. Shape(tree)'
    BY <2>2 DEF Shape
  <2> QED
    BY <1>4, <2>6, <2>7, <2>10, <2>11 DEF FilesInv
<1> QED
  BY <1>6, <1>7

LEMMA RenameCallKeeps ==
    ASSUME FilesInv, RenameCall
    PROVE  FilesInv' /\ Spares
<1>1. CASE CanRename(step.src, step.dst)
  BY <1>1, RenamingKeeps DEF RenameCall
<1>2. CASE ~CanRename(step.src, step.dst) /\ step.act # "move"
  BY <1>2, Failed DEF RenameCall, RenameFailed
<1>3. CASE ~CanRename(step.src, step.dst) /\ step.act = "move"
  <2>1. step.src \in Path /\ Shape(tree)
    BY <1>3 DEF RenameCall, FilesInv, StepInv, MoveInv, Running, Goes
  <2>2. step.src # step.dst \/ ~IsFile(step.src)
    BY <1>3, <2>1, ToItself
  <2> QED
    BY <1>3, <2>2, FallsBack DEF RenameCall, RenameFailed
<1> QED
  BY <1>1, <1>2, <1>3

LEMMA CallFailsKeeps ==
    ASSUME FilesInv, CallFails
    PROVE  FilesInv' /\ Spares
<1>1. CASE step.pc = "rename" /\ step.act = "move"
  BY <1>1, FallsBack DEF CallFails, RenameFailed
<1>2. CASE ~(step.pc = "rename" /\ step.act = "move")
  BY <1>2, Failed DEF CallFails, RenameFailed
<1> QED
  BY <1>1, <1>2

LEMMA KilledKeeps ==
    ASSUME FilesInv, Killed
    PROVE  FilesInv' /\ Spares
BY Stopped DEF Killed, Finish, Keep, FilesInv, Types

LEMMA ReadCallKeeps ==
    ASSUME FilesInv, ReadCall
    PROVE  FilesInv' /\ Spares
<1>1. CASE ~IsFile(step.src)
  BY <1>1, Failed DEF ReadCall
<1>2. CASE IsFile(step.src)
  <2>1. /\ step.pc = "read" /\ UNCHANGED tree /\ Keep
        /\ step' = [step EXCEPT !.pc = "open", !.data = tree[step.src]]
    BY <1>2 DEF ReadCall
  <2>2. step.act = "move" /\ step.res = "running"
    BY <2>1, ItsKind DEF Acts
  <2>3. Goes /\ tree = step.was /\ step.src # step.dst /\ step.src \in Path
    BY <1>2, <2>1, <2>2 DEF FilesInv, StepInv, MoveInv, Running, Goes
  <2>4. Shape(tree) /\ tree[step.src] \in Node /\ tree[step.src] \notin {Absent, Dir}
    BY <1>2, <2>3, ExistsMeans DEF FilesInv, Shape
  <2>5. step \in StepType /\ count \in 0 .. MaxSteps /\ given \subseteq Data
    BY DEF FilesInv, Types
  <2>6. step' \in StepType
    BY <2>1, <2>4, <2>5 DEF StepType, Calls
  <2>7. /\ step'.pc = "open" /\ step'.res = "running" /\ step'.act = "move"
        /\ step'.src = step.src /\ step'.dst = step.dst /\ step'.was = step.was
        /\ step'.data = tree[step.src]
    BY <2>1, <2>2, <2>5 DEF StepType
  <2>8. Types'
    BY <2>1, <2>5, <2>6, <2>7 DEF Types, Keep
  <2>9. Goes'
    BY <2>1, <2>3, <2>7 DEF Goes, Given, Kept, Keep
  <2>10. MoveInv'
    BY <2>1, <2>3, <2>4, <2>7, <2>9 DEF MoveInv, SameBut
  <2>11. Shape(tree)' /\ NothingLost' /\ Spares
    BY <2>1, NothingNew DEF FilesInv, Shape, Keep
  <2> QED
    BY <2>7, <2>8, <2>10, <2>11, OfItsKind, InProgress
<1> QED
  BY <1>1, <1>2

LEMMA RemoveCallKeeps ==
    ASSUME FilesInv, RemoveCall
    PROVE  FilesInv' /\ Spares
<1> DEFINE src == step.src
           dst == step.dst
<1>1. /\ step.pc = "remove" /\ tree' = [tree EXCEPT ![src] = Absent] /\ Finish("ok") /\ Keep
  BY DEF RemoveCall
<1>2. step.act = "move"
  BY <1>1, ItsKind DEF Acts
<1>3. /\ src \in Path /\ dst \in Path /\ ~Kept(src) /\ src # dst
      /\ tree[src] = step.data /\ tree[dst] = step.data /\ SameBut({dst})
      /\ step.data \notin {Absent, Dir}
  BY <1>1, <1>2 DEF FilesInv, StepInv, MoveInv, Running, Goes
<1>4. /\ Types' /\ step'.pc = "end" /\ step'.res = "ok" /\ StepInv'
      /\ step'.act = "move" /\ step'.src = src /\ step'.dst = dst
      /\ step'.was = step.was
  BY <1>1, <1>2, Ended
<1>5. Shape(tree) /\ Absent \in Node /\ given' = given
  BY <1>1, NodesMade DEF FilesInv, Keep
<1> HIDE DEF src, dst
<1>6. \A q \in Path : IsStrictPrefix(src, q) => tree[q] = Absent
  BY <1>3, <1>5, NothingBelow
<1>7. CanPut(tree, src, Absent)
  BY <1>3, <1>5, NothingBelow DEF CanPut
<1>8. \E q \in Path \ {src} : tree[q] = tree[src]
  BY <1>3
<1>9. /\ Shape(tree)' /\ tree'[src] = Absent /\ (\A q \in Path \ {src} : tree'[q] = tree[q])
      /\ NothingLost' /\ Spares
  BY <1>1, <1>3, <1>5, <1>7, <1>8, Putting
<1>10. Under(src) = {p \in Path : IsPrefix(src, p)} /\ dst \in Under(dst) /\ src \in Under(src)
  BY <1>3, UnderMeans, PrefixOrder, PathsAreNames DEF AnyPath
<1>11. Done'
  <2>1. ASSUME NEW p \in Under(src)
        PROVE  /\ step.was[p] # Absent => tree'[Moved(p, src, dst)] = step.was[p]
               /\ tree'[p] = Absent
    <3>1. CASE p = src
      <4>1. Moved(p, src, dst) = dst
        BY <1>3, <3>1, MovedBack, PrefixOrder, PathsAreNames
      <4> QED
        BY <1>3, <1>9, <3>1, <4>1 DEF SameBut
    <3>2. CASE p # src
      <4>1. p \in Path /\ tree[p] = Absent
        BY <1>6, <1>10, <3>2 DEF IsStrictPrefix
      <4>2. p # dst
        BY <1>3, <4>1
      <4> QED
        BY <1>3, <1>9, <3>2, <4>1, <4>2 DEF SameBut
    <3> QED
      BY <3>1, <3>2
  <2>2. \A p \in Under(src) : ~Exists(p)'
    BY <1>10, <2>1, PathsAreNames DEF Exists, Absent
  <2> QED
    BY <1>4, <2>1, <2>2 DEF Done
<1>12. Touched' = Under(src) \cup Under(dst)
  BY <1>4 DEF Touched
<1>13. SuccessMeansDone'
  BY <1>3, <1>4, <1>9, <1>10, <1>11, <1>12 DEF SuccessMeansDone, SameBut
<1> QED
  BY <1>4, <1>9, <1>13 DEF FilesInv

LEMMA UnlinkCallKeeps ==
    ASSUME FilesInv, UnlinkCall
    PROVE  FilesInv' /\ Spares
<1>1. PICK src \in AnyPath : src = step.src
  BY DEF FilesInv, Types, StepType
<1>2. PICK p \in Under(src) \ Mounts :
        /\ Exists(p) /\ \A q \in Under(p) \ {p} : ~Exists(q)
        /\ tree' = [tree EXCEPT ![p] = Absent]
        /\ IF p = src THEN Finish("ok") ELSE UNCHANGED step
  BY <1>1 DEF UnlinkCall
<1>3. step.pc = "unlink" /\ Keep
  BY DEF UnlinkCall
<1>4. step.act = "delete" /\ step.res = "running"
  BY <1>3, ItsKind DEF Acts
<1>5. /\ src \in Path /\ ~Kept(src) /\ SameBut(Under(src)) /\ \A q \in Under(src) : Given(q)
  BY <1>1, <1>3, <1>4 DEF FilesInv, StepInv, DeleteInv, Running
<1>6. /\ Shape(tree) /\ Types /\ Absent \in Node /\ given' = given
  BY <1>3, NodesMade DEF FilesInv, Keep
<1>7. /\ Under(src) = {q \in Path : IsPrefix(src, q)} /\ p \in Path
      /\ Under(p) = {q \in Path : IsPrefix(p, q)}
  BY <1>5, UnderMeans DEF AnyPath
<1>8. \A q \in Path : IsStrictPrefix(p, q) => tree[q] = Absent
  BY <1>2, <1>6, <1>7, ExistsMeans DEF IsStrictPrefix
<1>9. CanPut(tree, p, Absent) /\ Given(p) /\ (Kept(p) => IsStrictPrefix(src, p))
  BY <1>2, <1>5, <1>7, <1>8 DEF CanPut, IsStrictPrefix
<1>10. /\ Shape(tree)' /\ tree'[p] = Absent /\ (\A q \in Path \ {p} : tree'[q] = tree[q])
      /\ NothingLost' /\ Spares
  BY <1>1, <1>2, <1>4, <1>6, <1>7, <1>9, Putting
<1>11. CASE p = src
  <2>1. /\ Types' /\ step'.pc = "end" /\ step'.res = "ok" /\ StepInv'
        /\ step'.act = "delete" /\ step'.src = src /\ step'.was = step.was
    BY <1>1, <1>2, <1>3, <1>4, <1>11, Ended
  <2>2. \A q \in Under(src) : tree'[q] = Absent
    BY <1>7, <1>8, <1>10, <1>11 DEF IsStrictPrefix
  <2>3. \A q \in Under(src) : ~Exists(q)'
    BY <1>7, <2>2, PathsAreNames DEF Exists, Absent
  <2>4. Done' /\ Touched' = Under(src)
    BY <2>1, <2>3 DEF Done, Touched
  <2>5. SuccessMeansDone'
    BY <1>2, <1>5, <1>10, <2>1, <2>4 DEF SuccessMeansDone, SameBut
  <2> QED
    BY <1>10, <2>1, <2>5 DEF FilesInv
<1>12. CASE p # src
  <2>1. step' = step
    BY <1>2, <1>12
  <2>2. Types'
    BY <1>3, <1>6, <2>1 DEF Types, Keep
  <2>3. (\A q \in Under(src) : Given(q)') /\ SameBut(Under(src))'
    BY <1>2, <1>5, <1>6, <1>7, <1>10, <2>1 DEF Given, SameBut, Absent
  <2>4. DeleteInv'
    <3>1. \A q \in Under(step'.src) : Given(q)'
      BY <1>1, <2>1, <2>3
    <3>2. SameBut(Under(step.src))'
      BY <1>1, <2>1, <2>3 DEF SameBut
    <3> QED
      BY <1>1, <1>3, <1>5, <2>1, <3>1, <3>2 DEF DeleteInv, Kept
  <2> QED
    BY <1>4, <1>10, <2>1, <2>2, <2>4, OfItsKind, InProgress
<1> QED
  BY <1>11, <1>12

LEMMA ConvertCallKeeps ==
    ASSUME FilesInv, ConvertCall
    PROVE  FilesInv' /\ Spares
<1> DEFINE target == IF step.act = "split" THEN Append(step.dst, Part) ELSE step.dst
           n == Cut(Contents.data)
<1>1. CASE Finish("error") /\ UNCHANGED tree
  BY <1>1, Failed DEF ConvertCall
<1>2. CASE ~(Finish("error") /\ UNCHANGED tree)
  <2>1. /\ CanCreate(target) /\ tree' = [tree EXCEPT ![target] = n] /\ Keep /\ step.pc = "convert"
        /\ step' = [step EXCEPT !.pc = "fill", !.dst = target]
    BY <1>2 DEF ConvertCall
  <2>2. step.act \in {"merge", "split"} /\ step.res = "running"
    BY <2>1, ItsKind DEF Acts
  <2>3. step \in StepType /\ count \in 0 .. MaxSteps /\ given \subseteq Data /\ given' = given
    BY <2>1 DEF FilesInv, Types, Keep
  <2>4. n \in Node /\ n.kind = "cut"
    BY <2>2, NodesMade DEF Contents, Whole
  <2>5. PICK p \in Path : p = target /\ Given(p) /\ MadeFor(p)
    BY <2>1, <2>2 DEF FilesInv, StepInv, MergeInv, SplitInv, Running, Writes
  <2>6. CanPut(tree, p, n) /\ tree[p] # Dir
    BY <2>1, <2>4, <2>5, Openable
  <2>7. ~Kept(p)
    <3>1. CASE step.act = "merge"
      BY <2>1, <2>5, <2>6, <3>1, KeptMeans DEF FilesInv, StepInv, MergeInv, Running
    <3>2. CASE step.act = "split"
      <4>1. p = Append(step.dst, Part)
        BY <2>5, <3>2
      <4>2. step.dst \in Path \ Protected /\ ~IsReadOnly(step.dst)
        BY <2>1, <3>2 DEF FilesInv, StepInv, SplitInv, Running
      <4>3. Front(p) = step.dst /\ Last(p) = Part
        BY <2>5, <4>1, <4>2, PartIsBelow, PathsAreNames
      <4>4. p \notin Protected
        BY <4>2, <4>3, FileOpsAssumption
      <4>5. ASSUME NEW r \in ReadOnlyDirs, IsStrictPrefix(r, p) PROVE FALSE
        <5>1. r \in Names /\ r \in AnyPath
          BY UnderMeans, PathsAreNames DEF AnyPath
        <5>2. IsPrefix(r, step.dst)
          BY <2>5, <4>3, <4>5, <5>1, FrontIsParent
        <5>3. step.dst \in Under(r)
          BY <4>2, <5>1, <5>2, UnderMeans
        <5> QED
          BY <4>2, <5>3 DEF IsReadOnly
      <4> QED
        BY <4>4, <4>5 DEF Kept
    <3> QED
      BY <2>2, <3>1, <3>2
  <2> HIDE DEF target, n
  <2>8. /\ Shape(tree)' /\ tree'[p] = n /\ (\A q \in Path \ {p} : tree'[q] = tree[q])
        /\ NothingLost' /\ Spares
    BY <2>1, <2>3, <2>4, <2>5, <2>6, <2>7, Putting
  <2>9. step' \in StepType
    BY <2>1, <2>3, <2>5 DEF StepType, Calls, AnyPath
  <2>10. /\ step'.pc = "fill" /\ step'.res = "running" /\ step'.act = step.act
         /\ step'.dst = p /\ step'.was = step.was
    BY <2>1, <2>2, <2>3, <2>5 DEF StepType
  <2>11. Types'
    BY <2>1, <2>3, <2>9, <2>10 DEF Types, Keep
  <2>12. MadeFor(p)'
    BY <2>5, <2>8, <2>10 DEF MadeFor
  <2>13. Writes(p)'
    BY <2>4, <2>5, <2>7, <2>8, <2>12 DEF Writes, Given, Kept
  <2>14. p \notin Protected
    BY <2>7 DEF Kept
  <2>15. MergeInv' /\ SplitInv'
    BY <2>10, <2>13, <2>14 DEF MergeInv, SplitInv
  <2> QED
    BY <2>2, <2>8, <2>10, <2>11, <2>15, OfItsKind, InProgress
<1> QED
  BY <1>1, <1>2

-----------------------------------------------------------------------------
(* The theorems.                                                            *)

LEMMA StartOfFiles == FilesInit => FilesInv
<1> SUFFICES ASSUME FilesInit
             PROVE  FilesInv
  OBVIOUS
<1>1. tree = FirstTree /\ step = Idle /\ count = 0 /\ given = {}
  BY DEF FilesInit
<1>2. Shape(tree)
  BY <1>1, FileOpsAssumption DEF Shape
<1>3. Types
  <2>1. FirstTree \in [Path -> Node] /\ Absent \in Node /\ Root \in AnyPath
    BY FileOpsAssumption, NodesMade DEF AnyPath
  <2>2. /\ {} \in SUBSET Path /\ "ok" \in {"running", "ok", "error", "killed"}
        /\ "inspect" \in Acts /\ "end" \in Calls
    BY DEF Acts, Calls
  <2>3. Idle \in StepType /\ Idle.res = "ok" /\ Idle.pc = "end"
    BY <2>1, <2>2 DEF StepType, Idle
  <2> QED
    BY <1>1, <2>3, FileOpsAssumption DEF Types
<1>4. step.pc = "end" /\ step.act = "inspect" /\ step.was = FirstTree
  BY <1>1 DEF Idle
<1>5. StepInv
  BY <1>4 DEF StepInv, WriteInv, MkdirInv, DeleteInv, CopyInv, MoveInv, RenameInv,
              MergeInv, SplitInv, Idles, Running
<1>6. NothingLost
  <2> SUFFICES ASSUME NEW d \in FirstData
               PROVE  \E p \in Path : tree[p] = Whole(d)
    BY DEF NothingLost
  <2>1. PICK p \in Path : FirstTree[p].kind = "file" /\ d = FirstTree[p].data
    BY DEF FirstData
  <2> QED
    BY <1>1, <2>1, FileOpsAssumption, NodeKinds
<1>7. SuccessMeansDone
  BY <1>1, <1>4 DEF SuccessMeansDone, Done
<1> QED
  BY <1>2, <1>3, <1>5, <1>6, <1>7 DEF FilesInv

LEMMA Step ==
    ASSUME FilesInv, FilesNext
    PROVE  FilesInv' /\ Spares
<1>1. CASE Accept
  BY <1>1, InspectKeeps, RunCommandKeeps, WriteKeeps, MkdirKeeps, DeleteKeeps, CopyKeeps,
     MoveKeeps, RenameKeeps, MergePDFKeeps, SplitPDFKeeps DEF Accept
<1>2. CASE SystemCall
  BY <1>2, MkdirCallKeeps, OpenCallKeeps, FillCallKeeps, RenameCallKeeps, ReadCallKeeps,
     RemoveCallKeeps, UnlinkCallKeeps, ConvertCallKeeps, CallFailsKeeps, KilledKeeps
  DEF SystemCall
<1> QED
  BY <1>1, <1>2 DEF FilesNext

LEMMA NoStep ==
    ASSUME FilesInv, UNCHANGED fileVars
    PROVE  FilesInv' /\ Spares
<1>1. tree' = tree /\ step' = step /\ count' = count /\ given' = given
  BY DEF fileVars
<1>2. Types' /\ Shape(tree)'
  BY <1>1 DEF FilesInv, Types, Shape
<1>3. StepInv'
  BY <1>1 DEF FilesInv, StepInv, WriteInv, MkdirInv, DeleteInv, CopyInv, MoveInv, RenameInv,
              MergeInv, SplitInv, Idles, Running, Writes, Goes, MadeFor, SameBut, Given, Kept,
              BelowReadOnly, IsReadOnly, Fits, Exists, IsFile
<1>4. NothingLost' /\ Spares
  BY <1>1, NothingNew DEF FilesInv
<1>5. SuccessMeansDone'
  BY <1>1 DEF FilesInv, SuccessMeansDone, Done, Touched, Contents, Exists, IsDir
<1> QED
  BY <1>2, <1>3, <1>4, <1>5 DEF FilesInv

(* The inductive invariant holds in every reachable state.                 *)
THEOREM FilesSafe == FilesSpec => []FilesInv
<1>1. FilesInit => FilesInv
  BY StartOfFiles
<1>2. FilesInv /\ [FilesNext]_fileVars => FilesInv'
  BY Step, NoStep
<1> QED
  BY <1>1, <1>2, PTL DEF FilesSpec

(* Whatever a step does and wherever it stops, the variables have their    *)
(* types and what exists lies in directories.                              *)
THEOREM FilesAreTyped == FilesSpec => []FilesTypeOK
<1>1. FilesInv => FilesTypeOK
  <2> SUFFICES ASSUME FilesInv
               PROVE  FilesTypeOK
    OBVIOUS
  <2>1. Shape(tree) /\ Types
    BY DEF FilesInv
  <2>2. \A p \in Path : Exists(p) => IsDir(Front(p))
    BY <2>1, ExistsMeans, ParentOf, FrontIsDir
  <2> QED
    BY <2>1, <2>2 DEF FilesTypeOK, Types, StepType, Calls, Shape
<1> QED
  BY <1>1, FilesSafe, PTL

(* No step loses what it was not asked to remove or to replace, whichever  *)
(* of its system calls fails and wherever the program ends (MoveFile,      *)
(* CopyFile, DeletePath).                                                  *)
THEOREM NothingIsLost == FilesSpec => []NothingLost
<1>1. FilesInv => NothingLost
  BY DEF FilesInv
<1> QED
  BY <1>1, FilesSafe, PTL

(* A step that reports success has done all it says and nothing else       *)
(* (Executor.ExecuteStep and the operations of the sandbox).               *)
THEOREM SuccessIsDone == FilesSpec => []SuccessMeansDone
<1>1. FilesInv => SuccessMeansDone
  BY DEF FilesInv
<1> QED
  BY <1>1, FilesSafe, PTL

(* No step changes a protected file, or one below a read-only directory:   *)
(* it only goes with a directory above it (sandbox/protected.go).          *)
THEOREM BarredFilesStay == FilesSpec => BarredStays
<1>1. FilesInv /\ [FilesNext]_fileVars =>
        [\A p \in Path :
            Kept(p) /\ IsFile(p) /\ tree'[p] # tree[p] =>
               /\ tree'[p] = Absent
               /\ step.act \in {"delete", "move", "rename"}
               /\ IsStrictPrefix(step.src, p)]_fileVars
  BY Step, NoStep DEF Spares
<1> QED
  BY <1>1, FilesSafe, PTL DEF FilesSpec, BarredStays

=============================================================================
