--------------------------- MODULE Asking_proofs ---------------------------
(***************************************************************************)
(* What goes with a question to the model, and who answers it: the part of *)
(* the conversation that is sent, the provider that is shown, the skills a *)
(* command is matched with and the tools that are offered, for any history,*)
(* any chain of providers, any files and any servers.                      *)
(*                                                                         *)
(* Loops of the code are recursive functions here.  That there is such a   *)
(* function, and what holds of it, is shown by the least number for which  *)
(* it would fail (Least, Induct, Primitive).                               *)
(***************************************************************************)
EXTENDS AskModel, ToolRegistry, Skills, FiniteSetTheorems, WellFoundedInduction, TLAPS

-----------------------------------------------------------------------------
(* Induction along a loop, and sequences                                   *)

LEMMA Least ==
    ASSUME NEW S \in SUBSET Nat, S # {}
    PROVE  \E n \in S : \A m \in S : n <= m
<1> DEFINE R == OpToRel(<, Nat)
<1>1. IsWellFoundedOn(R, Nat)
  BY NatLessThanWellFounded
<1> HIDE DEF R
<1>2. \E x \in S : \A y \in S : ~(<<y, x>> \in R)
  BY <1>1, WFMin
<1>3. \A x, y \in Nat : y < x => <<y, x>> \in R
  BY DEF R, OpToRel
<1>4. PICK x \in S : \A y \in S : ~(<<y, x>> \in R)
  BY <1>2
<1>5. ASSUME NEW y \in S PROVE x <= y
  <2>1. x \in Nat /\ y \in Nat
    OBVIOUS
  <2>2. ~(y < x)
    BY <1>3, <1>4, <2>1, Zenon
  <2> QED
    BY <2>1, <2>2
<1> QED
  BY <1>5

LEMMA Induct ==
    ASSUME NEW S, NEW N \in Nat, 0 \in S, \A n \in 1 .. N : n - 1 \in S => n \in S
    PROVE  0 .. N \subseteq S
<1> SUFFICES ASSUME (0 .. N) \ S # {} PROVE FALSE
  OBVIOUS
<1> DEFINE T == (0 .. N) \ S
<1>1. T \in SUBSET Nat /\ T # {}
  OBVIOUS
<1> HIDE DEF T
<1>2. PICK n \in T : \A m \in T : n <= m
  BY <1>1, Least
<1> USE DEF T
<1>3. n \in (0 .. N) \ S /\ \A m \in (0 .. N) \ S : n <= m
  BY <1>2
<1>4. n \in 1 .. N /\ n - 1 \in 0 .. N /\ n - 1 \in S
  BY <1>3
<1> QED
  BY <1>3, <1>4

(* f begins with a, and goes on as G says. *)
Follows(f, N, V, a, G) ==
    /\ f \in [0 .. N -> V]
    /\ f[0] = a
    /\ \A n \in 1 .. N : f[n] = G[<<n, f[n - 1]>>]

LEMMA Primitive ==
    ASSUME NEW N \in Nat, NEW V, NEW a \in V, NEW G \in [(1 .. N) \X V -> V]
    PROVE  \E f : Follows(f, N, V, a, G)
<1> DEFINE Upto(n) == {f \in [0 .. n -> V] :
                          f[0] = a /\ \A i \in 1 .. n : f[i] = G[<<i, f[i - 1]>>]}
<1> DEFINE S == {n \in 0 .. N : Upto(n) # {}}
<1>1. 0 \in S
  <2>1. [i \in 0 .. 0 |-> a] \in Upto(0)
    OBVIOUS
  <2> QED
    BY <2>1
<1>2. ASSUME NEW n \in 1 .. N, n - 1 \in S PROVE n \in S
  <2>1. PICK f : f \in Upto(n - 1)
    BY <1>2
  <2> DEFINE g == [i \in 0 .. n |-> IF i = n THEN G[<<n, f[n - 1]>>] ELSE f[i]]
  <2>2. f[n - 1] \in V /\ \A i \in 0 .. n - 1 : f[i] \in V
    BY <2>1
  <2>3. G[<<n, f[n - 1]>>] \in V
    BY <2>2
  <2>4. g \in [0 .. n -> V]
    BY <2>2, <2>3
  <2>5. g[0] = a /\ g[n] = G[<<n, f[n - 1]>>] /\ g[n - 1] = f[n - 1]
    BY <2>1
  <2>6. ASSUME NEW i \in 1 .. n PROVE g[i] = G[<<i, g[i - 1]>>]
    <3>1. CASE i = n
      BY <2>5, <3>1
    <3>2. CASE i # n
      <4>1. i \in 1 .. n - 1 /\ i - 1 \in 0 .. n /\ i - 1 # n /\ i \in 0 .. n
        BY <3>2
      <4>2. g[i] = f[i] /\ g[i - 1] = f[i - 1]
        BY <3>2, <4>1
      <4> QED
        BY <2>1, <4>1, <4>2
    <3> QED
      BY <3>1, <3>2
  <2> HIDE DEF g
  <2>7. g \in Upto(n)
    BY <2>4, <2>5, <2>6
  <2> QED
    BY <2>7
<1> HIDE DEF S
<1>3. N \in S
  BY <1>1, <1>2, Induct
<1> QED
  BY <1>3 DEF S, Follows

LEMMA EndOf ==
    ASSUME NEW T, NEW s \in Seq(T), NEW m \in 0 .. Len(s)
    PROVE  /\ SubSeq(s, m + 1, Len(s)) \in Seq(T)
           /\ Len(SubSeq(s, m + 1, Len(s))) = Len(s) - m
           /\ \A i \in 1 .. Len(s) - m : SubSeq(s, m + 1, Len(s))[i] = s[m + i]
OBVIOUS

LEMMA JoinedElements ==
    ASSUME NEW T, NEW s \in Seq(T), NEW t \in Seq(T)
    PROVE  /\ s \o t \in Seq(T) /\ Len(s \o t) = Len(s) + Len(t)
           /\ \A i \in 1 .. Len(s) : (s \o t)[i] = s[i]
           /\ \A i \in 1 .. Len(t) : (s \o t)[Len(s) + i] = t[i]
OBVIOUS

LEMMA ElementIsTyped ==
    ASSUME NEW T, NEW s \in Seq(T), NEW i \in 1 .. Len(s)
    PROVE  s[i] \in T
OBVIOUS

-----------------------------------------------------------------------------
(* The history that is sent                                                *)

(* What the loop adds up. *)
LEMMA LenUpToLoop ==
    ASSUME NEW msgs \in Seq(Message)
    PROVE  /\ LenUpTo(msgs) \in [0 .. Len(msgs) -> Nat]
           /\ LenUpTo(msgs)[0] = 0
           /\ \A n \in 1 .. Len(msgs) : LenUpTo(msgs)[n] = LenUpTo(msgs)[n - 1] + msgs[n].len
<1> DEFINE N == Len(msgs)
           G == [p \in (1 .. N) \X Nat |-> p[2] + msgs[p[1]].len]
           Sums(f) == f = [n \in 0 .. N |-> IF n = 0 THEN 0 ELSE f[n - 1] + msgs[n].len]
<1>1. \A m \in Message : m.len \in Nat
  BY AskAssumption DEF Message
<1>2. N \in Nat /\ \A n \in 1 .. N : msgs[n].len \in Nat
  BY <1>1
<1>3. G \in [(1 .. N) \X Nat -> Nat]
  BY <1>2
<1>4. \A n \in 1 .. N, k \in Nat : G[<<n, k>>] = k + msgs[n].len
  OBVIOUS
<1> HIDE DEF G, N
<1>5. PICK f : Follows(f, N, Nat, 0, G)
  <2>1. 0 \in Nat
    OBVIOUS
  <2> QED
    BY <1>2, <1>3, <2>1, Primitive
<1>6. f \in [0 .. N -> Nat] /\ f[0] = 0 /\ \A n \in 1 .. N : f[n] = G[<<n, f[n - 1]>>]
  BY <1>5 DEF Follows
<1>7. \A n \in 1 .. N : f[n] = f[n - 1] + msgs[n].len
  <2> TAKE n \in 1 .. N
  <2>1. n - 1 \in 0 .. N
    BY <1>2
  <2> QED
    BY <1>4, <1>6, <2>1
<1>8. f = [n \in 0 .. N |-> IF n = 0 THEN 0 ELSE f[n - 1] + msgs[n].len]
  <2>1. \A n \in 0 .. N : n = 0 \/ n \in 1 .. N
    BY <1>2
  <2> QED
    BY <1>6, <1>7, <2>1
<1>9. Sums(f)
  BY <1>8
<1>10. LenUpTo(msgs) = CHOOSE g : Sums(g)
  BY DEF LenUpTo, N
<1> HIDE DEF Sums
<1>11. Sums(LenUpTo(msgs))
  BY <1>9, <1>10
<1> DEFINE L == LenUpTo(msgs)
<1>12. L = [n \in 0 .. N |-> IF n = 0 THEN 0 ELSE L[n - 1] + msgs[n].len]
  BY <1>11 DEF Sums
<1> HIDE DEF L
<1>13. L[0] = 0 /\ DOMAIN L = 0 .. N /\ \A n \in 1 .. N : L[n] = L[n - 1] + msgs[n].len
  BY <1>2, <1>12
<1> DEFINE S == {n \in 0 .. N : L[n] \in Nat}
<1>14. 0 .. N \subseteq S
  <2>1. 0 \in S
    BY <1>2, <1>13
  <2>2. ASSUME NEW n \in 1 .. N, n - 1 \in S PROVE n \in S
    <3>1. L[n] = L[n - 1] + msgs[n].len /\ L[n - 1] \in Nat /\ msgs[n].len \in Nat
      BY <1>2, <1>13, <2>2
    <3>2. n \in 0 .. N /\ L[n] \in Nat
      BY <1>2, <3>1
    <3> QED
      BY <3>2
  <2> HIDE DEF S
  <2> QED
    BY <1>2, <2>1, <2>2, Induct
<1>15. \A n \in 0 .. N : L[n] \in Nat
  BY <1>14
<1>16. L \in [0 .. N -> Nat]
  BY <1>12, <1>15
<1> QED
  BY <1>13, <1>16 DEF L, N

LEMMA LenUpToGrows ==
    ASSUME NEW msgs \in Seq(Message), NEW j \in 0 .. Len(msgs), NEW i \in 0 .. j
    PROVE  LenUpTo(msgs)[i] <= LenUpTo(msgs)[j]
<1> DEFINE N == Len(msgs)
           L == LenUpTo(msgs)
           S == {k \in 0 .. N : \A h \in 0 .. k : L[h] <= L[k]}
<1>1. N \in Nat
  OBVIOUS
<1>2. \A n \in 1 .. N : msgs[n].len \in Nat
  <2>1. \A m \in Message : m.len \in Nat
    BY AskAssumption DEF Message
  <2> QED
    BY <2>1
<1>3. /\ L \in [0 .. N -> Nat] /\ L[0] = 0
      /\ \A n \in 1 .. N : L[n] = L[n - 1] + msgs[n].len
  BY LenUpToLoop
<1> HIDE DEF N, L
<1>4. 0 \in S
  BY <1>1, <1>3
<1>5. ASSUME NEW n \in 1 .. N, n - 1 \in S PROVE n \in S
  <2>1. /\ n \in 0 .. N /\ n - 1 \in 0 .. N /\ L[n] \in Nat /\ L[n - 1] \in Nat
        /\ L[n - 1] <= L[n]
    <3>1. n \in 0 .. N /\ n - 1 \in 0 .. N
      BY <1>1
    <3>2. L[n] \in Nat /\ L[n - 1] \in Nat /\ L[n] = L[n - 1] + msgs[n].len
      BY <1>3, <3>1
    <3> QED
      BY <1>2, <3>1, <3>2
  <2>2. ASSUME NEW h \in 0 .. n PROVE L[h] <= L[n]
    <3>1. h = n \/ h \in 0 .. n - 1
      BY <1>1
    <3>2. L[h] \in Nat
      BY <1>1, <1>3
    <3>3. h \in 0 .. n - 1 => L[h] <= L[n - 1]
      BY <1>5
    <3> QED
      BY <2>1, <3>1, <3>2, <3>3
  <2> QED
    BY <2>1, <2>2
<1> HIDE DEF S
<1>6. 0 .. N \subseteq S
  BY <1>1, <1>4, <1>5, Induct
<1>7. j \in S
  BY <1>6 DEF N
<1> QED
  BY <1>7 DEF S, L

(* What the end of a conversation adds to the messages before it. *)
LEMMA LenOfEnd ==
    ASSUME NEW msgs \in Seq(Message), NEW sys \in Seq(Message), NEW n \in 0 .. Len(msgs)
    PROVE  TotalLen(sys \o LastOf(msgs, n)) =
              TotalLen(sys) + (LenUpTo(msgs)[Len(msgs)] - LenUpTo(msgs)[Len(msgs) - n])
<1> DEFINE u == sys \o LastOf(msgs, n)
           N == Len(msgs)
           K == Len(sys)
           L == LenUpTo(msgs)
           Y == LenUpTo(sys)
           U == LenUpTo(u)
<1>1. LastOf(msgs, n) \in Seq(Message) /\ Len(LastOf(msgs, n)) = n
      /\ \A k \in 1 .. n : LastOf(msgs, n)[k] = msgs[(N - n) + k]
  BY DEF LastOf
<1>2. N \in Nat /\ K \in Nat /\ n \in Nat /\ N - n \in Nat
  OBVIOUS
<1>3. u \in Seq(Message) /\ Len(u) = K + n
  BY <1>1, JoinedElements
<1>4. /\ \A i \in 1 .. K : u[i] = sys[i]
      /\ \A k \in 1 .. n : u[K + k] = msgs[(N - n) + k]
  BY <1>1
<1>5. /\ L \in [0 .. N -> Nat] /\ L[0] = 0
      /\ \A i \in 1 .. N : L[i] = L[i - 1] + msgs[i].len
  BY LenUpToLoop
<1>6. /\ Y \in [0 .. K -> Nat] /\ Y[0] = 0
      /\ \A i \in 1 .. K : Y[i] = Y[i - 1] + sys[i].len
  BY LenUpToLoop
<1> HIDE DEF u
<1>7. /\ U \in [0 .. K + n -> Nat] /\ U[0] = 0
      /\ \A i \in 1 .. K + n : U[i] = U[i - 1] + u[i].len
  BY <1>3, LenUpToLoop
<1>8. \A i \in 1 .. N : msgs[i].len \in Nat
  <2>1. \A m \in Message : m.len \in Nat
    BY AskAssumption DEF Message
  <2> QED
    BY <2>1
<1> HIDE DEF N, K, L, Y, U
<1>9. U[K] = Y[K]
  <2> DEFINE S == {i \in 0 .. K : U[i] = Y[i]}
  <2>1. 0 \in S
    BY <1>2, <1>6, <1>7
  <2>2. ASSUME NEW i \in 1 .. K, i - 1 \in S PROVE i \in S
    <3>1. i \in 0 .. K /\ i \in 1 .. K + n /\ U[i - 1] = Y[i - 1]
      BY <1>2, <2>2
    <3>2. U[i] = U[i - 1] + u[i].len /\ Y[i] = Y[i - 1] + sys[i].len
      BY <1>6, <1>7, <3>1
    <3> QED
      BY <1>4, <3>1, <3>2
  <2> HIDE DEF S
  <2>3. 0 .. K \subseteq S
    BY <1>2, <2>1, <2>2, Induct
  <2>4. K \in S
    BY <1>2, <2>3
  <2> QED
    BY <2>4 DEF S
<1>10. U[K + n] = Y[K] + (L[N] - L[N - n])
  <2> DEFINE S == {k \in 0 .. n : U[K + k] = Y[K] + (L[(N - n) + k] - L[N - n])}
  <2>1. L[N - n] \in Nat /\ Y[K] \in Nat
    BY <1>2, <1>5, <1>6
  <2>2. 0 \in S
    <3>1. K + 0 = K /\ (N - n) + 0 = N - n /\ 0 \in 0 .. n
      BY <1>2
    <3> QED
      BY <1>9, <2>1, <3>1
  <2>3. ASSUME NEW k \in 1 .. n, k - 1 \in S PROVE k \in S
    <3> DEFINE a == K + k
               b == (N - n) + k
    <3>1. /\ a \in 1 .. K + n /\ b \in 1 .. N /\ k \in 0 .. n
          /\ a - 1 = K + (k - 1) /\ b - 1 = (N - n) + (k - 1)
          /\ b - 1 \in 0 .. N
      BY <1>2
    <3>2. U[a - 1] = Y[K] + (L[b - 1] - L[N - n])
      BY <2>3, <3>1
    <3>3. U[a] = U[a - 1] + u[a].len /\ L[b] = L[b - 1] + msgs[b].len
      BY <1>5, <1>7, <3>1
    <3>4. u[a] = msgs[b] /\ msgs[b].len \in Nat /\ L[b - 1] \in Nat
      BY <1>4, <1>5, <1>8, <3>1
    <3> HIDE DEF a, b
    <3>5. U[a] = Y[K] + (L[b] - L[N - n])
      BY <2>1, <3>2, <3>3, <3>4
    <3> QED
      BY <3>1, <3>5 DEF a, b
  <2> HIDE DEF S
  <2>4. 0 .. n \subseteq S
    BY <1>2, <2>2, <2>3, Induct
  <2>5. n \in S
    BY <1>2, <2>4
  <2>6. (N - n) + n = N
    BY <1>2
  <2> QED
    BY <2>5, <2>6 DEF S
<1>11. TotalLen(u) = U[K + n] /\ TotalLen(sys) = Y[K]
  BY <1>3 DEF TotalLen, U, Y, K
<1> QED
  BY <1>10, <1>11 DEF u, L, N

(* A longer end is never shorter in characters. *)
LEMMA LongerEnd ==
    ASSUME NEW msgs \in Seq(Message), NEW sys \in Seq(Message),
           NEW n \in 0 .. Len(msgs), NEW m \in 0 .. n
    PROVE  /\ TotalLen(sys \o LastOf(msgs, n)) \in Nat
           /\ TotalLen(sys \o LastOf(msgs, m)) <= TotalLen(sys \o LastOf(msgs, n))
<1> DEFINE N == Len(msgs)
           L == LenUpTo(msgs)
<1>1. N \in Nat /\ n \in Nat /\ m \in Nat /\ N - n \in Nat /\ N - m \in Nat
  OBVIOUS
<1>2. m \in 0 .. N /\ N - n \in 0 .. N /\ N - m \in 0 .. N /\ N \in 0 .. N
      /\ N - n \in 0 .. N - m
  BY <1>1
<1>3. TotalLen(sys \o LastOf(msgs, n)) = TotalLen(sys) + (L[N] - L[N - n])
  BY LenOfEnd
<1>4. TotalLen(sys \o LastOf(msgs, m)) = TotalLen(sys) + (L[N] - L[N - m])
  BY <1>2, LenOfEnd
<1>5. TotalLen(sys) \in Nat
  <2>1. Len(sys) \in 0 .. Len(sys)
    OBVIOUS
  <2> QED
    BY <2>1, LenUpToLoop DEF TotalLen
<1>6. L \in [0 .. N -> Nat]
  BY LenUpToLoop
<1>7. L[N - n] <= L[N - m] /\ L[N - n] <= L[N]
  BY <1>2, LenUpToGrows
<1> HIDE DEF L, N
<1>8. L[N] \in Nat /\ L[N - n] \in Nat /\ L[N - m] \in Nat
  BY <1>2, <1>6
<1> DEFINE T(k) == TotalLen(sys \o LastOf(msgs, k))
           s == TotalLen(sys)
<1>9. T(n) = s + (L[N] - L[N - n]) /\ T(m) = s + (L[N] - L[N - m]) /\ s \in Nat
  BY <1>3, <1>4, <1>5
<1> HIDE DEF T, s
<1>10. T(n) \in Nat /\ T(m) <= T(n)
  BY <1>7, <1>8, <1>9
<1> QED
  BY <1>10 DEF T

(* The end of n messages fits the limit of characters. *)
CharsFit(msgs, n) == TotalLen(System(msgs) \o LastOf(msgs, n)) <= MaxContextChars

LEMMA SystemIsTyped ==
    ASSUME NEW msgs \in Seq(Message)
    PROVE  /\ System(msgs) \in Seq(Message) /\ Len(System(msgs)) \in {0, 1}
           /\ Rest(msgs) \in Seq(Message)
           /\ Len(msgs) = Len(System(msgs)) + Len(Rest(msgs))
<1>1. CASE HasSystem(msgs)
  <2>1. msgs # <<>> /\ msgs[1] \in Message
    BY <1>1 DEF HasSystem
  <2>2. System(msgs) = <<msgs[1]>> /\ Rest(msgs) = Tail(msgs)
    BY <1>1 DEF System, Rest
  <2> QED
    BY <2>1, <2>2
<1>2. CASE ~HasSystem(msgs)
  BY <1>2 DEF System, Rest
<1> QED
  BY <1>1, <1>2

LEMMA FitCharsLoop ==
    ASSUME NEW msgs \in Seq(Message)
    PROVE  /\ FitChars(msgs)[0] = 0
           /\ \A n \in 1 .. Len(msgs) :
                 FitChars(msgs)[n] = IF CharsFit(msgs, n) THEN n ELSE FitChars(msgs)[n - 1]
<1> DEFINE N == Len(msgs)
           G == [p \in (1 .. N) \X Nat |-> IF CharsFit(msgs, p[1]) THEN p[1] ELSE p[2]]
           Fits(f) == f = [n \in 0 .. N |->
                              IF n = 0 \/ CharsFit(msgs, n) THEN n ELSE f[n - 1]]
<1>1. N \in Nat
  OBVIOUS
<1>2. G \in [(1 .. N) \X Nat -> Nat]
  OBVIOUS
<1>3. \A n \in 1 .. N, k \in Nat : G[<<n, k>>] = IF CharsFit(msgs, n) THEN n ELSE k
  OBVIOUS
<1> HIDE DEF G, N
<1>4. PICK f : Follows(f, N, Nat, 0, G)
  <2>1. 0 \in Nat
    OBVIOUS
  <2> QED
    BY <1>1, <1>2, <2>1, Primitive
<1>5. f \in [0 .. N -> Nat] /\ f[0] = 0 /\ \A n \in 1 .. N : f[n] = G[<<n, f[n - 1]>>]
  BY <1>4 DEF Follows
<1>6. \A n \in 1 .. N : f[n] = IF CharsFit(msgs, n) THEN n ELSE f[n - 1]
  <2> TAKE n \in 1 .. N
  <2>1. n - 1 \in 0 .. N
    BY <1>1
  <2> QED
    BY <1>3, <1>5, <2>1
<1>7. f = [n \in 0 .. N |-> IF n = 0 \/ CharsFit(msgs, n) THEN n ELSE f[n - 1]]
  <2>1. \A n \in 0 .. N : n = 0 \/ n \in 1 .. N
    BY <1>1
  <2> QED
    BY <1>5, <1>6, <2>1
<1>8. Fits(f)
  BY <1>7
<1>9. FitChars(msgs) = CHOOSE g : Fits(g)
  BY DEF FitChars, CharsFit, N
<1> HIDE DEF Fits
<1>10. Fits(FitChars(msgs))
  BY <1>8, <1>9
<1> DEFINE F == FitChars(msgs)
<1>11. F = [n \in 0 .. N |-> IF n = 0 \/ CharsFit(msgs, n) THEN n ELSE F[n - 1]]
  BY <1>10 DEF Fits
<1> HIDE DEF F
<1>12. F[0] = 0 /\ \A n \in 1 .. N : F[n] = IF CharsFit(msgs, n) THEN n ELSE F[n - 1]
  BY <1>1, <1>11
<1> QED
  BY <1>12 DEF F, N

(* The cut by length keeps the longest end that fits. *)
LEMMA FitIsLongest ==
    ASSUME NEW msgs \in Seq(Message), NEW c \in 0 .. Len(msgs)
    PROVE  /\ FitChars(msgs)[c] \in 0 .. c
           /\ FitChars(msgs)[c] = 0 \/ CharsFit(msgs, FitChars(msgs)[c])
           /\ \A n \in 1 .. c : CharsFit(msgs, n) => n <= FitChars(msgs)[c]
<1> DEFINE N == Len(msgs)
           F == FitChars(msgs)
           S == {k \in 0 .. N : /\ F[k] \in 0 .. k
                                /\ F[k] = 0 \/ CharsFit(msgs, F[k])
                                /\ \A n \in 1 .. k : CharsFit(msgs, n) => n <= F[k]}
<1>1. N \in Nat
  OBVIOUS
<1>2. /\ F[0] = 0
      /\ \A n \in 1 .. N : F[n] = IF CharsFit(msgs, n) THEN n ELSE F[n - 1]
  BY FitCharsLoop
<1> HIDE DEF N, F
<1>3. 0 \in S
  BY <1>1, <1>2
<1>4. ASSUME NEW k \in 1 .. N, k - 1 \in S PROVE k \in S
  <2>1. k \in 0 .. N /\ k - 1 \in Nat /\ F[k] = IF CharsFit(msgs, k) THEN k ELSE F[k - 1]
    BY <1>1, <1>2
  <2>2. /\ F[k - 1] \in 0 .. k - 1
        /\ F[k - 1] = 0 \/ CharsFit(msgs, F[k - 1])
        /\ \A n \in 1 .. k - 1 : CharsFit(msgs, n) => n <= F[k - 1]
    BY <1>4
  <2>3. F[k] \in 0 .. k /\ (F[k] = 0 \/ CharsFit(msgs, F[k]))
    BY <2>1, <2>2
  <2>4. ASSUME NEW n \in 1 .. k, CharsFit(msgs, n) PROVE n <= F[k]
    <3>1. n = k \/ n \in 1 .. k - 1
      BY <2>1
    <3> QED
      BY <2>1, <2>2, <2>4, <3>1
  <2> QED
    BY <2>1, <2>3, <2>4
<1> HIDE DEF S
<1>5. 0 .. N \subseteq S
  BY <1>1, <1>3, <1>4, Induct
<1>6. c \in S
  BY <1>5 DEF N
<1> QED
  BY <1>6 DEF S, F

LEMMA MinOfTwo ==
    ASSUME NEW a \in Nat, NEW b \in Nat
    PROVE  Min({a, b}) = IF a <= b THEN a ELSE b
<1> DEFINE Lowest(x) == x \in {a, b} /\ \A y \in {a, b} : x <= y
<1>1. Min({a, b}) = CHOOSE x : Lowest(x)
  BY DEF Min
<1>2. Lowest(IF a <= b THEN a ELSE b)
  OBVIOUS
<1>3. Lowest(Min({a, b}))
  <2> HIDE DEF Lowest
  <2> QED
    BY <1>1, <1>2
<1> QED
  BY <1>3

LEMMA MaxIs ==
    ASSUME NEW S \in SUBSET Nat, NEW k \in S, \A n \in S : n <= k
    PROVE  Max(S) = k
<1>1. \A y \in S : k >= y
  OBVIOUS
<1>2. Max(S) \in S /\ \A y \in S : Max(S) >= y
  BY <1>1 DEF Max
<1>3. Max(S) \in Nat /\ k \in Nat /\ Max(S) <= k /\ Max(S) >= k
  BY <1>2
<1> QED
  BY <1>3

LEMMA KeptIsLongest ==
    ASSUME NEW msgs \in Seq(Message)
    PROVE  /\ KeptMessages(msgs) \in 0 .. Len(Rest(msgs))
           /\ KeptMessages(msgs) =
                 Max({0} \cup {n \in 0 .. Len(Rest(msgs)) : FitsContext(msgs, n)})
<1> DEFINE R == Len(Rest(msgs))
           s == Len(System(msgs))
           c == Min({R, MaxContextMessages})
           b == FitChars(msgs)[c]
           room == IF MaxContextMessages > 1 + s THEN MaxContextMessages - (1 + s) ELSE 0
           k == KeptMessages(msgs)
           S == {0} \cup {n \in 0 .. R : FitsContext(msgs, n)}
<1>1. k = IF b < R THEN Min({b, room}) ELSE b
  BY DEF KeptMessages
<1>2. R \in Nat /\ s \in {0, 1} /\ R \in 0 .. Len(msgs)
  BY SystemIsTyped
<1>3. MaxContextMessages \in Nat
  BY AskAssumption
<1>4. c = IF R <= MaxContextMessages THEN R ELSE MaxContextMessages
  BY <1>2, <1>3, MinOfTwo
<1> HIDE DEF c
<1>5. c \in 0 .. Len(msgs) /\ c \in 0 .. R /\ c \in Nat
  BY <1>2, <1>3, <1>4
<1>6. /\ b \in 0 .. c
      /\ b = 0 \/ CharsFit(msgs, b)
      /\ \A n \in 1 .. c : CharsFit(msgs, n) => n <= b
  BY <1>5, FitIsLongest
<1> HIDE DEF b
<1>7. room \in Nat
  BY <1>2, <1>3
<1>8. k = IF b < R /\ room < b THEN room ELSE b
  BY <1>1, <1>2, <1>5, <1>6, <1>7, MinOfTwo
<1> DEFINE Fits(n) == /\ CharsFit(msgs, n)
                      /\ IF n = R THEN n <= MaxContextMessages
                                  ELSE s + 1 + n <= MaxContextMessages
<1>9. \A n : FitsContext(msgs, n) <=> Fits(n)
  BY DEF FitsContext, CharsFit
<1> HIDE DEF k, R, s
<1>10. k \in 0 .. R /\ k \in 0 .. b
  BY <1>2, <1>5, <1>6, <1>7, <1>8
<1>11. k = 0 \/ CharsFit(msgs, k)
  <2> SUFFICES ASSUME k # 0 PROVE CharsFit(msgs, k)
    OBVIOUS
  <2>1. b # 0 /\ CharsFit(msgs, b)
    BY <1>6, <1>10
  <2>2. b \in 0 .. Len(msgs)
    BY <1>2, <1>5, <1>6
  <2>3. /\ TotalLen(System(msgs) \o LastOf(msgs, b)) \in Nat
        /\ TotalLen(System(msgs) \o LastOf(msgs, k)) \in Nat
        /\ TotalLen(System(msgs) \o LastOf(msgs, k)) <= TotalLen(System(msgs) \o LastOf(msgs, b))
    <3>1. k \in 0 .. Len(msgs) /\ k \in 0 .. k
      BY <1>2, <1>10
    <3> QED
      BY <1>10, <2>2, <3>1, SystemIsTyped, LongerEnd
  <2> QED
    BY <2>1, <2>3, AskAssumption DEF CharsFit
<1>12. k # 0 => Fits(k)
  BY <1>2, <1>3, <1>4, <1>5, <1>6, <1>8, <1>10, <1>11
<1>13. ASSUME NEW n \in 0 .. R, Fits(n) PROVE n <= k
  <2>1. n \in 0 .. c
    BY <1>2, <1>3, <1>4, <1>13
  <2>2. n <= b
    BY <1>5, <1>6, <1>13, <2>1
  <2>3. b < R => n <= room
    <3>1. b < R => n # R
      BY <1>2, <1>5, <1>6, <2>2
    <3> QED
      BY <1>2, <1>3, <1>13, <3>1
  <2> QED
    BY <1>2, <1>5, <1>6, <1>7, <1>8, <2>2, <2>3
<1> HIDE DEF Fits
<1>14. k \in S /\ \A n \in S : n <= k
  BY <1>2, <1>9, <1>10, <1>12, <1>13
<1>15. S \in SUBSET Nat
  BY <1>2
<1> HIDE DEF S
<1>16. k = Max(S)
  BY <1>14, <1>15, MaxIs
<1> QED
  BY <1>10, <1>16 DEF k, R, S

(* Whatever the conversation, what is sent of it is the most that fits. *)
LEMMA TrimmedIsLongest ==
    ASSUME messages \in Seq(Message)
    PROVE  TrimIsLongest
<1> DEFINE R == Len(Rest(messages))
           k == KeptMessages(messages)
           t == Trim(messages)
<1>1. /\ Len(messages) = Len(System(messages)) + Len(Rest(messages))
      /\ Len(System(messages)) \in {0, 1} /\ Rest(messages) \in Seq(Message)
  BY SystemIsTyped
<1>2. k \in 0 .. R /\ R \in Nat /\ R <= Len(messages)
  <2>1. k \in 0 .. R
    BY KeptIsLongest
  <2>2. R \in Nat
    BY <1>1
  <2> QED
    BY <1>1, <2>1, <2>2
<1>3. t.rest = LastOf(messages, k) /\ t.omitted = R - k /\ t.system = System(messages)
  BY DEF Trim
<1>4. Len(LastOf(messages, k)) = k
  <2> HIDE DEF k, R
  <2> QED
    BY <1>2 DEF LastOf
<1>5. k = Max({0} \cup {n \in 0 .. R : FitsContext(messages, n)})
  BY KeptIsLongest
<1> HIDE DEF k, R
<1>6. t.omitted + Len(t.rest) = R
  BY <1>2, <1>3, <1>4
<1> QED
  BY <1>3, <1>4, <1>5, <1>6 DEF R, TrimIsLongest

-----------------------------------------------------------------------------
(* The providers                                                           *)

Switch == Nat \X Nat

Stage == {"idle", "plan", "ask", "reply", "no plan"}

Ends == {"none", "ok", "no answer", "failed"}

Question == [pc : Stage, at : Nat, told : Seq(Switch), end : Ends]

AskType ==
    /\ ask \in Question
    /\ ask.end # "none" => ask.pc = "idle"

(* The user was told of one switch for each provider that was passed over, *)
(* and the one that answered is where the switches lead.                   *)
PlaceInv ==
    /\ ask.pc = "ask" => ask.at = Len(ask.told) + 1
    /\ ask.pc \in {"reply", "no plan"} => active = chain[Len(ask.told) + 1]
    /\ ask.end = "ok" => shown = chain[Len(ask.told) + 1]

AskInv == AskType /\ PlaceInv

-----------------------------------------------------------------------------
LEMMA QuietIsTyped ==
    /\ Quiet \in Question
    /\ Quiet.pc = "idle" /\ Quiet.end = "none" /\ Quiet.at = 0
    /\ Quiet.told \in Seq(Switch) /\ Len(Quiet.told) = 0
<1>1. <<>> \in Seq(Switch) /\ Len(<<>>) = 0
  OBVIOUS
<1> QED
  BY <1>1 DEF Quiet, Question, Stage, Ends

LEMMA InitAskInv == AskInit => AskInv
BY QuietIsTyped DEF AskInit, AskInv, AskType, PlaceInv

LEMMA OneMoreSwitch ==
    ASSUME NEW s \in Seq(Switch), NEW n \in Nat
    PROVE  /\ Append(s, <<n, n + 1>>) \in Seq(Switch)
           /\ Len(Append(s, <<n, n + 1>>)) = Len(s) + 1
           /\ Len(s) \in Nat
<1>1. <<n, n + 1>> \in Switch
  BY DEF Switch
<1> QED
  BY <1>1

(* On to the next provider, or the question is given up. *)
LEMMA NextProviderStep ==
    ASSUME AskInv, ask.pc = "ask", NextProvider(ask.at), UNCHANGED <<chain, active, shown>>
    PROVE  AskInv'
<1> USE DEF AskInv, AskType, PlaceInv, Question, Stage, Ends
<1>1. CASE ask.at < Len(chain)
  <2>1. ask' = [ask EXCEPT !.at = ask.at + 1, !.told = Append(@, <<ask.at, ask.at + 1>>)]
    BY <1>1 DEF NextProvider
  <2>2. ask.at \in Nat /\ ask.told \in Seq(Switch)
    BY DEF Question
  <2> DEFINE told == Append(ask.told, <<ask.at, ask.at + 1>>)
  <2>3. told \in Seq(Switch) /\ Len(told) = Len(ask.told) + 1
    BY <2>2, OneMoreSwitch
  <2> HIDE DEF told
  <2>4. ask' = [ask EXCEPT !.at = ask.at + 1, !.told = told]
    BY <2>1 DEF told
  <2>5. /\ ask' \in Question /\ ask'.pc = "ask" /\ ask'.end = ask.end
        /\ ask'.at = ask.at + 1 /\ ask'.told = told
    <3> HIDE DEF AskInv, AskType, PlaceInv, Question
    <3>1. ask \in Question /\ ask.at + 1 \in Nat
      BY <2>2 DEF AskInv, AskType
    <3> DEFINE at == ask.at + 1
    <3> DEFINE next == [ask EXCEPT !.at = at, !.told = told]
    <3>2. ask' = next /\ at \in Nat
      BY <2>4, <3>1
    <3> HIDE DEF at
    <3>3. /\ next \in Question /\ next.pc = ask.pc /\ next.end = ask.end
          /\ next.at = at /\ next.told = told
      BY <2>3, <3>1, <3>2 DEF Question
    <3> HIDE DEF next
    <3> QED
      BY <3>2, <3>3 DEF at
  <2>6. ask'.at = Len(ask'.told) + 1
    BY <2>2, <2>3, <2>5
  <2> QED
    BY <2>5, <2>6
<1>2. CASE ~(ask.at < Len(chain))
  BY <1>2 DEF NextProvider, Fail
<1> QED
  BY <1>1, <1>2

LEMMA StepAskInv == AskInv /\ [AskNext]_askVars => AskInv'
<1> SUFFICES ASSUME AskInv, [AskNext]_askVars PROVE AskInv'
  OBVIOUS
<1> USE DEF AskInv, AskType, PlaceInv, Question, Stage, Ends
<1>1. CASE \E n \in Lengths : Enter(n)
  BY <1>1, QuietIsTyped DEF Enter
<1>2. CASE CreatePlan
  <2>1. ask' = [Quiet EXCEPT !.pc = "ask", !.at = 1]
    BY <1>2 DEF CreatePlan
  <2>2. /\ ask'.pc = "ask" /\ ask'.at = 1 /\ ask'.end = "none"
        /\ ask'.told = Quiet.told /\ ask' \in Question
    BY <2>1, QuietIsTyped DEF Question
  <2>3. Len(ask'.told) = 0
    BY <2>2, QuietIsTyped
  <2>4. ask'.at = Len(ask'.told) + 1
    <3> HIDE DEF AskInv, AskType, PlaceInv, Question
    <3> QED
      BY <2>2, <2>3
  <2> QED
    BY <2>2, <2>4
<1>3. CASE Skip
  BY <1>3, NextProviderStep DEF Skip
<1>4. CASE \E reply \in Replies : Chat(reply)
  <2>1. PICK reply \in Replies : Chat(reply)
    BY <1>4
  <2> DEFINE outcome == Outcome(chain[ask.at], reply)
  <2>2. outcome \in {"ok", "empty", "not available", "error"}
    BY DEF Outcome, AnthropicChat, OpenAIChat, GeminiChat, CustomChat, CheckResponse
  <2> HIDE DEF outcome
  <2>3. CASE outcome \in {"ok", "empty"}
    BY <2>1, <2>3 DEF Chat, outcome
  <2>4. CASE outcome = "not available"
    BY <2>1, <2>4, NextProviderStep DEF Chat, outcome
  <2>5. CASE outcome = "error"
    BY <2>1, <2>5 DEF Chat, outcome, Fail
  <2> QED
    BY <2>2, <2>3, <2>4, <2>5
<1>5. CASE AskAgain
  BY <1>5 DEF AskAgain
<1>6. CASE RunFails
  BY <1>6 DEF RunFails, Fail
<1>7. CASE \E n \in Lengths : RunEnds(n)
  BY <1>7 DEF RunEnds
<1>8. CASE \E p \in 0 .. Entries, key \in {"ready", "no key"} : KeyChanges(p, key)
  BY <1>8 DEF KeyChanges
<1>9. CASE UNCHANGED askVars
  BY <1>9 DEF askVars
<1> QED
  BY <1>1, <1>2, <1>3, <1>4, <1>5, <1>6, <1>7, <1>8, <1>9 DEF AskNext

(* The provider the panel shows is the one that the switches the user was  *)
(* told of lead to, whatever the providers answered before                 *)
(* (FallbackChain.Chat, LastActive).                                       *)
THEOREM ActiveIsShown == AskSpec => []ShownIsWhoAnswered
<1>1. AskInv => ShownIsWhoAnswered
  BY DEF AskInv, PlaceInv, ShownIsWhoAnswered
<1> QED
  BY <1>1, InitAskInv, StepAskInv, PTL DEF AskSpec

(* The loop over the configured chain. *)
LEMMA KnownIsTyped == KnownUpTo[Entries] \in Seq(0 .. Entries)
<1> DEFINE V == Seq(0 .. Entries)
           G == [p \in (1 .. Entries) \X V |->
                    IF keyed[p[1]] = "unknown" THEN p[2] ELSE Append(p[2], p[1])]
           Known(f) == f = [n \in 0 .. Entries |->
                               IF n = 0 THEN <<>>
                               ELSE IF keyed[n] = "unknown" THEN f[n - 1] ELSE Append(f[n - 1], n)]
<1>1. Entries \in Nat /\ <<>> \in V
  BY AskAssumption
<1>2. G \in [(1 .. Entries) \X V -> V]
  <2>1. ASSUME NEW n \in 1 .. Entries, NEW s \in V PROVE Append(s, n) \in V
    OBVIOUS
  <2> HIDE DEF V
  <2> QED
    BY <2>1
<1>3. \A n \in 1 .. Entries, s \in V :
         G[<<n, s>>] = IF keyed[n] = "unknown" THEN s ELSE Append(s, n)
  OBVIOUS
<1> HIDE DEF G, V
<1>4. PICK f : Follows(f, Entries, V, <<>>, G)
  BY <1>1, <1>2, Primitive
<1>5. f \in [0 .. Entries -> V] /\ f[0] = <<>> /\ \A n \in 1 .. Entries : f[n] = G[<<n, f[n - 1]>>]
  BY <1>4 DEF Follows
<1>6. \A n \in 1 .. Entries : f[n] = IF keyed[n] = "unknown" THEN f[n - 1] ELSE Append(f[n - 1], n)
  <2> TAKE n \in 1 .. Entries
  <2>1. n - 1 \in 0 .. Entries
    BY <1>1
  <2> QED
    BY <1>3, <1>5, <2>1
<1>7. f = [n \in 0 .. Entries |->
              IF n = 0 THEN <<>>
              ELSE IF keyed[n] = "unknown" THEN f[n - 1] ELSE Append(f[n - 1], n)]
  <2>1. \A n \in 0 .. Entries : n = 0 \/ n \in 1 .. Entries
    BY <1>1
  <2> QED
    BY <1>5, <1>6, <2>1
<1>8. Known(f)
  BY <1>7
<1>9. KnownUpTo = CHOOSE g : Known(g)
  BY DEF KnownUpTo
<1> HIDE DEF Known
<1>10. Known(KnownUpTo)
  BY <1>8, <1>9
<1>11. KnownUpTo = [n \in 0 .. Entries |->
                       IF n = 0 THEN <<>>
                       ELSE IF keyed[n] = "unknown" THEN KnownUpTo[n - 1]
                       ELSE Append(KnownUpTo[n - 1], n)]
  BY <1>10 DEF Known
<1>12. KnownUpTo[0] = <<>>
  BY <1>1, <1>11
<1>13. \A n \in 1 .. Entries :
          KnownUpTo[n] = IF keyed[n] = "unknown" THEN KnownUpTo[n - 1]
                         ELSE Append(KnownUpTo[n - 1], n)
  <2> DEFINE K == KnownUpTo
  <2>1. K = [n \in 0 .. Entries |->
                IF n = 0 THEN <<>>
                ELSE IF keyed[n] = "unknown" THEN K[n - 1] ELSE Append(K[n - 1], n)]
    BY <1>11
  <2> HIDE DEF K
  <2>2. \A n \in 1 .. Entries : n \in 0 .. Entries /\ n # 0
    BY <1>1
  <2>3. \A n \in 1 .. Entries :
           K[n] = IF keyed[n] = "unknown" THEN K[n - 1] ELSE Append(K[n - 1], n)
    BY <2>1, <2>2, Zenon
  <2> QED
    BY <2>3 DEF K
<1> DEFINE S == {n \in 0 .. Entries : KnownUpTo[n] \in V}
<1>14. 0 \in S
  BY <1>1, <1>12
<1>15. ASSUME NEW n \in 1 .. Entries, n - 1 \in S PROVE n \in S
  <2>1. n \in 0 .. Entries /\ KnownUpTo[n - 1] \in V
    BY <1>15
  <2> DEFINE k == KnownUpTo[n - 1]
  <2>2. KnownUpTo[n] = k \/ KnownUpTo[n] = Append(k, n)
    BY <1>13
  <2>3. k \in V /\ n \in 0 .. Entries
    BY <2>1
  <2> HIDE DEF k
  <2>4. Append(k, n) \in V
    BY <2>3 DEF V
  <2> QED
    BY <2>1, <2>2, <2>3, <2>4
<1> HIDE DEF S
<1>16. 0 .. Entries \subseteq S
  BY <1>1, <1>14, <1>15, Induct
<1>17. Entries \in S
  BY <1>1, <1>16
<1> QED
  BY <1>17 DEF S, V

LEMMA ProvidersAreTyped == BuildProviders \in Seq(0 .. Entries)
<1> DEFINE known == KnownUpTo[Entries]
<1>1. known \in Seq(0 .. Entries)
  BY KnownIsTyped
<1>2. <<0>> \in Seq(0 .. Entries) /\ <<>> \in Seq(0 .. Entries)
  BY AskAssumption
<1>3. BuildProviders \in {known, <<0>>, <<>>}
  BY DEF BuildProviders
<1> HIDE DEF known
<1> QED
  BY <1>1, <1>2, <1>3

(* A question is put to a provider of the chain, which has one. *)
ChainInv ==
    /\ history \in Seq(Message) /\ messages \in Seq(Message)
    /\ chain \in Seq(0 .. Entries)
    /\ ask.pc # "idle" => chain # <<>>
    /\ ask.pc = "ask" => ask.at \in 1 .. Len(chain)
    /\ ask.pc \in Stage /\ ask.end \in Ends
    /\ asks \in 0 .. MaxAsks
    /\ active \in 0 .. Entries /\ shown \in 0 .. Entries

LEMMA BoundsAreNumbers == Entries \in Nat /\ MaxAsks \in Nat /\ 0 \in 0 .. Entries /\ 0 \in 0 .. MaxAsks
<1>1. Entries \in Nat /\ MaxAsks \in Nat
  BY AskAssumption
<1> QED
  BY <1>1

LEMMA InitChainInv == AskInit => ChainInv
<1> SUFFICES ASSUME AskInit PROVE ChainInv
  OBVIOUS
<1>1. ASSUME NEW n \in Lengths PROVE <<[role |-> "system", len |-> n]>> \in Seq(Message)
  <2>1. [role |-> "system", len |-> n] \in Message
    BY DEF Message
  <2> HIDE DEF Message
  <2> QED
    BY <2>1
<1>2. history \in Seq(Message) /\ messages = history
  <2>1. messages = history
    BY DEF AskInit
  <2>2. CASE history = <<>>
    <3>1. <<>> \in Seq(Message)
      OBVIOUS
    <3> QED
      BY <2>1, <2>2, <3>1
  <2>3. CASE history # <<>>
    <3>1. PICK n \in Lengths : history = <<[role |-> "system", len |-> n]>>
      BY <2>3 DEF AskInit
    <3> QED
      BY <1>1, <3>1 DEF AskInit
  <2> QED
    BY <2>2, <2>3
<1>3. ask.pc = "idle" /\ ask.end = "none"
  BY DEF AskInit, Quiet
<1>4. chain = <<>> /\ asks = 0 /\ active = 0 /\ shown = 0
  BY DEF AskInit
<1>5. <<>> \in Seq(0 .. Entries)
  OBVIOUS
<1> QED
  BY <1>2, <1>3, <1>4, <1>5, BoundsAreNumbers DEF ChainInv, Stage, Ends

LEMMA NextProviderStaysInChain ==
    ASSUME AskInv, ChainInv, ask.pc = "ask", NextProvider(ask.at),
           UNCHANGED <<history, messages, chain, asks, active, shown>>
    PROVE  ChainInv'
<1>1. ask \in Question /\ ask.at \in 1 .. Len(chain) /\ ask.end \in Ends /\ chain \in Seq(0 .. Entries)
  BY DEF AskInv, AskType, ChainInv
<1>2. \/ ask'.pc = "ask" /\ ask'.at = ask.at + 1 /\ ask.at < Len(chain) /\ ask'.end = ask.end
      \/ ask'.pc = "idle" /\ ask'.end = "no answer"
  BY <1>1 DEF NextProvider, Fail, Question
<1>3. ask'.pc = "ask" => ask'.at \in 1 .. Len(chain)
  BY <1>1, <1>2
<1>4. ask'.pc \in {"idle", "ask"} /\ ask'.end \in Ends
  BY <1>1, <1>2 DEF Ends
<1> QED
  BY <1>1, <1>3, <1>4 DEF ChainInv, Stage, Ends

LEMMA StepChainInv == AskInv /\ ChainInv /\ [AskNext]_askVars => ChainInv'
<1> SUFFICES ASSUME AskInv, ChainInv, [AskNext]_askVars PROVE ChainInv'
  OBVIOUS
<1>1. /\ ask \in Question
      /\ ask.end \in Ends
      /\ chain \in Seq(0 .. Entries)
      /\ history \in Seq(Message) /\ messages \in Seq(Message)
  BY DEF AskInv, AskType, ChainInv
<1> USE DEF Stage, Ends
<1>2. ASSUME NEW s \in Seq(Message), NEW n \in Lengths, NEW r \in {"user", "assistant"}
      PROVE  Append(s, [role |-> r, len |-> n]) \in Seq(Message)
  BY DEF Message
<1>3. CASE \E n \in Lengths : Enter(n)
  <2>1. PICK n \in Lengths : Enter(n)
    BY <1>3
  <2>2. messages' = Append(history, [role |-> "user", len |-> n]) /\ history' = history
        /\ shown' = 0 /\ active' = 0 /\ asks' = 0 /\ chain' = BuildProviders
        /\ ask' = IF BuildProviders = <<>> THEN [Quiet EXCEPT !.end = "failed"]
                                           ELSE [Quiet EXCEPT !.pc = "plan"]
    BY <2>1 DEF Enter
  <2>3. messages' \in Seq(Message)
    BY <1>1, <1>2, <2>2
  <2>4. /\ chain' \in Seq(0 .. Entries)
        /\ ask'.pc \in {"idle", "plan"} /\ ask'.end \in {"none", "failed"}
        /\ ask'.pc = "plan" => chain' # <<>>
    BY <2>2, ProvidersAreTyped DEF Quiet
  <2> QED
    BY <1>1, <2>2, <2>3, <2>4, BoundsAreNumbers DEF ChainInv
<1>4. CASE CreatePlan
  <2>1. ask'.pc = "ask" /\ ask'.at = 1 /\ ask'.end = "none" /\ asks' = asks + 1 /\ asks < MaxAsks
    BY <1>4 DEF CreatePlan, Quiet
  <2>2. chain # <<>> /\ chain \in Seq(0 .. Entries)
    BY <1>4 DEF CreatePlan, ChainInv
  <2>3. 1 \in DOMAIN chain
    BY <2>2
  <2>4. asks' \in 0 .. MaxAsks
    <3>1. asks \in 0 .. MaxAsks
      BY DEF ChainInv
    <3> QED
      BY <2>1, <3>1, BoundsAreNumbers
  <2>5. 1 \in 1 .. Len(chain)
    BY <2>2
  <2>6. UNCHANGED <<history, messages, chain, active, shown>>
    BY <1>4 DEF CreatePlan
  <2> HIDE DEF AskInv
  <2> QED
    BY <1>1, <2>1, <2>2, <2>4, <2>5, <2>6 DEF ChainInv
<1>5. CASE Skip
  BY <1>5, NextProviderStaysInChain DEF Skip
<1>6. CASE \E reply \in Replies : Chat(reply)
  <2>1. PICK reply \in Replies : Chat(reply)
    BY <1>6
  <2> DEFINE outcome == Outcome(chain[ask.at], reply)
  <2>2. outcome \in {"ok", "empty", "not available", "error"}
    BY DEF Outcome, AnthropicChat, OpenAIChat, GeminiChat, CustomChat, CheckResponse
  <2> HIDE DEF outcome
  <2>3. CASE outcome \in {"ok", "empty"}
    <3>1. ask.at \in 1 .. Len(chain)
      BY <2>1 DEF Chat, ChainInv
    <3>2. chain[ask.at] \in 0 .. Entries
      <4> HIDE DEF Stage, Ends
      <4>1. chain \in Seq(0 .. Entries)
        BY <1>1
      <4> QED
        BY <3>1, <4>1, ElementIsTyped
    <3>3. active' = chain[ask.at] /\ ask'.pc \in {"reply", "no plan"} /\ ask'.end = ask.end
      BY <1>1, <2>1, <2>3 DEF Chat, outcome, Question
    <3> QED
      BY <1>1, <2>1, <3>2, <3>3 DEF Chat, ChainInv
  <2>4. CASE outcome = "not available"
    BY <2>1, <2>4, NextProviderStaysInChain DEF Chat, outcome
  <2>5. CASE outcome = "error"
    <3>1. ask'.pc = "idle" /\ ask'.end = "no answer" /\ active' = active
      BY <1>1, <2>1, <2>5 DEF Chat, outcome, Fail, Question
    <3> QED
      BY <1>1, <2>1, <3>1 DEF Chat, ChainInv
  <2> QED
    BY <2>2, <2>3, <2>4, <2>5
<1>7. CASE AskAgain
  <2>1. ask'.pc = "plan" /\ ask'.end = ask.end
    BY <1>1, <1>7 DEF AskAgain, Question
  <2> QED
    BY <1>7, <2>1 DEF AskAgain, ChainInv
<1>8. CASE RunFails
  <2>1. ask'.pc = "idle" /\ ask'.end = "failed"
    BY <1>1, <1>8 DEF RunFails, Fail, Question
  <2> QED
    BY <1>8, <2>1 DEF RunFails, ChainInv
<1>9. CASE \E n \in Lengths : RunEnds(n)
  <2>1. PICK n \in Lengths : RunEnds(n)
    BY <1>9
  <2>2. messages' \in Seq(Message) /\ history' = messages'
    BY <1>1, <1>2, <2>1 DEF RunEnds
  <2>3. ask'.pc = "idle" /\ ask'.end = "ok"
    BY <1>1, <2>1 DEF RunEnds, Question
  <2> QED
    BY <2>1, <2>2, <2>3 DEF RunEnds, ChainInv
<1>10. CASE \E p \in 0 .. Entries, key \in {"ready", "no key"} : KeyChanges(p, key)
  BY <1>10 DEF KeyChanges, ChainInv
<1>11. CASE UNCHANGED askVars
  BY <1>11 DEF askVars, ChainInv
<1> QED
  BY <1>3, <1>4, <1>5, <1>6, <1>7, <1>8, <1>9, <1>10, <1>11 DEF AskNext

(* The state of a question keeps its type: a provider that is asked is one *)
(* of the chain (FallbackChain.Chat, buildProviders).                      *)
THEOREM QuestionsAreTyped == AskSpec => []AskTypeOK
<1>1. AskInit => AskInv /\ ChainInv
  BY InitAskInv, InitChainInv
<1>2. AskInv /\ ChainInv /\ [AskNext]_askVars => (AskInv /\ ChainInv)'
  BY StepAskInv, StepChainInv
<1>3. ChainInv => AskTypeOK
  <2> SUFFICES ASSUME ChainInv PROVE AskTypeOK
    OBVIOUS
  <2>1. ask.pc = "ask" => ask.at \in DOMAIN chain
    BY DEF ChainInv
  <2> QED
    BY <2>1 DEF ChainInv, AskTypeOK, Stage, Ends
<1> QED
  BY <1>1, <1>2, <1>3, PTL DEF AskSpec

(* What is sent of a conversation is the most of its end that fits, however*)
(* long its messages are and whatever the limits (trimHistory).            *)
THEOREM SentIsLongest == AskSpec => []TrimIsLongest
<1>1. AskTypeOK => TrimIsLongest
  BY TrimmedIsLongest DEF AskTypeOK
<1> QED
  BY <1>1, QuestionsAreTyped, PTL

-----------------------------------------------------------------------------
(* The skills                                                              *)

IsHit(sk) == sk.auto /\ sk.fit > 0

(* The places of the skills that no later one of their name overrides. *)
LastOnes(u) == {i \in DOMAIN u : \A j \in DOMAIN u : u[j].name = u[i].name => j <= i}

DistinctNames(s) == \A i, j \in DOMAIN s : s[i].name = s[j].name => i = j

LEMMA ParsedIsSkill == \A f \in SkillFiles : Parsed(f) \in Skill
<1> SUFFICES ASSUME NEW f \in SkillFiles PROVE Parsed(f) \in Skill
  OBVIOUS
<1>1. f \in SkillFile
  BY SkillsAssumption
<1>2. /\ f.parent \in SkillName /\ f.name \in SkillName \cup {0}
      /\ f.auto \in BOOLEAN /\ f.fit \in Nat
  BY <1>1 DEF SkillFile
<1> QED
  BY <1>2 DEF Parsed, Skill

LEMMA UpsertIs ==
    ASSUME skills \in Seq(Skill), DistinctNames(skills), NEW sk \in Skill
    PROVE  /\ Upsert(sk) \in Seq(Skill)
           /\ DistinctNames(Upsert(sk))
           /\ ToSet(Upsert(sk)) = {sk} \cup {t \in ToSet(skills) : t.name # sk.name}
<1> DEFINE N == Len(skills)
<1>1. DOMAIN skills = 1 .. N /\ N \in Nat /\ \A i \in 1 .. N : skills[i] \in Skill
  OBVIOUS
<1>2. CASE \E i \in DOMAIN skills : skills[i].name = sk.name
  <2>1. PICK h \in DOMAIN skills : skills[h].name = sk.name
    BY <1>2
  <2>2. \A i \in DOMAIN skills : skills[i].name = sk.name <=> i = h
    BY <2>1 DEF DistinctNames
  <2> DEFINE u == [i \in 1 .. N |-> IF i = h THEN sk ELSE skills[i]]
  <2>3. Upsert(sk) = u
    BY <1>1, <1>2, <2>2 DEF Upsert
  <2>4. u \in Seq(Skill)
    BY <1>1
  <2>5. DOMAIN u = 1 .. N /\ u[h] = sk /\ \A i \in 1 .. N : i # h => u[i] = skills[i]
    BY <1>1, <2>1
  <2> HIDE DEF u, N
  <2>6. DistinctNames(u)
    BY <1>1, <2>1, <2>2, <2>5 DEF DistinctNames
  <2>7. ToSet(u) = {sk} \cup {t \in ToSet(skills) : t.name # sk.name}
    BY <1>1, <2>1, <2>2, <2>5 DEF ToSet
  <2> QED
    BY <2>3, <2>4, <2>6, <2>7
<1>3. CASE ~\E i \in DOMAIN skills : skills[i].name = sk.name
  <2> DEFINE u == Append(skills, sk)
  <2>1. Upsert(sk) = u
    BY <1>3 DEF Upsert
  <2>2. u \in Seq(Skill) /\ DOMAIN u = 1 .. N + 1 /\ u[N + 1] = sk
        /\ \A i \in 1 .. N : u[i] = skills[i]
    BY <1>1
  <2>3. \A i \in 1 .. N + 1 : i = N + 1 \/ i \in 1 .. N
    BY <1>1
  <2>4. 1 .. N \subseteq 1 .. N + 1 /\ N + 1 \in 1 .. N + 1
    BY <1>1
  <2> HIDE DEF u, N
  <2>5. DistinctNames(u)
    BY <1>1, <1>3, <2>2, <2>3 DEF DistinctNames
  <2>6. ToSet(u) = {sk} \cup {t \in ToSet(skills) : t.name # sk.name}
    BY <1>1, <1>3, <2>2, <2>3, <2>4 DEF ToSet
  <2> QED
    BY <2>1, <2>2, <2>5, <2>6
<1> QED
  BY <1>2, <1>3

(* What one more file leaves of the last ones. *)
LEMMA LastOnesAfter ==
    ASSUME NEW u \in Seq(Skill), NEW sk \in Skill
    PROVE  LET v == Append(u, sk)
           IN  {v[i] : i \in LastOnes(v)} =
                  {sk} \cup {t \in {u[i] : i \in LastOnes(u)} : t.name # sk.name}
<1> DEFINE v == Append(u, sk)
           N == Len(u)
<1>1. N \in Nat /\ DOMAIN u = 1 .. N /\ DOMAIN v = 1 .. N + 1 /\ v[N + 1] = sk
      /\ \A i \in 1 .. N : v[i] = u[i]
  OBVIOUS
<1> HIDE DEF v, N
<1>2. LastOnes(v) = {N + 1} \cup {i \in LastOnes(u) : u[i].name # sk.name}
  <2>1. ASSUME NEW i \in 1 .. N + 1
        PROVE  i \in LastOnes(v) <=> i = N + 1 \/ (i \in LastOnes(u) /\ u[i].name # sk.name)
    <3>1. CASE i = N + 1
      <4>1. \A j \in 1 .. N + 1 : j <= i
        BY <1>1, <3>1
      <4> QED
        BY <1>1, <3>1, <4>1 DEF LastOnes
    <3>2. CASE i # N + 1
      <4>1. i \in 1 .. N /\ ~(N + 1 <= i) /\ N + 1 \in 1 .. N + 1 /\ 1 .. N \subseteq 1 .. N + 1
        BY <1>1, <3>2
      <4>2. \A j \in 1 .. N + 1 : j = N + 1 \/ j \in 1 .. N
        BY <1>1
      <4>3. v[i] = u[i]
        BY <1>1, <4>1
      <4>4. i \in LastOnes(v) <=> \A j \in 1 .. N + 1 : v[j].name = u[i].name => j <= i
        BY <1>1, <4>3 DEF LastOnes
      <4>5. i \in LastOnes(u) <=> \A j \in 1 .. N : u[j].name = u[i].name => j <= i
        BY <1>1, <4>1 DEF LastOnes
      <4> QED
        BY <1>1, <3>2, <4>1, <4>2, <4>4, <4>5
    <3> QED
      BY <3>1, <3>2
  <2>2. LastOnes(v) \subseteq 1 .. N + 1 /\ LastOnes(u) \subseteq 1 .. N
    BY <1>1 DEF LastOnes
  <2>3. N + 1 \in 1 .. N + 1 /\ 1 .. N \subseteq 1 .. N + 1
    BY <1>1
  <2> QED
    BY <2>1, <2>2, <2>3
<1>3. N + 1 \notin LastOnes(u) /\ LastOnes(u) \subseteq 1 .. N
  BY <1>1 DEF LastOnes
<1>4. {v[i] : i \in LastOnes(v)} =
         {sk} \cup {t \in {u[i] : i \in LastOnes(u)} : t.name # sk.name}
  BY <1>1, <1>2, <1>3
<1> QED
  BY <1>4 DEF v

-----------------------------------------------------------------------------
LEMMA PlacedIs ==
    ASSUME NEW s \in Seq(Skill), NEW sk \in Skill
    PROVE  /\ Placed(s, sk) \in Seq(Skill)
           /\ Len(Placed(s, sk)) = Len(s) + 1
           /\ ToSet(Placed(s, sk)) = ToSet(s) \cup {sk}
<1> DEFINE N == Len(s)
           W == {i \in DOMAIN s : ~Better(sk, s[i])}
           c == Cardinality(W)
           u == SubSeq(s, 1, c) \o <<sk>> \o SubSeq(s, c + 1, N)
<1>1. N \in Nat /\ DOMAIN s = 1 .. N
  OBVIOUS
<1>2. c \in 0 .. N
  <2>1. IsFiniteSet(1 .. N) /\ Cardinality(1 .. N) = N
    <3>1. 1 \in Int /\ N \in Int /\ (N + 1) - 1 = N /\ (1 > N => N = 0) /\ (N - 1) + 1 = N
      BY <1>1
    <3> HIDE DEF N
    <3> QED
      BY <3>1, FS_Interval
  <2>2. W \in SUBSET (1 .. N)
    BY <1>1
  <2> HIDE DEF W
  <2>3. IsFiniteSet(W) /\ c <= N
    BY <2>1, <2>2, FS_Subset
  <2>4. c \in Nat
    BY <2>3, FS_CardinalityType
  <2> QED
    BY <1>1, <2>3, <2>4
<1> HIDE DEF c, W
<1>3. Placed(s, sk) = u
  <2>1. (c + 1) - 1 = c
    BY <1>1, <1>2
  <2> QED
    BY <2>1 DEF Placed, InsertAt, c, W
<1>4. /\ u \in Seq(Skill) /\ Len(u) = N + 1
      /\ \A i \in 1 .. c : u[i] = s[i]
      /\ u[c + 1] = sk
      /\ \A i \in c + 1 .. N : u[i + 1] = s[i]
  <2> DEFINE a == SubSeq(s, 1, c)
             b == SubSeq(s, c + 1, N)
  <2>1. a \in Seq(Skill) /\ Len(a) = c /\ \A i \in 1 .. c : a[i] = s[i]
    BY <1>1, <1>2
  <2>2. b \in Seq(Skill) /\ Len(b) = N - c /\ \A i \in 1 .. N - c : b[i] = s[c + i]
    BY <1>2, EndOf
  <2> HIDE DEF a, b
  <2> DEFINE w == a \o <<sk>>
  <2>3. w \in Seq(Skill) /\ Len(w) = c + 1 /\ w[c + 1] = sk /\ \A i \in 1 .. c : w[i] = s[i]
    BY <1>2, <2>1
  <2> HIDE DEF w
  <2>4. u = w \o b
    BY DEF a, b, w
  <2> HIDE DEF u
  <2>5. u \in Seq(Skill) /\ Len(u) = N + 1
    <3>1. u \in Seq(Skill) /\ Len(u) = Len(w) + Len(b)
      BY <2>2, <2>3, <2>4, JoinedElements
    <3> QED
      BY <1>1, <1>2, <2>2, <2>3, <3>1
  <2>6. \A i \in 1 .. c + 1 : u[i] = w[i]
    <3>1. \A i \in 1 .. Len(w) : u[i] = w[i]
      BY <2>2, <2>3, <2>4, JoinedElements
    <3> QED
      BY <2>3, <3>1
  <2>7. \A i \in 1 .. N - c : u[(c + 1) + i] = b[i]
    <3>1. \A i \in 1 .. Len(b) : u[Len(w) + i] = b[i]
      BY <2>2, <2>3, <2>4, JoinedElements, SMTT(30)
    <3> QED
      BY <2>2, <2>3, <3>1
  <2>8. ASSUME NEW i \in c + 1 .. N PROVE u[i + 1] = s[i]
    <3>1. i - c \in 1 .. N - c /\ (c + 1) + (i - c) = i + 1 /\ c + (i - c) = i
      BY <1>1, <1>2
    <3> QED
      BY <2>2, <2>7, <3>1
  <2>9. c + 1 \in 1 .. c + 1 /\ \A i \in 1 .. c : i \in 1 .. c + 1
    BY <1>2
  <2> QED
    BY <2>3, <2>5, <2>6, <2>8, <2>9
<1> HIDE DEF u
<1>5. ToSet(u) \subseteq ToSet(s) \cup {sk}
  <2> SUFFICES ASSUME NEW i \in 1 .. N + 1 PROVE u[i] \in ToSet(s) \cup {sk}
    BY <1>1, <1>4 DEF ToSet
  <2>1. CASE i \in 1 .. c
    <3>1. i \in 1 .. N
      BY <1>1, <1>2, <2>1
    <3> QED
      BY <1>1, <1>4, <2>1, <3>1 DEF ToSet
  <2>2. CASE i = c + 1
    BY <1>4, <2>2
  <2>3. CASE i \in c + 2 .. N + 1
    <3>1. i - 1 \in c + 1 .. N /\ (i - 1) + 1 = i /\ i - 1 \in 1 .. N
      BY <1>1, <1>2, <2>3
    <3>2. u[i] = s[i - 1]
      BY <1>4, <3>1
    <3> QED
      BY <1>1, <3>1, <3>2 DEF ToSet
  <2> QED
    BY <1>1, <1>2, <2>1, <2>2, <2>3
<1>6. ToSet(s) \cup {sk} \subseteq ToSet(u)
  <2>1. DOMAIN u = 1 .. N + 1
    BY <1>1, <1>4
  <2>2. sk \in ToSet(u)
    <3>1. c + 1 \in 1 .. N + 1
      BY <1>1, <1>2
    <3> QED
      BY <1>4, <2>1, <3>1 DEF ToSet
  <2>3. ASSUME NEW i \in 1 .. N PROVE s[i] \in ToSet(u)
    <3>1. CASE i \in 1 .. c
      <4>1. i \in 1 .. N + 1
        BY <1>1
      <4> QED
        BY <1>4, <2>1, <3>1, <4>1 DEF ToSet
    <3>2. CASE i \in c + 1 .. N
      <4>1. i + 1 \in 1 .. N + 1
        BY <1>1, <1>2
      <4> QED
        BY <1>4, <2>1, <3>2, <4>1 DEF ToSet
    <3> QED
      BY <1>1, <1>2, <3>1, <3>2
  <2> QED
    BY <1>1, <2>2, <2>3 DEF ToSet
<1> QED
  BY <1>3, <1>4, <1>5, <1>6 DEF N

LEMMA InjectiveImage ==
    ASSUME NEW f, NEW A, IsFiniteSet(A), \A i, j \in A : f[i] = f[j] => i = j
    PROVE  Cardinality({f[i] : i \in A}) = Cardinality(A)
<1> DEFINE T == {f[i] : i \in A}
           g == [i \in A |-> f[i]]
<1>1. g \in Bijection(A, T)
  BY DEF Bijection, Injection, Surjection, IsInjective
<1> HIDE DEF g, T
<1>2. Cardinality(T) = Cardinality(A)
  BY <1>1, FS_Bijection DEF ExistsBijection
<1> QED
  BY <1>2 DEF T

(* The loop over the skills of the store. *)
LEMMA MatchUpToLoop ==
    ASSUME skills \in Seq(Skill)
    PROVE  /\ MatchUpTo[0] = <<>>
           /\ \A n \in 1 .. Len(skills) :
                 MatchUpTo[n] = IF IsHit(skills[n]) THEN Placed(MatchUpTo[n - 1], skills[n])
                                ELSE MatchUpTo[n - 1]
           /\ \A n \in 0 .. Len(skills) : MatchUpTo[n] \in Seq(Skill)
<1> DEFINE N == Len(skills)
           V == Seq(Skill)
           G == [p \in (1 .. N) \X V |->
                    IF IsHit(skills[p[1]]) THEN Placed(p[2], skills[p[1]]) ELSE p[2]]
           Best(f) == f = [n \in 0 .. N |->
                              IF n = 0 THEN <<>>
                              ELSE IF IsHit(skills[n]) THEN Placed(f[n - 1], skills[n])
                              ELSE f[n - 1]]
<1>1. N \in Nat /\ <<>> \in V /\ \A n \in 1 .. N : skills[n] \in Skill
  OBVIOUS
<1>2. G \in [(1 .. N) \X V -> V]
  <2>1. ASSUME NEW n \in 1 .. N, NEW s \in V PROVE Placed(s, skills[n]) \in V
    BY <1>1, PlacedIs
  <2> HIDE DEF V, N
  <2> QED
    BY <2>1
<1>3. \A n \in 1 .. N, s \in V :
         G[<<n, s>>] = IF IsHit(skills[n]) THEN Placed(s, skills[n]) ELSE s
  OBVIOUS
<1> HIDE DEF G, V, N
<1>4. PICK f : Follows(f, N, V, <<>>, G)
  BY <1>1, <1>2, Primitive
<1>5. f \in [0 .. N -> V] /\ f[0] = <<>> /\ \A n \in 1 .. N : f[n] = G[<<n, f[n - 1]>>]
  BY <1>4 DEF Follows
<1>6. \A n \in 1 .. N : f[n] = IF IsHit(skills[n]) THEN Placed(f[n - 1], skills[n]) ELSE f[n - 1]
  <2> TAKE n \in 1 .. N
  <2>1. n - 1 \in 0 .. N
    BY <1>1
  <2> QED
    BY <1>3, <1>5, <2>1
<1>7. f = [n \in 0 .. N |->
              IF n = 0 THEN <<>>
              ELSE IF IsHit(skills[n]) THEN Placed(f[n - 1], skills[n]) ELSE f[n - 1]]
  <2>1. \A n \in 0 .. N : n = 0 \/ n \in 1 .. N
    BY <1>1
  <2> QED
    BY <1>5, <1>6, <2>1
<1>8. Best(f)
  BY <1>7
<1>9. MatchUpTo = CHOOSE g : Best(g)
  BY DEF MatchUpTo, IsHit, N
<1> HIDE DEF Best
<1>10. Best(MatchUpTo)
  BY <1>8, <1>9
<1> DEFINE B == MatchUpTo
<1>11. B = [n \in 0 .. N |->
               IF n = 0 THEN <<>>
               ELSE IF IsHit(skills[n]) THEN Placed(B[n - 1], skills[n]) ELSE B[n - 1]]
  BY <1>10 DEF Best
<1> HIDE DEF B
<1>12. B[0] = <<>>
  BY <1>1, <1>11
<1>13. \A n \in 1 .. N :
          B[n] = IF IsHit(skills[n]) THEN Placed(B[n - 1], skills[n]) ELSE B[n - 1]
  <2>1. \A n \in 1 .. N : n \in 0 .. N /\ n # 0
    BY <1>1
  <2> QED
    BY <1>11, <2>1, Zenon
<1> DEFINE S == {n \in 0 .. N : B[n] \in V}
<1>14. 0 \in S
  BY <1>1, <1>12
<1>15. ASSUME NEW n \in 1 .. N, n - 1 \in S PROVE n \in S
  <2>1. n \in 0 .. N
    BY <1>1
  <2> DEFINE s == B[n - 1]
             sk == skills[n]
  <2>2. s \in V /\ sk \in Skill
    BY <1>1, <1>15
  <2>3. B[n] = Placed(s, sk) \/ B[n] = s
    BY <1>13
  <2> HIDE DEF s, sk
  <2>4. Placed(s, sk) \in V
    BY <2>2, PlacedIs DEF V
  <2> QED
    BY <2>1, <2>2, <2>3, <2>4
<1> HIDE DEF S
<1>16. 0 .. N \subseteq S
  BY <1>1, <1>14, <1>15, Induct
<1>17. \A n \in 0 .. N : B[n] \in V
  BY <1>16 DEF S
<1> QED
  BY <1>12, <1>13, <1>17 DEF B, N, V

(* The places of the triggered skills among the first n. *)
HitsUpTo(n) == {i \in 1 .. n : IsHit(skills[i])}

LEMMA MatchHasTheHits ==
    ASSUME skills \in Seq(Skill)
    PROVE  /\ Match \in Seq(Skill)
           /\ ToSet(Match) = {skills[i] : i \in HitsUpTo(Len(skills))}
           /\ Len(Match) = Cardinality(HitsUpTo(Len(skills)))
           /\ IsFiniteSet(HitsUpTo(Len(skills)))
<1> DEFINE N == Len(skills)
           B == MatchUpTo
           S == {n \in 0 .. N : /\ ToSet(B[n]) = {skills[i] : i \in HitsUpTo(n)}
                                /\ Len(B[n]) = Cardinality(HitsUpTo(n))
                                /\ IsFiniteSet(HitsUpTo(n))}
<1>1. N \in Nat /\ \A n \in 1 .. N : skills[n] \in Skill
  OBVIOUS
<1>2. /\ B[0] = <<>>
      /\ \A n \in 1 .. N :
            B[n] = IF IsHit(skills[n]) THEN Placed(B[n - 1], skills[n]) ELSE B[n - 1]
      /\ \A n \in 0 .. N : B[n] \in Seq(Skill)
  BY MatchUpToLoop
<1> HIDE DEF N, B
<1>3. 0 \in S
  <2>1. HitsUpTo(0) = {}
    BY DEF HitsUpTo
  <2>2. ToSet(<<>>) = {} /\ Len(<<>>) = 0
    BY DEF ToSet
  <2>3. ToSet(B[0]) = {skills[i] : i \in HitsUpTo(0)}
    BY <1>2, <2>1, <2>2
  <2>4. Len(B[0]) = Cardinality(HitsUpTo(0)) /\ IsFiniteSet(HitsUpTo(0))
    BY <1>2, <2>1, <2>2, FS_EmptySet
  <2> QED
    BY <1>1, <2>3, <2>4
<1>4. ASSUME NEW n \in 1 .. N, n - 1 \in S PROVE n \in S
  <2> DEFINE H == HitsUpTo(n - 1)
             s == B[n - 1]
             sk == skills[n]
  <2>1. /\ n \in 0 .. N /\ n - 1 \in 0 .. N /\ s \in Seq(Skill) /\ sk \in Skill
        /\ B[n] = IF IsHit(sk) THEN Placed(s, sk) ELSE s
    BY <1>1, <1>2
  <2>2. /\ ToSet(s) = {skills[i] : i \in H} /\ Len(s) = Cardinality(H)
        /\ IsFiniteSet(H)
    BY <1>4
  <2>3. HitsUpTo(n) = IF IsHit(sk) THEN H \cup {n} ELSE H
    <3>1. 1 .. n = (1 .. n - 1) \cup {n}
      OBVIOUS
    <3> QED
      BY <3>1 DEF HitsUpTo
  <2>4. n \notin H
    BY DEF HitsUpTo
  <2> HIDE DEF H, s, S
  <2>5. CASE IsHit(sk)
    <3> DEFINE p == Placed(s, sk)
    <3>1. Len(p) = Len(s) + 1 /\ ToSet(p) = ToSet(s) \cup {sk}
      BY <2>1, PlacedIs
    <3>2. IsFiniteSet(H \cup {n}) /\ Cardinality(H \cup {n}) = Cardinality(H) + 1
      BY <2>2, <2>4, FS_AddElement
    <3>3. {skills[i] : i \in H \cup {n}} = {skills[i] : i \in H} \cup {sk}
      OBVIOUS
    <3>4. B[n] = p /\ HitsUpTo(n) = H \cup {n}
      BY <2>1, <2>3, <2>5
    <3> HIDE DEF p, sk
    <3>5. ToSet(B[n]) = {skills[i] : i \in HitsUpTo(n)}
      BY <2>2, <3>1, <3>3, <3>4
    <3>6. Len(B[n]) = Cardinality(HitsUpTo(n)) /\ IsFiniteSet(HitsUpTo(n))
      BY <2>2, <3>1, <3>2, <3>4
    <3> QED
      BY <2>1, <3>5, <3>6 DEF S
  <2>6. CASE ~IsHit(sk)
    <3>1. B[n] = s /\ HitsUpTo(n) = H
      BY <2>1, <2>3, <2>6
    <3>2. ToSet(B[n]) = {skills[i] : i \in HitsUpTo(n)}
      BY <2>2, <3>1
    <3>3. Len(B[n]) = Cardinality(HitsUpTo(n)) /\ IsFiniteSet(HitsUpTo(n))
      BY <2>2, <3>1
    <3> QED
      BY <2>1, <3>2, <3>3 DEF S
  <2> QED
    BY <2>5, <2>6
<1> HIDE DEF S
<1>5. 0 .. N \subseteq S
  BY <1>1, <1>3, <1>4, Induct
<1>6. N \in S /\ N \in 0 .. N
  BY <1>1, <1>5
<1>7. Match = B[N]
  BY DEF Match, B, N
<1> QED
  BY <1>2, <1>6, <1>7 DEF S, N

-----------------------------------------------------------------------------
(* The store has the last skill of each name, once. *)
SkillsInv ==
    /\ skills \in Seq(Skill) /\ usable \in Seq(Skill) /\ matched \in Seq(Skill)
    /\ loading \in 0 .. SkillDirs + 2
    /\ DistinctNames(skills)
    /\ ToSet(skills) = {usable[i] : i \in LastOnes(usable)}
    /\ loading = SkillDirs + 2 =>
          /\ ToSet(matched) = {skills[i] : i \in HitsUpTo(Len(skills))}
          /\ Len(matched) = Cardinality(HitsUpTo(Len(skills)))

LEMMA InitSkillsInv == SkillsInit => SkillsInv
<1> SUFFICES ASSUME SkillsInit PROVE SkillsInv
  OBVIOUS
<1>1. skills = <<>> /\ usable = <<>> /\ matched = <<>> /\ loading = 0
  BY DEF SkillsInit
<1>2. <<>> \in Seq(Skill) /\ DOMAIN <<>> = {}
  OBVIOUS
<1>3. DistinctNames(<<>>)
  BY <1>2 DEF DistinctNames
<1>4. ToSet(<<>>) = {} /\ LastOnes(<<>>) = {}
  BY <1>2 DEF ToSet, LastOnes
<1>5. loading \in 0 .. SkillDirs + 2 /\ loading # SkillDirs + 2
  BY <1>1, SkillsAssumption
<1>6. ToSet(skills) = {usable[i] : i \in LastOnes(usable)}
  BY <1>1, <1>4
<1> QED
  BY <1>1, <1>2, <1>3, <1>5, <1>6 DEF SkillsInv

LEMMA SameStore ==
    ASSUME SkillsInv, UNCHANGED <<skills, usable>>
    PROVE  /\ DistinctNames(skills)'
           /\ (ToSet(skills) = {usable[i] : i \in LastOnes(usable)})'
<1>1. skills' = skills /\ usable' = usable
  OBVIOUS
<1>2. DistinctNames(skills) /\ ToSet(skills) = {usable[i] : i \in LastOnes(usable)}
  BY DEF SkillsInv
<1>3. DistinctNames(skills)'
  BY <1>1, <1>2 DEF DistinctNames
<1>4. (ToSet(skills))' = ToSet(skills)
  BY <1>1 DEF ToSet
<1>5. (LastOnes(usable))' = LastOnes(usable)
  BY <1>1 DEF LastOnes
<1>6. ({usable[i] : i \in LastOnes(usable)})' = {usable[i] : i \in LastOnes(usable)}
  BY <1>1, <1>5
<1> QED
  BY <1>2, <1>3, <1>4, <1>6

LEMMA StepSkillsInv == SkillsInv /\ [SkillsNext]_skillVars => SkillsInv'
<1> SUFFICES ASSUME SkillsInv, [SkillsNext]_skillVars PROVE SkillsInv'
  OBVIOUS
<1>1. SkillDirs \in Nat
  BY SkillsAssumption
<1>2. CASE \E f \in SkillFiles : LoadFile(f)
  <2>1. PICK f \in SkillFiles : LoadFile(f)
    BY <1>2
  <2>2. loading <= SkillDirs /\ loading' = loading /\ matched' = matched
    BY <2>1 DEF LoadFile
  <2>3. loading \in 0 .. SkillDirs + 2 /\ loading # SkillDirs + 2
    BY <1>1, <2>2 DEF SkillsInv
  <2>4. CASE f.head = "empty file" /\ loading > 0
    BY <2>1, <2>2, <2>3, <2>4 DEF LoadFile, SkillsInv
  <2>5. CASE ~(f.head = "empty file" /\ loading > 0)
    <3> DEFINE sk == Parsed(f)
    <3>1. skills' = Upsert(sk) /\ usable' = Append(usable, sk)
      BY <2>1, <2>5 DEF LoadFile
    <3>2. sk \in Skill
      BY ParsedIsSkill
    <3> HIDE DEF sk
    <3>3. /\ Upsert(sk) \in Seq(Skill)
          /\ DistinctNames(Upsert(sk))
          /\ ToSet(Upsert(sk)) = {sk} \cup {t \in ToSet(skills) : t.name # sk.name}
      BY <3>2, UpsertIs DEF SkillsInv
    <3> DEFINE v == Append(usable, sk)
    <3>4. v \in Seq(Skill)
      BY <3>2 DEF SkillsInv
    <3>5. {v[i] : i \in LastOnes(v)} =
             {sk} \cup {t \in {usable[i] : i \in LastOnes(usable)} : t.name # sk.name}
      BY <3>2, LastOnesAfter DEF SkillsInv
    <3> HIDE DEF v
    <3>6. ToSet(Upsert(sk)) = {v[i] : i \in LastOnes(v)}
      BY <3>3, <3>5 DEF SkillsInv
    <3>7. usable' = v
      BY <3>1 DEF v
    <3>8. skills' \in Seq(Skill) /\ DistinctNames(skills)' /\ usable' \in Seq(Skill)
      BY <3>1, <3>3, <3>4, <3>7 DEF DistinctNames
    <3>9. (ToSet(skills) = {usable[i] : i \in LastOnes(usable)})'
      BY <3>1, <3>6, <3>7 DEF ToSet, LastOnes
    <3> QED
      BY <2>2, <2>3, <3>8, <3>9 DEF SkillsInv
  <2> QED
    BY <2>4, <2>5
<1>3. CASE WalkEnds
  <2>1. /\ loading <= SkillDirs /\ loading' = loading + 1
        /\ UNCHANGED <<skills, matched, usable>>
    BY <1>3 DEF WalkEnds
  <2>2. loading' \in 0 .. SkillDirs + 2 /\ loading' # SkillDirs + 2
    BY <1>1, <2>1 DEF SkillsInv
  <2> QED
    BY <2>1, <2>2, SameStore DEF SkillsInv
<1>4. CASE MatchCommand
  <2>1. /\ loading = SkillDirs + 1 /\ loading' = loading + 1 /\ matched' = Match
        /\ skills' = skills /\ usable' = usable
    BY <1>4 DEF MatchCommand
  <2>2. loading' \in 0 .. SkillDirs + 2
    BY <1>1, <2>1
  <2>3. /\ Match \in Seq(Skill)
        /\ ToSet(Match) = {skills[i] : i \in HitsUpTo(Len(skills))}
        /\ Len(Match) = Cardinality(HitsUpTo(Len(skills)))
    BY MatchHasTheHits DEF SkillsInv
  <2>4. /\ ToSet(matched') = {skills'[i] : i \in HitsUpTo(Len(skills))'}
        /\ Len(matched') = Cardinality(HitsUpTo(Len(skills))')
    BY <2>1, <2>3 DEF HitsUpTo
  <2>5. matched' \in Seq(Skill) /\ skills' \in Seq(Skill) /\ usable' \in Seq(Skill)
    BY <2>1, <2>3 DEF SkillsInv
  <2>6. DistinctNames(skills)' /\ (ToSet(skills) = {usable[i] : i \in LastOnes(usable)})'
    BY <2>1, SameStore
  <2> QED
    BY <2>2, <2>4, <2>5, <2>6 DEF SkillsInv
<1>5. CASE UNCHANGED skillVars
  <2>1. UNCHANGED <<skills, loading, matched, usable>>
    BY <1>5 DEF skillVars
  <2>2. DistinctNames(skills)' /\ (ToSet(skills) = {usable[i] : i \in LastOnes(usable)})'
    BY <2>1, SameStore
  <2>3. HitsUpTo(Len(skills))' = HitsUpTo(Len(skills))
    BY <2>1 DEF HitsUpTo
  <2>4. /\ skills' \in Seq(Skill) /\ usable' \in Seq(Skill) /\ matched' \in Seq(Skill)
        /\ loading' \in 0 .. SkillDirs + 2
    BY <2>1 DEF SkillsInv
  <2>5. loading' = SkillDirs + 2 =>
          /\ ToSet(matched') = {skills'[i] : i \in HitsUpTo(Len(skills))'}
          /\ Len(matched') = Cardinality(HitsUpTo(Len(skills))')
    <3> DEFINE H == HitsUpTo(Len(skills))
    <3>1. loading = SkillDirs + 2 =>
             ToSet(matched) = {skills[i] : i \in H} /\ Len(matched) = Cardinality(H)
      BY DEF SkillsInv
    <3>2. H' = H
      BY <2>3
    <3> HIDE DEF H
    <3>3. loading' = SkillDirs + 2 =>
             ToSet(matched') = {skills'[i] : i \in H'} /\ Len(matched') = Cardinality(H')
      BY <2>1, <3>1, <3>2
    <3> QED
      BY <3>3 DEF H
  <2> QED
    BY <2>2, <2>4, <2>5 DEF SkillsInv
<1> QED
  BY <1>2, <1>3, <1>4, <1>5 DEF SkillsNext

LEMMA LatestFromInv == SkillsInv => LatestIsMatched
<1> SUFFICES ASSUME SkillsInv, loading = SkillDirs + 2
             PROVE  LET triggered == {i \in LastOnes(usable) : usable[i].auto /\ usable[i].fit > 0}
                    IN  /\ ToSet(matched) = {usable[i] : i \in triggered}
                        /\ Len(matched) = Cardinality(triggered)
  BY DEF LatestIsMatched, LastOnes
<1> DEFINE triggered == {i \in LastOnes(usable) : usable[i].auto /\ usable[i].fit > 0}
           hits == HitsUpTo(Len(skills))
<1>1. triggered = {i \in LastOnes(usable) : IsHit(usable[i])}
  BY DEF IsHit
<1>2. DOMAIN skills = 1 .. Len(skills) /\ DOMAIN usable = 1 .. Len(usable)
      /\ Len(usable) \in Nat /\ Len(skills) \in Nat
  BY DEF SkillsInv
<1>3. hits = {i \in DOMAIN skills : IsHit(skills[i])}
  BY <1>2 DEF HitsUpTo
<1>4. {skills[i] : i \in hits} = {sk \in ToSet(skills) : IsHit(sk)}
  BY <1>3 DEF ToSet
<1>5. {usable[i] : i \in triggered} = {sk \in {usable[i] : i \in LastOnes(usable)} : IsHit(sk)}
  BY <1>1
<1>6. {skills[i] : i \in hits} = {usable[i] : i \in triggered}
  BY <1>4, <1>5 DEF SkillsInv
<1>7. IsFiniteSet(hits) /\ \A i, j \in hits : skills[i] = skills[j] => i = j
  BY <1>3, MatchHasTheHits DEF SkillsInv, DistinctNames
<1>8. IsFiniteSet(triggered)
  <2>1. IsFiniteSet(1 .. Len(usable))
    BY <1>2, FS_Interval
  <2>2. triggered \in SUBSET (1 .. Len(usable))
    BY <1>2 DEF LastOnes
  <2> QED
    BY <2>1, <2>2, FS_Subset
<1>9. \A i, j \in triggered : usable[i] = usable[j] => i = j
  <2> SUFFICES ASSUME NEW i \in triggered, NEW j \in triggered, usable[i] = usable[j]
               PROVE  i = j
    OBVIOUS
  <2>1. i \in DOMAIN usable /\ j \in DOMAIN usable /\ i <= j /\ j <= i
    BY DEF LastOnes
  <2>2. i \in Nat /\ j \in Nat
    BY <1>2, <2>1
  <2> QED
    BY <2>1, <2>2
<1> HIDE DEF triggered, hits
<1>10. Cardinality(hits) = Cardinality({skills[i] : i \in hits})
  BY <1>7, InjectiveImage
<1>11. Cardinality(triggered) = Cardinality({usable[i] : i \in triggered})
  BY <1>8, <1>9, InjectiveImage
<1>12. ToSet(matched) = {skills[i] : i \in hits} /\ Len(matched) = Cardinality(hits)
  BY DEF SkillsInv, hits
<1>13. ToSet(matched) = {usable[i] : i \in triggered} /\ Len(matched) = Cardinality(triggered)
  BY <1>6, <1>10, <1>11, <1>12
<1> QED
  BY <1>13 DEF triggered

(* The store and what is matched keep their types (Upsert, MatchScored).   *)
THEOREM SkillsAreTyped == SkillsSpec => []SkillsTypeOK
<1>1. SkillsInv => SkillsTypeOK
  BY DEF SkillsInv, SkillsTypeOK
<1> QED
  BY <1>1, InitSkillsInv, StepSkillsInv, PTL DEF SkillsSpec

(* A command is matched with exactly the triggered skills that no later    *)
(* file of their name overrides, each once, for any files in any number of *)
(* directories (LoadAll, Upsert, MatchScored).                             *)
THEOREM LastSkillsAreMatched == SkillsSpec => []LatestIsMatched
BY InitSkillsInv, StepSkillsInv, LatestFromInv, PTL DEF SkillsSpec

-----------------------------------------------------------------------------
(* The registry of tools                                                   *)

Entry == [tool : Tool, server : Server]

(* A map whose tools are stored under their own keys. *)
WellKeyed(map) ==
    /\ map \in [DOMAIN map -> Entry]
    /\ \A k \in DOMAIN map : k = Key(map[k].server, map[k].tool)

(* Aliases that lead to a tool of the name where there is one. *)
Live(map, al) ==
    /\ al \in [Tool -> DOMAIN map \cup {NoKey}]
    /\ \A t \in Tool : al[t] = NoKey => Named(map, t) = {}
    /\ \A t \in Tool : al[t] # NoKey => al[t] \in Named(map, t)

RegistryInv == WellKeyed(tools) /\ Live(tools, aliases)

(* The key of a tool that a well-keyed map holds leads to its own entry. *)
LEMMA KeyOfEntry ==
    ASSUME NEW map, WellKeyed(map),
           NEW s \in Server, NEW t \in Tool, Key(s, t) \in DOMAIN map
    PROVE  map[Key(s, t)] = [tool |-> t, server |-> s]
BY KeyAssumption DEF WellKeyed, Entry

LEMMA NoKeyIsFree ==
    ASSUME NEW map, WellKeyed(map)
    PROVE  NoKey \notin DOMAIN map
BY KeyAssumption DEF WellKeyed, Entry

(* A listed tool is found under its key. *)
LEMMA ListedEntry ==
    ASSUME NEW map, NEW s \in Server, NEW T \in SUBSET Tool, NEW t \in T
    PROVE  With(map, s, T)[Key(s, t)] = [tool |-> t, server |-> s]
<1>1. Key(s, t) \in Keys(s, T)
  BY DEF Keys
<1>2. \A u \in T : Key(s, u) = Key(s, t) => u = t
  BY KeyAssumption
<1>3. (CHOOSE u \in T : Key(s, u) = Key(s, t)) = t
  BY <1>2
<1> QED
  BY <1>1, <1>3 DEF With

(* What a listing of a server leaves in a well-keyed map. *)
LEMMA WithListing ==
    ASSUME NEW map, WellKeyed(map), NEW s \in Server, NEW T \in SUBSET Tool
    PROVE  /\ WellKeyed(With(map, s, T))
           /\ DOMAIN With(map, s, T) = DOMAIN map \cup Keys(s, T)
           /\ \A k \in DOMAIN map : With(map, s, T)[k] = map[k]
<1> DEFINE m == With(map, s, T)
<1>1. DOMAIN m = DOMAIN map \cup Keys(s, T)
  BY DEF With
<1>2. \A t \in T : m[Key(s, t)] = [tool |-> t, server |-> s]
  BY ListedEntry
<1>3. \A k \in DOMAIN map : m[k] = map[k]
  <2> SUFFICES ASSUME NEW k \in DOMAIN map PROVE m[k] = map[k]
    OBVIOUS
  <2>1. CASE k \in Keys(s, T)
    <3>1. PICK t \in T : k = Key(s, t)
      BY <2>1 DEF Keys
    <3> QED
      BY <3>1, <1>2, KeyOfEntry
  <2>2. CASE k \notin Keys(s, T)
    BY <2>2 DEF With
  <2> QED
    BY <2>1, <2>2
<1>4. WellKeyed(m)
  <2>1. ASSUME NEW k \in DOMAIN m PROVE m[k] \in Entry /\ k = Key(m[k].server, m[k].tool)
    <3>1. CASE k \in DOMAIN map
      <4>1. m[k] = map[k]
        BY <1>3, <3>1
      <4> QED
        BY <3>1, <4>1 DEF WellKeyed
    <3>2. CASE k \in Keys(s, T)
      <4>1. PICK t \in T : k = Key(s, t)
        BY <3>2 DEF Keys
      <4>2. m[k] = [tool |-> t, server |-> s]
        BY <1>2, <4>1
      <4> QED
        BY <4>1, <4>2 DEF Entry
    <3> QED
      BY <1>1, <3>1, <3>2
  <2>2. m = [k \in DOMAIN m |-> m[k]]
    BY DEF With
  <2> QED
    BY <2>1, <2>2 DEF WellKeyed
<1> QED
  BY <1>1, <1>2, <1>3, <1>4

(* Taking the tools of a server away keeps the others under their keys. *)
LEMMA WithoutServer ==
    ASSUME WellKeyed(tools), NEW s \in Server
    PROVE  /\ WellKeyed(Without(s))
           /\ DOMAIN Without(s) = DOMAIN tools \ Owned(s)
           /\ \A r \in Server, t \in Tool :
                 Key(r, t) \in DOMAIN Without(s) <=> r # s /\ Key(r, t) \in DOMAIN tools
<1>1. DOMAIN Without(s) = DOMAIN tools \ Owned(s)
  BY DEF Without
<1>2. \A k \in DOMAIN Without(s) : Without(s)[k] = tools[k]
  BY DEF Without
<1>3. WellKeyed(Without(s))
  <2>1. Without(s) = [k \in DOMAIN Without(s) |-> Without(s)[k]]
    BY DEF Without
  <2> QED
    BY <1>1, <1>2, <2>1 DEF WellKeyed
<1>4. ASSUME NEW r \in Server, NEW t \in Tool, Key(r, t) \in DOMAIN tools
      PROVE  Key(r, t) \in Owned(s) <=> r = s
  BY <1>4, KeyOfEntry DEF Owned
<1> QED
  BY <1>1, <1>3, <1>4

(* Aliases refreshed after a removal are alive. *)
LEMMA RefreshedIsLive ==
    ASSUME RegistryInv, NEW s \in Server, NEW al \in Refreshed(Without(s))
    PROVE  /\ Live(Without(s), al)
           /\ \A t \in Tool : aliases[t] \in DOMAIN Without(s) => al[t] = aliases[t]
<1> DEFINE m == Without(s)
<1>1. WellKeyed(m) /\ DOMAIN m \subseteq DOMAIN tools
  BY WithoutServer DEF RegistryInv
<1>2. \A t \in Tool : Named(m, t) \subseteq Named(tools, t)
  BY <1>1 DEF Named, Without
<1>3. al \in [Tool -> DOMAIN m \cup {NoKey}]
  BY DEF Refreshed
<1>4. ASSUME NEW t \in Tool
      PROVE  /\ al[t] = NoKey => Named(m, t) = {}
             /\ al[t] # NoKey => al[t] \in Named(m, t)
             /\ aliases[t] \in DOMAIN m => al[t] = aliases[t]
  <2>1. CASE aliases[t] = NoKey
    <3>1. al[t] = aliases[t]
      BY <2>1 DEF Refreshed
    <3> QED
      BY <2>1, <3>1, <1>2 DEF RegistryInv, Live
  <2>2. CASE aliases[t] \in DOMAIN m
    <3>1. al[t] = aliases[t]
      BY <2>2 DEF Refreshed
    <3>2. aliases[t] # NoKey
      BY <1>1, <2>2, NoKeyIsFree
    <3>3. aliases[t] \in Named(m, t)
      BY <2>2, <3>2 DEF RegistryInv, Live, Named, Without
    <3> QED
      BY <3>1, <3>2, <3>3
  <2>3. CASE aliases[t] \notin DOMAIN m \cup {NoKey}
    <3>1. IF Named(m, t) = {} THEN al[t] = NoKey ELSE al[t] \in Named(m, t)
      BY <2>3 DEF Refreshed
    <3>2. NoKey \notin Named(m, t)
      BY <1>1, NoKeyIsFree DEF Named
    <3> QED
      BY <2>3, <3>1, <3>2
  <2> QED
    BY <2>1, <2>2, <2>3
<1> QED
  BY <1>3, <1>4 DEF Live

(* A listing makes its own aliases and leaves the others alive. *)
LEMMA PointingIsLive ==
    ASSUME NEW map, NEW al, WellKeyed(map), Live(map, al),
           NEW s \in Server, NEW T \in SUBSET Tool
    PROVE  Live(With(map, s, T), Pointing(al, s, T))
<1> DEFINE pl == Pointing(al, s, T)
<1>1. PICK m : m = With(map, s, T)
  OBVIOUS
<1>2. /\ DOMAIN m = DOMAIN map \cup Keys(s, T)
      /\ \A k \in DOMAIN map : m[k] = map[k]
      /\ \A t \in T : m[Key(s, t)] = [tool |-> t, server |-> s]
  <2>1. ASSUME NEW t \in T PROVE m[Key(s, t)] = [tool |-> t, server |-> s]
    BY <1>1, ListedEntry, Zenon
  <2>2. DOMAIN m = DOMAIN map \cup Keys(s, T) /\ \A k \in DOMAIN map : m[k] = map[k]
    BY <1>1, WithListing
  <2> QED
    BY <2>1, <2>2
<1>3. ASSUME NEW t \in T PROVE Key(s, t) \in Named(m, t)
  <2>1. Key(s, t) \in DOMAIN m
    BY <1>2 DEF Keys
  <2>2. m[Key(s, t)] = [tool |-> t, server |-> s]
    BY <1>2, Zenon
  <2> QED
    BY <2>1, <2>2 DEF Named
<1>4. ASSUME NEW t \in Tool \ T PROVE Named(m, t) = Named(map, t)
  <2>1. ASSUME NEW k \in Keys(s, T) PROVE m[k].tool # t
    <3>1. PICK u \in T : k = Key(s, u)
      BY DEF Keys
    <3>2. m[Key(s, u)] = [tool |-> u, server |-> s]
      BY <1>2, Zenon
    <3> QED
      BY <3>1, <3>2
  <2>2. \A k \in DOMAIN m : k \notin Keys(s, T) => k \in DOMAIN map
    BY <1>2
  <2>3. \A k \in DOMAIN map : k \in DOMAIN m /\ m[k] = map[k]
    BY <1>2
  <2> QED
    BY <2>1, <2>2, <2>3 DEF Named
<1>5. pl \in [Tool -> DOMAIN m \cup {NoKey}]
  BY <1>2 DEF Pointing, Keys, Live
<1>6. \A t \in Tool : pl[t] = IF t \in T THEN Key(s, t) ELSE al[t]
  BY DEF Pointing
<1>7. ASSUME NEW t \in Tool
      PROVE  /\ pl[t] = NoKey => Named(m, t) = {}
             /\ pl[t] # NoKey => pl[t] \in Named(m, t)
  <2>1. CASE t \in T
    BY <2>1, <1>3, <1>6, KeyAssumption
  <2>2. CASE t \notin T
    BY <2>2, <1>4, <1>6 DEF Live
  <2> QED
    BY <2>1, <2>2
<1> QED
  BY <1>1, <1>5, <1>7 DEF Live

-----------------------------------------------------------------------------
LEMMA InitRegistryInv == RegistryInit => RegistryInv
BY DEF RegistryInit, RegistryInv, WellKeyed, Live, Named, Entry

LEMMA StepRegistryInv == RegistryInv /\ [RegistryNext]_registryVars => RegistryInv'
<1> SUFFICES ASSUME RegistryInv, [RegistryNext]_registryVars PROVE RegistryInv'
  OBVIOUS
<1>1. ASSUME NEW s \in Server, NEW T \in SUBSET Tool, AddTools(s, T) PROVE RegistryInv'
  BY <1>1, WithListing, PointingIsLive DEF AddTools, RegistryInv
<1>2. ASSUME NEW s \in Server, NEW T \in SUBSET Tool, ReplaceServerTools(s, T)
      PROVE  RegistryInv'
  <2>1. PICK al \in Refreshed(Without(s)) : aliases' = Pointing(al, s, T)
    BY <1>2 DEF ReplaceServerTools
  <2>2. WellKeyed(Without(s)) /\ Live(Without(s), al)
    BY WithoutServer, RefreshedIsLive DEF RegistryInv
  <2>3. tools' = With(Without(s), s, T)
    BY <1>2 DEF ReplaceServerTools
  <2>4. WellKeyed(With(Without(s), s, T)) /\ Live(With(Without(s), s, T), Pointing(al, s, T))
    BY <2>2, WithListing, PointingIsLive
  <2> QED
    BY <2>1, <2>3, <2>4 DEF RegistryInv
<1>3. ASSUME NEW s \in Server, RemoveServer(s) PROVE RegistryInv'
  BY <1>3, WithoutServer, RefreshedIsLive DEF RemoveServer, RegistryInv
<1>4. CASE Clear
  BY <1>4 DEF Clear, RegistryInv, WellKeyed, Live, Named, Entry
<1>5. CASE UNCHANGED registryVars
  BY <1>5 DEF registryVars, RegistryInv, WellKeyed, Live, Named
<1> QED
  BY <1>1, <1>2, <1>3, <1>4, <1>5 DEF RegistryNext

LEMMA RegistryInductive == RegistrySpec => []RegistryInv
BY InitRegistryInv, StepRegistryInv, PTL DEF RegistrySpec

(* Whatever servers list, list again and lose: every tool is stored under  *)
(* its own key, and every name some server offers has an alias that leads  *)
(* to a tool of that name (ReplaceServerTools, refreshAliasLocked).        *)
THEOREM AliasesStayAlive == RegistrySpec => [](RegistryTypeOK /\ AliasesAreLive)
<1>1. RegistryInv => RegistryTypeOK
  <2> SUFFICES ASSUME RegistryInv PROVE RegistryTypeOK
    OBVIOUS
  <2>1. \A k \in DOMAIN tools : tools[k] \in Entry /\ k = Key(tools[k].server, tools[k].tool)
    BY DEF RegistryInv, WellKeyed
  <2>2. DOMAIN tools \subseteq {Key(s, t) : s \in Server, t \in Tool}
    BY <2>1 DEF Entry
  <2> QED
    BY <2>2 DEF RegistryInv, WellKeyed, Live, RegistryTypeOK, Entry
<1>2. RegistryInv => AliasesAreLive
  BY DEF RegistryInv, WellKeyed, Live, AliasesAreLive
<1> QED
  BY <1>1, <1>2, RegistryInductive, PTL

-----------------------------------------------------------------------------
(* A step that lists T for s and moves no other alias that still leads     *)
(* somewhere gives the answers of the table.                               *)
LEMMA StepAnswers ==
    ASSUME RegistryInv, RegistryInv', NEW s \in Server, NEW T \in SUBSET Tool,
           \A t \in T : aliases'[t] = Key(s, t),
           \A t \in Tool \ T : aliases[t] \in DOMAIN tools' => aliases'[t] = aliases[t]
    PROVE  Table!Answers(s, T)
<1>1. ASSUME NEW t \in Tool
      PROVE  /\ GetTool(t)' = NoServer => \A r \in Server : ~GetServerTool(r, t)'
             /\ GetTool(t)' # NoServer =>
                   GetTool(t)' \in Server /\ aliases'[t] = Key(GetTool(t)', t)
                                          /\ aliases'[t] \in DOMAIN tools'
  <2>1. CASE aliases'[t] = NoKey
    <3>1. Named(tools', t) = {}
      BY <2>1 DEF RegistryInv, Live
    <3>2. \A r \in Server : ~GetServerTool(r, t)'
      BY <3>1, KeyOfEntry DEF GetServerTool, Named, RegistryInv
    <3> QED
      BY <2>1, <3>2 DEF GetTool
  <2>2. CASE aliases'[t] # NoKey
    <3>1. aliases'[t] \in DOMAIN tools' /\ tools'[aliases'[t]].tool = t
      BY <2>2 DEF RegistryInv, Live, Named
    <3>2. GetTool(t)' = tools'[aliases'[t]].server
      BY <2>2 DEF GetTool
    <3>3. GetTool(t)' \in Server /\ aliases'[t] = Key(GetTool(t)', t)
      BY <3>1, <3>2 DEF RegistryInv, WellKeyed, Entry
    <3> QED
      BY <3>1, <3>3, KeyAssumption
  <2> QED
    BY <2>1, <2>2
<1>2. ASSUME NEW t \in T PROVE GetTool(t)' = s
  <2>1. aliases'[t] = Key(s, t) /\ Key(s, t) # NoKey
    BY <1>2, KeyAssumption
  <2>2. Key(s, t) \in DOMAIN tools'
    BY <1>2, <2>1 DEF RegistryInv, Live, Named
  <2> QED
    BY <1>2, <2>1, <2>2, KeyOfEntry DEF GetTool, RegistryInv
<1>3. ASSUME NEW t \in Tool \ T, GetTool(t) # NoServer, Key(GetTool(t), t) \in DOMAIN tools'
      PROVE  GetTool(t)' = GetTool(t)
  <2>1. aliases[t] # NoKey
    BY <1>3 DEF GetTool
  <2>2. aliases[t] \in DOMAIN tools /\ tools[aliases[t]].tool = t
    BY <2>1 DEF RegistryInv, Live, Named
  <2>3. GetTool(t) = tools[aliases[t]].server
    BY <2>1 DEF GetTool
  <2>4. GetTool(t) \in Server /\ aliases[t] = Key(GetTool(t), t)
    BY <2>2, <2>3 DEF RegistryInv, WellKeyed, Entry
  <2>5. aliases[t] \in DOMAIN tools'
    BY <1>3, <2>4
  <2>6. aliases'[t] = aliases[t]
    BY <2>5
  <2>7. tools'[aliases'[t]].server = GetTool(t)
    BY <2>4, <2>5, <2>6, KeyOfEntry DEF RegistryInv
  <2> QED
    BY <2>1, <2>6, <2>7 DEF GetTool
<1>4. ASSUME NEW t \in Tool
      PROVE  /\ GetTool(t)' = NoServer => \A r \in Server : Key(r, t) \notin DOMAIN tools'
             /\ GetTool(t)' # NoServer =>
                   GetTool(t)' \in Server /\ Key(GetTool(t)', t) \in DOMAIN tools'
  BY <1>1 DEF GetServerTool
<1>5. ASSUME NEW t \in Tool, GetTool(t) # NoServer
      PROVE  GetTool(t) \in Server
  BY <1>5 DEF GetTool, RegistryInv, WellKeyed, Entry, Live, Named
<1> QED
  BY <1>2, <1>3, <1>4, <1>5 DEF Table!Answers, GetServerTool

(* The registry implements the table: a look-up finds exactly what is      *)
(* listed, and one server's change leaves the others' tools alone          *)
(* (AddTools, ReplaceServerTools, RemoveServer, Clear).                    *)
THEOREM RegistryImplementsTable == RegistrySpec => RegistryRefinement
<1>1. RegistryInit => Table!TableInit
  BY KeyAssumption DEF RegistryInit, Table!TableInit, GetServerTool, GetTool
<1>2. RegistryInv /\ RegistryInv' /\ [RegistryNext]_registryVars
         => [Table!TableNext]_Table!tableVars
  <2> SUFFICES ASSUME RegistryInv, RegistryInv', [RegistryNext]_registryVars
               PROVE  [Table!TableNext]_Table!tableVars
    OBVIOUS
  <2>1. ASSUME NEW s \in Server, NEW T \in SUBSET Tool, AddTools(s, T)
        PROVE  Table!Offer(s, T)
    <3>1. DOMAIN tools' = DOMAIN tools \cup Keys(s, T)
      BY <2>1, WithListing DEF AddTools, RegistryInv
    <3>2. \A r \in Server, t \in Tool :
             GetServerTool(r, t)' <=> GetServerTool(r, t) \/ (r = s /\ t \in T)
      BY <3>1, KeyAssumption DEF GetServerTool, Keys
    <3>3. /\ \A t \in T : aliases'[t] = Key(s, t)
          /\ \A t \in Tool \ T : aliases'[t] = aliases[t]
      BY <2>1 DEF AddTools, Pointing
    <3>4. Table!Answers(s, T)
      BY <3>3, StepAnswers
    <3> QED
      BY <3>2, <3>4 DEF Table!Offer
  <2>2. ASSUME NEW s \in Server, NEW T \in SUBSET Tool, ReplaceServerTools(s, T)
        PROVE  Table!Replace(s, T)
    <3>1. PICK al \in Refreshed(Without(s)) : aliases' = Pointing(al, s, T)
      BY <2>2 DEF ReplaceServerTools
    <3>2. DOMAIN tools' = DOMAIN Without(s) \cup Keys(s, T)
      BY <2>2, WithListing, WithoutServer DEF ReplaceServerTools, RegistryInv
    <3>3. \A r \in Server, t \in Tool :
             GetServerTool(r, t)' <=> IF r = s THEN t \in T ELSE GetServerTool(r, t)
      <4> TAKE r \in Server, t \in Tool
      <4>1. Key(r, t) \in Keys(s, T) <=> r = s /\ t \in T
        BY KeyAssumption DEF Keys
      <4>2. Key(r, t) \in DOMAIN Without(s) <=> r # s /\ Key(r, t) \in DOMAIN tools
        BY WithoutServer DEF RegistryInv
      <4> QED
        BY <3>2, <4>1, <4>2 DEF GetServerTool
    <3>4. \A t \in T : aliases'[t] = Key(s, t)
      BY <3>1 DEF Pointing
    <3>5. ASSUME NEW t \in Tool \ T, aliases[t] \in DOMAIN tools'
          PROVE  aliases'[t] = aliases[t]
      <4>1. aliases[t] # NoKey
        BY <3>5, NoKeyIsFree DEF RegistryInv
      <4>2. aliases[t] \in DOMAIN tools /\ tools[aliases[t]].tool = t
        BY <4>1 DEF RegistryInv, Live, Named
      <4>3. \A u \in T : aliases[t] # Key(s, u)
        BY <4>2, KeyAssumption DEF RegistryInv, WellKeyed, Entry
      <4>4. aliases[t] \in DOMAIN Without(s)
        BY <3>2, <3>5, <4>3 DEF Keys
      <4> QED
        BY <3>1, <4>4, RefreshedIsLive DEF Pointing
    <3>6. Table!Answers(s, T)
      BY <3>4, <3>5, StepAnswers
    <3> QED
      BY <3>3, <3>6 DEF Table!Replace
  <2>3. ASSUME NEW s \in Server, RemoveServer(s)
        PROVE  Table!Replace(s, {})
    <3>1. \A r \in Server, t \in Tool : GetServerTool(r, t)' <=> r # s /\ GetServerTool(r, t)
      BY <2>3, WithoutServer DEF RemoveServer, RegistryInv, GetServerTool
    <3>2. \A t \in Tool : aliases[t] \in DOMAIN tools' => aliases'[t] = aliases[t]
      BY <2>3, RefreshedIsLive DEF RemoveServer
    <3>3. Table!Answers(s, {})
      BY <3>2, StepAnswers
    <3> QED
      BY <3>1, <3>3 DEF Table!Replace
  <2>4. ASSUME Clear PROVE Table!Empty
    BY <2>4, KeyAssumption DEF Clear, Table!Empty, GetServerTool, GetTool
  <2>5. CASE UNCHANGED registryVars
    BY <2>5 DEF registryVars, Table!tableVars, GetServerTool, GetTool
  <2> QED
    BY <2>1, <2>2, <2>3, <2>4, <2>5 DEF RegistryNext, Table!TableNext
<1> QED
  BY <1>1, <1>2, RegistryInductive, PTL DEF RegistrySpec, RegistryRefinement, Table!TableSpec
=============================================================================
