------------------------- MODULE BranchRelaxProofs -------------------------
(***************************************************************************)
(* Lowering from branch relaxation on is faithful, for every well-formed   *)
(* function, every width of the displacement fields and every number of    *)
(* passes.  Induction rests on the least-number principle, stated for sets.*)
(***************************************************************************)
EXTENDS BranchRelax, WellFoundedInduction, TLAPS

\* Most steps are first-order; those that count or compare name SMT.
USE Zenon

-----------------------------------------------------------------------------
(* Induction and recursion                                                 *)

\* A set of naturals has a least element.
LEMMA Least ==
    ASSUME NEW A \in SUBSET Nat, A # {}
    PROVE  \E m \in A : \A k \in A : m <= k
<1> DEFINE R == {ss \in Nat \X Nat : ss[1] < ss[2]}
<1>1. IsWellFoundedOn(R, Nat)
  BY NatLessThanWellFounded, SMT DEF OpToRel
<1> HIDE DEF R
<1>2. \E x \in A : \A y \in A : ~(<<y, x>> \in R)
  BY <1>1, WFMin
<1>3. PICK x \in A : \A y \in A : ~(<<y, x>> \in R)
  BY <1>2
<1>4. \A y \in A : <<y, x>> \in Nat \X Nat
  OBVIOUS
<1>5. \A y \in A : ~(y < x)
  BY <1>3, <1>4 DEF R
<1> QED  BY <1>5, SMT

\* Induction from 0 to n.
LEMMA UpTo ==
    ASSUME NEW n \in Nat, NEW A, 0 \in A, \A i \in 1..n : i - 1 \in A => i \in A
    PROVE  0..n \subseteq A
<1> DEFINE L == {i \in 0..n : i \notin A}
<1> SUFFICES ASSUME L # {} PROVE FALSE
  OBVIOUS
<1>0. L \in SUBSET Nat
  BY SMT
<1>1. PICK m \in L : \A k \in L : m <= k
  BY <1>0, Least
<1>2. m \in 1..n /\ m - 1 \in 0..n /\ ~(m <= m - 1)
  BY SMT
<1>3. m - 1 \in A
  BY <1>1, <1>2
<1> QED  BY <1>1, <1>2, <1>3

\* Induction from n down to 1.
LEMMA DownTo ==
    ASSUME NEW n \in Nat, NEW A,
           \A i \in 1..n : (\A j \in i + 1 .. n : j \in A) => i \in A
    PROVE  1..n \subseteq A
<1> DEFINE L == {k \in 0..n : k < n /\ n - k \notin A}
<1> SUFFICES ASSUME NEW x \in 1..n, x \notin A PROVE FALSE
  OBVIOUS
<1>1. n - x \in L
  <2>1. n - x \in 0..n /\ n - x < n /\ n - (n - x) = x
    BY SMT
  <2> QED  BY <2>1
<1>0. L \in SUBSET Nat
  BY SMT
<1>2. PICK m \in L : \A k \in L : m <= k
  BY <1>0, <1>1, Least
<1>3. m \in 0..n /\ n - m \in 1..n /\ n - m \notin A
  BY SMT
<1>4. ASSUME NEW j \in n - m + 1 .. n
      PROVE  j \in A
  <2>1. n - j \in 0..n /\ n - j < n /\ n - (n - j) = j /\ ~(m <= n - j)
    BY <1>3, SMT
  <2> QED  BY <1>2, <2>1
<1> QED  BY <1>3, <1>4

\* The functions that the recursion from t by s yields.
Iterates(T, t, n, s) ==
    {g \in [0..n -> T] : g[0] = t /\ \A i \in 1..n : g[i] = s[i][g[i - 1]]}

\* A function defined by recursion from 0 to n exists.
LEMMA Recursion ==
    ASSUME NEW T, NEW t \in T, NEW n \in Nat, NEW s \in [1..n -> [T -> T]]
    PROVE  Iterates(T, t, n, s) # {}
<1> DEFINE Fine(g, k) == g[0] = t /\ \A i \in 1..k : g[i] = s[i][g[i - 1]]
           A == {k \in 0..n : \E g \in [0..n -> T] : Fine(g, k)}
<1>1. 0 \in A
  <2> DEFINE g == [i \in 0..n |-> t]
  <2>1. g \in [0..n -> T] /\ Fine(g, 0) /\ 0 \in 0..n
    BY SMT
  <2> QED  BY <2>1
<1>2. ASSUME NEW k \in 1..n, k - 1 \in A
      PROVE  k \in A
  <2>1. PICK g \in [0..n -> T] : Fine(g, k - 1)
    BY <1>2
  <2> DEFINE h == [g EXCEPT ![k] = s[k][g[k - 1]]]
  <2>2. h \in [0..n -> T] /\ Fine(h, k)
    BY <2>1, SMT
  <2>3. k \in 0..n
    BY SMT
  <2> QED  BY <2>2, <2>3
<1>3. 0..n \subseteq A
  BY <1>1, <1>2, UpTo
<1>4. n \in A
  BY <1>3, SMT
<1> QED  BY <1>4 DEF Iterates

-----------------------------------------------------------------------------
(* What a block emits                                                      *)

\* The recursion of Emitted.
LEMMA EmittedIs ==
    ASSUME NEW block \in Seq(Instructions)
    PROVE  /\ Emitted(block) \in [0..Len(block) -> Seq(Instructions)]
           /\ Emitted(block)[0] = <<>>
           /\ \A i \in 1..Len(block) :
                 Emitted(block)[i] = IF block[i].op = "pseudo" THEN Emitted(block)[i - 1]
                                     ELSE Append(Emitted(block)[i - 1], block[i])
<1> DEFINE n == Len(block)
           Q == Seq(Instructions)
           nil == <<>>
           Next(w, i) == IF block[i].op = "pseudo" THEN w ELSE Append(w, block[i])
           s == [i \in 1..n |-> [w \in Q |-> Next(w, i)]]
<1>0. n \in Nat /\ nil \in Q /\ \A i \in 1..n : \A w \in Q : Next(w, i) \in Q
  BY SMT
<1>1. s \in [1..n -> [Q -> Q]] /\ \A i \in 1..n : \A w \in Q : s[i][w] = Next(w, i)
  BY <1>0
<1>2. \A i \in 1..n : i \in 0..n /\ i - 1 \in 0..n /\ i # 0
  BY SMT
<1>3. \A i \in 0..n : i # 0 => i \in 1..n
  BY SMT
<1> DEFINE Def(w) == [i \in 0..n |-> IF i = 0 THEN nil ELSE Next(w[i - 1], i)]
<1> HIDE DEF s, Q, Next, n, nil
<1>a. n \in Nat /\ nil \in Q /\ s \in [1..n -> [Q -> Q]]
  BY <1>0, <1>1
<1>4. PICK g \in [0..n -> Q] : g[0] = nil /\ \A i \in 1..n : g[i] = s[i][g[i - 1]]
  <2>1. Iterates(Q, nil, n, s) # {}
    BY <1>a, Recursion
  <2> QED  BY <2>1 DEF Iterates
<1>5. \A i \in 1..n : g[i] = Next(g[i - 1], i)
  BY <1>1, <1>2, <1>4
<1>6. \A i \in 0..n : g[i] = IF i = 0 THEN nil ELSE Next(g[i - 1], i)
  BY <1>3, <1>4, <1>5
<1>7. g = Def(g)
  BY <1>6
<1> DEFINE e == Emitted(block)
<1>8. e = Def(e)
  BY <1>7 DEF Emitted, Next, n, nil
<1> HIDE DEF e
<1>9. 0 \in 0..n
  BY <1>0, SMT
<1>10. e[0] = nil /\ \A i \in 1..n : e[i] = Next(e[i - 1], i)
  BY <1>2, <1>8, <1>9
<1> DEFINE A == {i \in 0..n : e[i] \in Q}
<1>11. 0 \in A
  BY <1>0, <1>9, <1>10
<1>12. \A i \in 1..n : i - 1 \in A => i \in A
  BY <1>0, <1>2, <1>10
<1>13. 0..n \subseteq A
  BY <1>0, <1>11, <1>12, UpTo
<1>14. e \in [0..n -> Q]
  BY <1>8, <1>13
<1> QED  BY <1>10, <1>14 DEF e, Next, n, nil, Q

\* Each instruction adds at most one word.
LEMMA EmittedStep ==
    ASSUME NEW block \in Seq(Instructions), NEW i \in 1..Len(block)
    PROVE  /\ i - 1 \in 0..Len(block) /\ i \in 0..Len(block)
           /\ Emitted(block)[i - 1] \in Seq(Instructions)
           /\ Emitted(block)[i] \in Seq(Instructions)
           /\ block[i].op = "pseudo" => Emitted(block)[i] = Emitted(block)[i - 1]
           /\ block[i].op # "pseudo" =>
                 /\ Len(Emitted(block)[i]) = Len(Emitted(block)[i - 1]) + 1
                 /\ Emitted(block)[i][Len(Emitted(block)[i - 1]) + 1] = block[i]
                 /\ \A k \in 1..Len(Emitted(block)[i - 1]) :
                       Emitted(block)[i][k] = Emitted(block)[i - 1][k]
<1> DEFINE e == Emitted(block)
<1>1. /\ e \in [0..Len(block) -> Seq(Instructions)]
      /\ e[i] = IF block[i].op = "pseudo" THEN e[i - 1] ELSE Append(e[i - 1], block[i])
  BY EmittedIs
<1>2. i - 1 \in 0..Len(block) /\ i \in 0..Len(block) /\ block[i] \in Instructions
  BY SMT
<1> HIDE DEF e
<1>3. e[i - 1] \in Seq(Instructions) /\ e[i] \in Seq(Instructions)
  BY <1>1, <1>2
<1>4. ASSUME NEW q \in Seq(Instructions), NEW x \in Instructions
      PROVE  /\ Len(Append(q, x)) = Len(q) + 1 /\ Append(q, x)[Len(q) + 1] = x
             /\ \A k \in 1..Len(q) : Append(q, x)[k] = q[k]
  BY SMT
<1> DEFINE r == Append(e[i - 1], block[i])
<1>5. /\ Len(r) = Len(e[i - 1]) + 1 /\ r[Len(e[i - 1]) + 1] = block[i]
      /\ \A k \in 1..Len(e[i - 1]) : r[k] = e[i - 1][k]
  BY <1>2, <1>3, <1>4
<1>6. (block[i].op = "pseudo" => e[i] = e[i - 1]) /\ (block[i].op # "pseudo" => e[i] = r)
  BY <1>1
<1> HIDE DEF r
<1>7. block[i].op # "pseudo" =>
         /\ Len(e[i]) = Len(e[i - 1]) + 1 /\ e[i][Len(e[i - 1]) + 1] = block[i]
         /\ \A k \in 1..Len(e[i - 1]) : e[i][k] = e[i - 1][k]
  BY <1>5, <1>6
<1> QED  BY <1>2, <1>3, <1>6, <1>7 DEF e

\* The words of a prefix stay where they are.
LEMMA EmittedGrows ==
    ASSUME NEW block \in Seq(Instructions), NEW i \in 0..Len(block)
    PROVE  /\ Len(Emitted(block)[i]) \in Nat
           /\ Len(Emitted(block)[i]) <= Len(Words(block))
           /\ \A k \in 1..Len(Emitted(block)[i]) : Words(block)[k] = Emitted(block)[i][k]
<1> DEFINE e == Emitted(block)
           n == Len(block)
           Within(j) == Len(e[i]) <= Len(e[j]) /\ \A k \in 1..Len(e[i]) : e[j][k] = e[i][k]
           A == {d \in 0..n : i + d <= n => Within(i + d)}
<1>0. n \in Nat /\ i \in Int /\ \A j \in 0..n : e[j] \in Seq(Instructions) /\ Len(e[j]) \in Nat
  <2>1. \A j \in 0..n : e[j] \in Seq(Instructions)
    BY EmittedIs
  <2> QED  BY <2>1, SMT
<1>1. 0 \in A
  BY <1>0, SMT
<1>2. ASSUME NEW d \in 1..n, d - 1 \in A
      PROVE  d \in A
  <2> SUFFICES ASSUME i + d <= n PROVE Within(i + d)
    BY SMT
  <2> DEFINE j == i + d
  <2>1. j \in 1..n /\ j - 1 \in 0..n /\ i + (d - 1) = j - 1 /\ j - 1 <= n
    BY <1>0, SMT
  <2>2. Within(j - 1)
    BY <1>2, <2>1
  <2>3. /\ block[j].op = "pseudo" => e[j] = e[j - 1]
        /\ block[j].op # "pseudo" =>
              /\ Len(e[j]) = Len(e[j - 1]) + 1
              /\ \A k \in 1..Len(e[j - 1]) : e[j][k] = e[j - 1][k]
    BY <2>1, EmittedStep
  <2> HIDE DEF e, j
  <2>a. Len(e[i]) \in Nat /\ Len(e[j - 1]) \in Nat
    BY <1>0, <2>1
  <2>b. /\ Len(e[i]) <= Len(e[j - 1]) + 1
        /\ \A k \in 1..Len(e[i]) : k \in 1..Len(e[j - 1])
    BY <2>2, <2>a, SMT
  <2>4. Within(j)
    BY <2>2, <2>3, <2>b
  <2> QED  BY <2>4 DEF j
<1>3. 0..n \subseteq A
  BY <1>0, <1>1, <1>2, UpTo
<1>4. n - i \in 0..n /\ i + (n - i) = n /\ n <= n
  BY <1>0, SMT
<1>5. Within(n)
  BY <1>3, <1>4
<1> QED  BY <1>0, <1>5 DEF Words

\* An instruction that is emitted stands behind the words of those before it.
LEMMA WordAt ==
    ASSUME NEW block \in Seq(Instructions), NEW i \in 1..Len(block), block[i].op # "pseudo"
    PROVE  /\ Len(Emitted(block)[i - 1]) + 1 \in 1..Len(Words(block))
           /\ Words(block)[Len(Emitted(block)[i - 1]) + 1] = block[i]
<1> DEFINE k == Len(Emitted(block)[i - 1]) + 1
           w == Len(Words(block))
<1>1. /\ i - 1 \in 0..Len(block) /\ i \in 0..Len(block)
      /\ Len(Emitted(block)[i]) = k /\ Emitted(block)[i][k] = block[i]
  BY EmittedStep
<1>2. /\ Len(Emitted(block)[i - 1]) \in Nat /\ k <= w
      /\ \A x \in 1..k : Words(block)[x] = Emitted(block)[i][x]
  BY <1>1, EmittedGrows
<1>3. Words(block) \in Seq(Instructions) /\ Len(block) \in 0..Len(block)
  BY EmittedIs, SMT DEF Words
<1>4. w \in Nat
  BY <1>3, SMT
<1>5. k \in 1..w /\ k \in 1..k
  BY <1>2, <1>4, SMT
<1> QED  BY <1>1, <1>2, <1>5

\* Every word is that of an instruction.
LEMMA WordFrom ==
    ASSUME NEW block \in Seq(Instructions), NEW k \in 1..Len(Words(block))
    PROVE  \E i \in 1..Len(block) :
              block[i].op # "pseudo" /\ k = Len(Emitted(block)[i - 1]) + 1
<1> DEFINE e == Emitted(block)
           n == Len(block)
           From(x) == \E i \in 1..n : block[i].op # "pseudo" /\ x = Len(e[i - 1]) + 1
           A == {m \in 0..n : \A x \in 1..Len(e[m]) : From(x)}
<1>0. n \in Nat /\ n \in 0..n /\ 0 \in 0..n
  BY SMT
<1>1. 0 \in A
  <2>1. 1..Len(<<>>) = {}
    BY SMT
  <2> QED  BY <1>0, <2>1, EmittedIs
<1>2. ASSUME NEW m \in 1..n, m - 1 \in A
      PROVE  m \in A
  <2>1. /\ m - 1 \in 0..n /\ m \in 0..n
        /\ block[m].op = "pseudo" => e[m] = e[m - 1]
        /\ block[m].op # "pseudo" => Len(e[m]) = Len(e[m - 1]) + 1
        /\ Len(e[m - 1]) \in Nat
    BY EmittedStep, EmittedGrows
  <2>2. \A x \in 1..Len(e[m - 1]) : From(x)
    BY <1>2
  <2>3. block[m].op # "pseudo" => From(Len(e[m - 1]) + 1)
    OBVIOUS
  <2> HIDE DEF From, e
  <2>4. \A x \in 1..Len(e[m]) : From(x)
    BY <2>1, <2>2, <2>3, SMT
  <2> QED  BY <2>1, <2>4
<1>3. 0..n \subseteq A
  BY <1>0, <1>1, <1>2, UpTo
<1> QED  BY <1>0, <1>3 DEF Words

\* How much is emitted depends only on which instructions are pseudo.
LEMMA EmittedAlike ==
    ASSUME NEW p \in Seq(Instructions), NEW q \in Seq(Instructions), Len(p) = Len(q),
           \A i \in 1..Len(p) : p[i].op = q[i].op
    PROVE  \A i \in 0..Len(p) : Len(Emitted(p)[i]) = Len(Emitted(q)[i])
<1> DEFINE n == Len(p)
           A == {m \in 0..n : Len(Emitted(p)[m]) = Len(Emitted(q)[m])}
<1>0. n \in Nat /\ 0 \in 0..n
  BY SMT
<1>1. 0 \in A
  BY <1>0, EmittedIs
<1>2. ASSUME NEW m \in 1..n, m - 1 \in A
      PROVE  m \in A
  <2>1. /\ m \in 0..n
        /\ p[m].op = "pseudo" => Emitted(p)[m] = Emitted(p)[m - 1]
        /\ p[m].op # "pseudo" => Len(Emitted(p)[m]) = Len(Emitted(p)[m - 1]) + 1
    BY EmittedStep
  <2>2. /\ q[m].op = "pseudo" => Emitted(q)[m] = Emitted(q)[m - 1]
        /\ q[m].op # "pseudo" => Len(Emitted(q)[m]) = Len(Emitted(q)[m - 1]) + 1
    BY EmittedStep
  <2> QED  BY <1>2, <2>1, <2>2
<1> QED  BY <1>0, <1>1, <1>2, UpTo

\* A block without pseudo instructions is emitted as it is.
LEMMA EmittedPlainly ==
    ASSUME NEW block \in Seq(Instructions), \A i \in 1..Len(block) : block[i].op # "pseudo"
    PROVE  \A i \in 0..Len(block) : Len(Emitted(block)[i]) = i
<1> DEFINE n == Len(block)
           A == {m \in 0..n : Len(Emitted(block)[m]) = m}
<1>0. n \in Nat /\ 0 \in 0..n /\ Len(<<>>) = 0
  BY SMT
<1>1. 0 \in A
  BY <1>0, EmittedIs
<1>2. ASSUME NEW m \in 1..n, m - 1 \in A
      PROVE  m \in A
  <2>1. m \in 0..n /\ Len(Emitted(block)[m]) = Len(Emitted(block)[m - 1]) + 1
    BY EmittedStep
  <2>2. Len(Emitted(block)[m - 1]) = m - 1 /\ m - 1 + 1 = m
    BY <1>2, SMT
  <2> QED  BY <2>1, <2>2
<1> QED  BY <1>0, <1>1, <1>2, UpTo

-----------------------------------------------------------------------------
(* Offsets and ranges                                                      *)

\* Running sums exist.
LEMMA Sums ==
    ASSUME NEW n \in Nat, NEW size \in [1..n -> Nat]
    PROVE  \E w \in [1..n + 1 -> Nat] :
              w[1] = 0 /\ \A b \in 1..n : w[b + 1] = w[b] + size[b]
<1> DEFINE s == [b \in 1..n |-> [x \in Nat |-> x + size[b]]]
<1>1. /\ s \in [1..n -> [Nat -> Nat]] /\ 0 \in Nat
      /\ \A b \in 1..n : \A x \in Nat : s[b][x] = x + size[b]
  BY SMT
<1> HIDE DEF s
<1>2. PICK g \in [0..n -> Nat] : g[0] = 0 /\ \A i \in 1..n : g[i] = s[i][g[i - 1]]
  <2>1. Iterates(Nat, 0, n, s) # {}
    BY <1>1, Recursion
  <2> QED  BY <2>1 DEF Iterates
<1> DEFINE w == [b \in 1..n + 1 |-> g[b - 1]]
<1>3. w \in [1..n + 1 -> Nat] /\ w[1] = 0
  BY <1>2, SMT
<1>4. \A b \in 1..n : g[b] = g[b - 1] + size[b]
  <2>1. \A b \in 1..n : g[b - 1] \in Nat
    BY <1>2, SMT
  <2> QED  BY <1>1, <1>2, <2>1
<1>5. \A b \in 1..n : w[b + 1] = w[b] + size[b]
  <2>1. \A b \in 1..n : w[b] = g[b - 1]
    BY SMT
  <2>2. \A b \in 1..n : w[b + 1] = g[b]
    BY SMT
  <2> QED  BY <1>4, <2>1, <2>2
<1> QED  BY <1>3, <1>5

\* compute_block_offsets in words: a block starts where the one before it ends.
LEMMA OffsetsAre ==
    ASSUME NEW func \in Seq(Seq(Instructions))
    PROVE  \E w \in [1..Len(func) + 1 -> Nat] :
              /\ w[1] = 0
              /\ \A b \in 1..Len(func) : w[b + 1] = w[b] + Len(Words(func[b]))
              /\ \A b \in 1..Len(func) + 1 : BlockOffsets(func)[b] = 4 * w[b]
<1> DEFINE n == Len(func)
           Size(b) == Len(Words(func[b]))
<1>0. n \in Nat /\ \A b \in 1..n : func[b] \in Seq(Instructions) /\ Len(func[b]) \in 0..Len(func[b])
  BY SMT
<1>1. \A b \in 1..n : Words(func[b]) \in Seq(Instructions)
  BY <1>0, EmittedIs DEF Words
<1>2. \A b \in 1..n : Size(b) \in Nat
  BY <1>1, SMT
<1> DEFINE size == [b \in 1..n |-> Size(b)]
<1> HIDE DEF n, Size
<1>3. size \in [1..n -> Nat] /\ \A b \in 1..n : size[b] = Size(b)
  BY <1>2
<1> HIDE DEF size
<1>4. PICK w \in [1..n + 1 -> Nat] : w[1] = 0 /\ \A b \in 1..n : w[b + 1] = w[b] + size[b]
  BY <1>0, <1>3, Sums
<1>5. w \in [1..n + 1 -> Nat] /\ w[1] = 0
  BY <1>4
<1>6. \A b \in 1..n : w[b + 1] = w[b] + Size(b)
  BY <1>3, <1>4
<1> DEFINE f == [b \in 1..n + 1 |-> 4 * w[b]]
           Entry(v, b) == IF b = 1 THEN 0 ELSE v[b - 1] + 4 * Size(b - 1)
           Def(v) == [b \in 1..n + 1 |-> Entry(v, b)]
<1>7. \A b \in 1..n + 1 : f[b] = Entry(f, b)
  <2> TAKE b \in 1..n + 1
  <2>1. CASE b = 1
    BY <1>0, <1>5, <2>1, SMT
  <2>2. CASE b # 1
    <3>1. b - 1 \in 1..n /\ b - 1 + 1 = b /\ b - 1 \in 1..n + 1
      BY <1>0, <2>2, SMT
    <3>2. w[b] = w[b - 1] + Size(b - 1)
      BY <1>6, <3>1
    <3>3. w[b - 1] \in Nat /\ Size(b - 1) \in Nat
      BY <1>2, <1>5, <3>1
    <3>4. 4 * w[b] = 4 * w[b - 1] + 4 * Size(b - 1)
      BY <3>2, <3>3, SMT
    <3> QED  BY <2>2, <3>1, <3>4
  <2> QED  BY <2>1, <2>2
<1> HIDE DEF Entry
<1>8. f = Def(f)
  BY <1>7
<1> DEFINE o == BlockOffsets(func)
<1> HIDE DEF f
<1>9. o = Def(o)
  BY <1>8 DEF BlockOffsets, BlockSize, Entry, Size, n
<1> HIDE DEF o
<1> DEFINE A == {i \in 0..n : o[i + 1] = 4 * w[i + 1]}
<1>10. \A b \in 1..n + 1 : o[b] = Entry(o, b)
  BY <1>9
<1>11. 0 \in A
  <2>1. 0 \in 0..n /\ 0 + 1 = 1 /\ 1 \in 1..n + 1 /\ 4 * 0 = 0
    BY <1>0, SMT
  <2> QED  BY <1>5, <1>10, <2>1 DEF Entry
<1>12. ASSUME NEW i \in 1..n, i - 1 \in A PROVE i \in A
  <2>1. i \in 0..n /\ i + 1 \in 1..n + 1 /\ i + 1 # 1 /\ i + 1 - 1 = i /\ i - 1 + 1 = i
    BY <1>0, SMT
  <2>a. o[i + 1] = Entry(o, i + 1) /\ o[i - 1 + 1] = 4 * w[i - 1 + 1]
    BY <1>10, <1>12, <2>1
  <2>b. Entry(o, i + 1) = o[i + 1 - 1] + 4 * Size(i + 1 - 1)
    BY <2>1, SMT DEF Entry
  <2>2. o[i] = 4 * w[i] /\ o[i + 1] = o[i] + 4 * Size(i)
    BY <2>a, <2>b, <2>1
  <2>3. w[i + 1] = w[i] + Size(i) /\ Size(i) \in Nat /\ w[i] \in Nat
    BY <1>0, <1>2, <1>5, <1>6, SMT
  <2>4. o[i + 1] = 4 * w[i + 1]
    BY <2>2, <2>3, SMT
  <2> QED  BY <2>1, <2>4
<1>13. 0..n \subseteq A
  BY <1>0, <1>11, <1>12, UpTo
<1>14. \A b \in 1..n + 1 : o[b] = 4 * w[b]
  <2> TAKE b \in 1..n + 1
  <2>1. b - 1 \in 0..n /\ b - 1 + 1 = b
    BY <1>0, SMT
  <2> QED  BY <1>13, <2>1
<1> QED  BY <1>5, <1>6, <1>14 DEF Size, n, o

\* Offsets grow with the blocks.
LEMMA OffsetsGrow ==
    ASSUME NEW n \in Nat, NEW w \in [1..n + 1 -> Nat],
           \A b \in 1..n : w[b] <= w[b + 1]
    PROVE  \A a, b \in 1..n + 1 : a <= b => w[a] <= w[b]
<1> SUFFICES ASSUME NEW a \in 1..n + 1 PROVE \A b \in 1..n + 1 : a <= b => w[a] <= w[b]
  OBVIOUS
<1> DEFINE A == {d \in 0..n : a + d <= n + 1 => w[a] <= w[a + d]}
<1>1. 0 \in A
  BY SMT
<1>2. ASSUME NEW d \in 1..n, d - 1 \in A
      PROVE  d \in A
  <2> SUFFICES ASSUME a + d <= n + 1 PROVE w[a] <= w[a + d]
    BY SMT
  <2>1. /\ a + (d - 1) <= n + 1 /\ a + (d - 1) \in 1..n /\ a + (d - 1) + 1 = a + d
        /\ a + d \in 1..n + 1 /\ a + (d - 1) \in 1..n + 1
    BY SMT
  <2>2. w[a] <= w[a + (d - 1)] /\ w[a + (d - 1)] <= w[a + (d - 1) + 1]
    BY <1>2, <2>1
  <2>3. w[a] <= w[a + (d - 1)] /\ w[a + (d - 1)] <= w[a + d]
    BY <2>1, <2>2
  <2>4. w[a] \in Nat /\ w[a + (d - 1)] \in Nat /\ w[a + d] \in Nat
    BY <2>1
  <2> QED  BY <2>3, <2>4, SMT
<1>3. 0..n \subseteq A
  BY <1>1, <1>2, UpTo
<1>4. ASSUME NEW b \in 1..n + 1, a <= b
      PROVE  w[a] <= w[b]
  <2>1. b - a \in 0..n /\ a + (b - a) = b /\ b <= n + 1
    BY <1>4, SMT
  <2> QED  BY <1>3, <2>1
<1> QED  BY <1>4

\* Running sums of the same sizes are the same.
LEMMA SumsAlike ==
    ASSUME NEW n \in Nat, NEW v, NEW w, v[1] = w[1],
           \A b \in 1..n : v[b] = w[b] => v[b + 1] = w[b + 1]
    PROVE  \A b \in 1..n + 1 : v[b] = w[b]
<1> DEFINE A == {i \in 0..n : v[i + 1] = w[i + 1]}
<1>1. 0 \in A
  <2>1. 0 \in 0..n /\ 0 + 1 = 1
    BY SMT
  <2> QED  BY <2>1
<1>2. ASSUME NEW i \in 1..n, i - 1 \in A
      PROVE  i \in A
  <2>1. i \in 0..n /\ i - 1 + 1 = i
    BY SMT
  <2>2. v[i] = w[i]
    BY <1>2, <2>1
  <2> QED  BY <2>1, <2>2
<1>3. 0..n \subseteq A
  BY <1>1, <1>2, UpTo
<1> SUFFICES ASSUME NEW b \in 1..n + 1 PROVE v[b] = w[b]
  OBVIOUS
<1>4. b - 1 \in 0..n /\ b - 1 + 1 = b
  BY SMT
<1> QED  BY <1>3, <1>4

\* 1 << n by recursion.
LEMMA ShlIs ==
    /\ Shl[0] = 1
    /\ \A n \in Nat : Shl[n + 1] = 2 * Shl[n]
<1> DEFINE Pow(g, n) == g \in [0..n -> Nat] /\ g[0] = 1 /\ \A i \in 1..n : g[i] = 2 * g[i - 1]
           G(n) == CHOOSE g : Pow(g, n)
<1>1. ASSUME NEW n \in Nat
      PROVE  Pow(G(n), n)
  <2> DEFINE s == [i \in 1..n |-> [x \in Nat |-> 2 * x]]
  <2>1. s \in [1..n -> [Nat -> Nat]] /\ 1 \in Nat /\ \A i \in 1..n : \A x \in Nat : s[i][x] = 2 * x
    BY SMT
  <2> HIDE DEF s
  <2>2. Iterates(Nat, 1, n, s) # {}
    BY <2>1, Recursion
  <2>3. PICK g \in [0..n -> Nat] : g[0] = 1 /\ \A i \in 1..n : g[i] = s[i][g[i - 1]]
    BY <2>2 DEF Iterates
  <2>4. \A i \in 1..n : g[i - 1] \in Nat
    BY SMT
  <2>5. Pow(g, n)
    BY <2>1, <2>3, <2>4
  <2> HIDE DEF Pow
  <2> QED  BY <2>5
<1> DEFINE h == [n \in Nat |-> G(n)[n]]
<1>2. ASSUME NEW n \in Nat
      PROVE  h[n + 1] = 2 * h[n]
  <2> DEFINE g == G(n + 1)
             f == G(n)
             A == {i \in 0..n : g[i] = f[i]}
  <2>0. n + 1 \in Nat /\ n + 1 \in 1..n + 1 /\ n + 1 - 1 = n /\ n \in 0..n /\ 0 \in 0..n
    BY SMT
  <2>1. Pow(g, n + 1) /\ Pow(f, n)
    BY <1>1, <2>0
  <2> HIDE DEF g, f
  <2>2. 0 \in A
    BY <2>0, <2>1
  <2>3. ASSUME NEW i \in 1..n, i - 1 \in A PROVE i \in A
    <3>1. i \in 1..n + 1 /\ i \in 0..n
      BY SMT
    <3> QED  BY <2>1, <2>3, <3>1
  <2>4. 0..n \subseteq A
    BY <2>2, <2>3, UpTo
  <2> DEFINE m == n + 1
  <2>a. m \in Nat /\ m \in 1..m /\ m - 1 = n
    BY SMT
  <2>b. Pow(g, m)
    BY <2>1
  <2> HIDE DEF m
  <2>5. m \in Nat /\ m \in 1..m /\ m - 1 = n /\ Pow(g, m)
    BY <2>a, <2>b
  <2>6. g[m] = 2 * f[n]
    BY <2>0, <2>4, <2>5
  <2>7. h[m] = G(m)[m] /\ h[n] = G(n)[n]
    BY <2>5
  <2>8. g = G(m) /\ f = G(n)
    BY DEF g, f, m
  <2> HIDE DEF h, G
  <2>9. h[m] = 2 * h[n]
    BY <2>6, <2>7, <2>8
  <2> QED  BY <2>9 DEF m
<1>3. h[0] = 1
  <2>1. 0 \in Nat
    BY SMT
  <2> QED  BY <1>1, <2>1
<1> HIDE DEF h
<1> DEFINE Def(g) == [n \in Nat |-> IF n = 0 THEN 1 ELSE 2 * g[n - 1]]
<1>4. \A n \in Nat : h[n] = IF n = 0 THEN 1 ELSE 2 * h[n - 1]
  <2> TAKE n \in Nat
  <2>1. n # 0 => n - 1 \in Nat /\ n - 1 + 1 = n
    BY SMT
  <2> QED  BY <1>2, <1>3, <2>1
<1>5. h = Def(h)
  <2>1. \A n \in Nat : Def(h)[n] = h[n]
    BY <1>4
  <2>2. \A n \in Nat : Def(h)[n] = G(n)[n]
    BY <2>1 DEF h
  <2> HIDE DEF G
  <2>3. Def(h) = [n \in Nat |-> G(n)[n]]
    BY <2>2
  <2> QED  BY <2>3 DEF h
<1>6. Shl = Def(Shl)
  BY <1>5 DEF Shl
<1>7. \A n \in Nat : Shl[n] = IF n = 0 THEN 1 ELSE 2 * Shl[n - 1]
  BY <1>6
<1>8. Shl[0] = 1
  <2>1. 0 \in Nat
    BY SMT
  <2> QED  BY <1>7, <2>1
<1>9. ASSUME NEW n \in Nat
      PROVE  Shl[n + 1] = 2 * Shl[n]
  <2> DEFINE m == n + 1
  <2>1. m \in Nat /\ m # 0 /\ m - 1 = n
    BY SMT
  <2> HIDE DEF m
  <2>2. Shl[m] = 2 * Shl[m - 1]
    BY <1>7, <2>1
  <2>3. Shl[m] = 2 * Shl[n]
    BY <2>1, <2>2
  <2> QED  BY <2>3 DEF m
<1> QED  BY <1>8, <1>9

\* in_range, in bytes, and branch_offset_signed, in words, agree; a displacement
\* of two words always fits.
LEMMA RangesAgree ==
    ASSUME NEW op \in BranchOps, NEW k \in Int
    PROVE  /\ InRange(op, 4 * k) => k \in -Shl[Bits[op] - 1] .. Shl[Bits[op] - 1] - 1
           /\ 2 \in -Shl[Bits[op] - 1] .. Shl[Bits[op] - 1] - 1
<1> DEFINE m == Bits[op] - 1
           A == {i \in 0..m : Shl[i] \in Nat /\ Shl[i] >= 1 /\ (i >= 1 => Shl[i] >= 2)
                               /\ (i >= 2 => Shl[i] >= 4)}
<1>1. m \in Nat /\ m >= 2 /\ Bits[op] + 1 = m + 1 + 1
  BY RelaxAssumption, SMT
<1> HIDE DEF m
<1>2. 0 \in A
  BY <1>1, ShlIs, SMT
<1>3. ASSUME NEW i \in 1..m, i - 1 \in A
      PROVE  i \in A
  <2>1. i - 1 \in Nat /\ i - 1 + 1 = i
    BY SMT
  <2>2. Shl[i] = 2 * Shl[i - 1]
    BY <2>1, ShlIs
  <2> QED  BY <1>3, <2>2, SMT
<1>4. 0..m \subseteq A
  BY <1>1, <1>2, <1>3, UpTo
<1>5. Shl[m] \in Nat /\ Shl[m] >= 4
  BY <1>1, <1>4, SMT
<1>6. m + 1 \in Nat
  BY <1>1, SMT
<1>7. Shl[m + 1] = 2 * Shl[m] /\ Shl[m + 1 + 1] = 2 * Shl[m + 1]
  BY <1>1, <1>6, ShlIs
<1>8. Shl[Bits[op] + 1] = 4 * Shl[m]
  <2>1. Shl[m + 1 + 1] = 4 * Shl[m]
    BY <1>5, <1>7, SMT
  <2> QED  BY <1>1, <2>1
<1> DEFINE p == Shl[m]
           q == Shl[Bits[op] + 1]
<1>9. p \in Nat /\ p >= 4 /\ q = 4 * p
  BY <1>5, <1>8
<1>10. InRange(op, 4 * k) => 4 * k >= -q /\ 4 * k <= q - 4
  BY DEF InRange
<1> HIDE DEF p, q
<1>11. (4 * k >= -q /\ 4 * k <= q - 4 => k \in -p .. p - 1) /\ 2 \in -p .. p - 1
  BY <1>9, SMT
<1> QED  BY <1>10, <1>11 DEF p, m

-----------------------------------------------------------------------------
(* Runs of a block                                                         *)

\* No branch goes on in its block at or before itself.
Forward(block, holds, inner) ==
    \A i \in 1..Len(block) :
        Taken(block[i], holds) => inner[i] = 0 \/ inner[i] \in i + 1 .. Len(block) + 1

\* A run from i depends only on runs from behind i.
LEMMA RunLocal ==
    ASSUME NEW block \in Seq(Instructions), NEW holds, NEW inner, NEW outer, NEW next,
           Forward(block, holds, inner),
           NEW r, NEW s, NEW i \in 1..Len(block) + 1,
           \A j \in i + 1 .. Len(block) + 1 : r[j] = s[j]
    PROVE  RunFrom(block, holds, inner, outer, next, r, i)
             = RunFrom(block, holds, inner, outer, next, s, i)
<1>1. CASE i = Len(block) + 1
  BY <1>1 DEF RunFrom
<1>2. CASE i # Len(block) + 1
  <2>1. i \in 1..Len(block) /\ i + 1 \in i + 1 .. Len(block) + 1
    BY <1>2, SMT
  <2>2. r[i + 1] = s[i + 1]
    BY <2>1
  <2>3. Taken(block[i], holds) /\ inner[i] # 0 => r[inner[i]] = s[inner[i]]
    BY <2>1 DEF Forward
  <2> QED  BY <1>2, <2>2, <2>3 DEF RunFrom
<1> QED  BY <1>1, <1>2

\* run[i] is what the block does from i.
IsRun(block, holds, inner, outer, next, run) ==
    /\ RunBlock(block, holds, inner, outer, next) = run[1]
    /\ \A i \in 1..Len(block) + 1 :
          run[i] = RunFrom(block, holds, inner, outer, next, run, i)

\* The recursion of RunBlock.
LEMMA RunIs ==
    ASSUME NEW block \in Seq(Instructions), NEW holds, NEW inner, NEW outer, NEW next,
           Forward(block, holds, inner)
    PROVE  \E run : IsRun(block, holds, inner, outer, next, run)
<1> DEFINE n == Len(block) + 1
           Step(r, i) == RunFrom(block, holds, inner, outer, next, r, i)
           Fine(r, k) == \A i \in n - k + 1 .. n : r[i] = Step(r, i)
           A == {k \in 0..n : \E r : Fine(r, k)}
<1>0. n \in Nat
  BY SMT
<1>1. \A r, s : \A i \in 1..n : (\A j \in i + 1 .. n : r[j] = s[j]) => Step(r, i) = Step(s, i)
  <2> SUFFICES ASSUME NEW r, NEW s, NEW i \in 1..n, \A j \in i + 1 .. n : r[j] = s[j]
               PROVE  Step(r, i) = Step(s, i)
    OBVIOUS
  <2> QED  BY RunLocal
<1> HIDE DEF n, Step
<1>2. 0 \in A
  <2>1. 0 \in 0..n /\ n - 0 + 1 .. n = {}
    BY <1>0, SMT
  <2> QED  BY <2>1
<1>3. ASSUME NEW k \in 1..n, k - 1 \in A
      PROVE  k \in A
  <2>1. PICK r : Fine(r, k - 1)
    BY <1>3
  <2> DEFINE c == n - k + 1
             s == [i \in 1..n |-> IF i = c THEN Step(r, c) ELSE r[i]]
  <2>2. c \in 1..n /\ n - (k - 1) + 1 = c + 1 /\ k \in 0..n
    BY <1>0, SMT
  <2>3. \A i \in c .. n : i \in 1..n /\ (i # c => i \in c + 1 .. n)
                          /\ \A j \in i + 1 .. n : j \in 1..n /\ j # c
    BY <1>0, SMT
  <2>r. \A i \in c + 1 .. n : r[i] = Step(r, i)
    BY <2>1, <2>2
  <2> HIDE DEF c
  <2>4. s[c] = Step(r, c) /\ \A i \in 1..n : i # c => s[i] = r[i]
    BY <2>2
  <2> HIDE DEF s
  <2>5. ASSUME NEW i \in c .. n
        PROVE  Step(s, i) = Step(r, i)
    <3>1. \A j \in i + 1 .. n : s[j] = r[j]
      BY <2>3, <2>4
    <3>2. i \in 1..n
      BY <2>3
    <3> QED  BY <1>1, <3>1, <3>2
  <2>6. \A i \in c .. n : s[i] = Step(s, i)
    BY <2>3, <2>4, <2>5, <2>r
  <2>7. Fine(s, k)
    BY <2>6 DEF c
  <2> QED  BY <2>2, <2>7
<1>4. 0..n \subseteq A
  BY <1>0, <1>2, <1>3, UpTo
<1>5. n \in 0..n /\ n - n + 1 = 1
  BY <1>0, SMT
<1>6. PICK r : \A i \in 1..n : r[i] = Step(r, i)
  BY <1>4, <1>5
<1> DEFINE g == [i \in 1..n |-> r[i]]
           Def(f) == [i \in 1..n |-> Step(f, i)]
<1>7. \A i \in 1..n : \A j \in i + 1 .. n : j \in 1..n
  BY <1>0, SMT
<1>8. \A i \in 1..n : g[i] = r[i]
  OBVIOUS
<1> HIDE DEF g
<1>9. \A i \in 1..n : Step(g, i) = Step(r, i)
  BY <1>1, <1>7, <1>8
<1>10. \A i \in 1..n : Step(g, i) = r[i]
  BY <1>6, <1>9
<1>11. g = Def(g)
  BY <1>10 DEF g
<1> DEFINE run == CHOOSE f : f = Def(f)
<1>12. run = Def(run)
  BY <1>11
<1>13. RunBlock(block, holds, inner, outer, next) = run[1]
  BY DEF RunBlock, Step, n
<1> HIDE DEF run
<1>14. \A i \in 1..n : run[i] = Step(run, i)
  BY <1>12
<1>15. IsRun(block, holds, inner, outer, next, run)
  BY <1>13, <1>14 DEF IsRun, Step, n
<1> QED  BY <1>15

-----------------------------------------------------------------------------
(* relax_one_branch                                                        *)

\* The conditional branches of a block.
Conditional(block) == {i \in 1..Len(block) : block[i].op \in {"bcond", "tbz"}}

\* The fields of an instruction.
LEMMA Fields ==
    ASSUME NEW x \in Instructions
    PROVE  /\ x.op \in {"b", "bcond", "tbz", "plain", "pseudo", "brk"}
           /\ x.id \in Nat /\ x.cond \in Nat /\ x.sense \in BOOLEAN
           /\ x.target \in Nat /\ x.imm \in Int
  BY DEF Instructions, BranchOps

\* x skips the next instruction.
IsSkip(x, op, cond, sense) ==
    /\ x \in Instructions /\ x.op = op /\ x.cond = cond /\ x.sense = sense
    /\ x.target = NoBlock /\ x.imm = 2

\* The conditional branch that relax_one_branch emits.
LEMMA SkipNextIs ==
    ASSUME NEW op \in BranchOps, NEW cond \in Nat, NEW sense \in BOOLEAN
    PROVE  IsSkip(SkipNext(op, cond, sense), op, cond, sense)
<1>1. SkipNext(op, cond, sense) =
        [op |-> op, id |-> 0, cond |-> cond, sense |-> sense, target |-> NoBlock, imm |-> 2]
  BY SMT DEF SkipNext, Cond
<1>2. 0 \in Nat /\ 2 \in Int /\ NoBlock \in Nat
  BY SMT DEF NoBlock
<1> QED  BY <1>1, <1>2, SMT DEF IsSkip, Instructions, BranchOps

\* The B that relax_one_branch emits.
LEMMA BIs ==
    ASSUME NEW target \in Nat
    PROVE  B(target) \in Instructions /\ B(target).op = "b" /\ B(target).target = target
  BY SMT DEF B, Cond, Instructions, BranchOps

\* st is s with t behind it.
IsConcat(S, s, t, st) ==
    /\ st \in Seq(S) /\ Len(st) = Len(s) + Len(t)
    /\ \A i \in 1..Len(s) : st[i] = s[i]
    /\ \A i \in 1..Len(t) : st[Len(s) + i] = t[i]

\* Where concatenation puts what.
LEMMA ConcatIs ==
    ASSUME NEW S, NEW s \in Seq(S), NEW t \in Seq(S)
    PROVE  IsConcat(S, s, t, s \o t)
  BY SMT DEF IsConcat

\* p is s with x and y in place of its c-th element.
IsSplice(S, s, c, x, y, p) ==
    /\ p \in Seq(S) /\ Len(p) = Len(s) + 1
    /\ p[c] = x /\ p[c + 1] = y
    /\ \A i \in 1 .. c - 1 : p[i] = s[i]
    /\ \A i \in c + 1 .. Len(s) : p[i + 1] = s[i]

\* Where two elements that replace one go.
LEMMA SpliceIs ==
    ASSUME NEW S, NEW s \in Seq(S), NEW c \in 1..Len(s), NEW x \in S, NEW y \in S
    PROVE  IsSplice(S, s, c, x, y,
                    SubSeq(s, 1, c - 1) \o <<x, y>> \o SubSeq(s, c + 1, Len(s)))
<1> DEFINE n == Len(s)
           h == SubSeq(s, 1, c - 1)
           t == SubSeq(s, c + 1, n)
           m == <<x, y>>
<1>1. h \in Seq(S) /\ Len(h) = c - 1 /\ \A i \in 1 .. c - 1 : h[i] = s[i]
  BY SMT
<1>2. t \in Seq(S) /\ Len(t) = n - c /\ \A i \in 1 .. n - c : t[i] = s[i + c]
  BY SMT
<1>3. m \in Seq(S) /\ Len(m) = 2 /\ m[1] = x /\ m[2] = y
  BY SMT
<1>4. n \in Nat /\ c \in 1..n
  BY SMT
<1> HIDE DEF h, m, t, n
<1> DEFINE hm == h \o m
<1>5. /\ hm \in Seq(S) /\ Len(hm) = c + 1 /\ hm[c] = x /\ hm[c + 1] = y
      /\ \A i \in 1 .. c - 1 : hm[i] = h[i]
  <2>1. IsConcat(S, h, m, hm)
    BY <1>1, <1>3, ConcatIs
  <2> HIDE DEF hm
  <2>2. /\ hm \in Seq(S) /\ Len(hm) = c - 1 + 2
        /\ \A i \in 1 .. c - 1 : hm[i] = h[i]
        /\ \A i \in 1..2 : hm[c - 1 + i] = m[i]
    BY <1>1, <1>3, <2>1 DEF IsConcat
  <2> QED  BY <1>3, <1>4, <2>2, SMT
<1> DEFINE p == hm \o t
<1> HIDE DEF hm
<1>7. /\ p \in Seq(S) /\ Len(p) = n + 1
      /\ \A i \in 1 .. c + 1 : p[i] = hm[i]
      /\ \A i \in 1 .. n - c : p[c + 1 + i] = t[i]
  <2>1. IsConcat(S, hm, t, p)
    BY <1>2, <1>5, ConcatIs
  <2> HIDE DEF p
  <2>2. c + 1 + (n - c) = n + 1
    BY <1>4, SMT
  <2> QED  BY <1>2, <1>5, <2>1, <2>2 DEF IsConcat
<1> HIDE DEF p
<1>8. p[c] = x /\ p[c + 1] = y
  BY <1>4, <1>5, <1>7, SMT
<1>9. \A i \in 1 .. c - 1 : p[i] = s[i]
  BY <1>1, <1>4, <1>5, <1>7, SMT
<1>10. ASSUME NEW i \in c + 1 .. n
       PROVE  p[i + 1] = s[i]
  <2>1. c + 1 + (i - c) = i + 1 /\ i - c \in 1 .. n - c /\ i - c + c = i
    BY <1>4, SMT
  <2>2. p[c + 1 + (i - c)] = t[i - c] /\ t[i - c] = s[i - c + c]
    BY <1>2, <1>7, <2>1
  <2> QED  BY <2>1, <2>2
<1>11. IsSplice(S, s, c, x, y, p)
  BY <1>7, <1>8, <1>9, <1>10 DEF IsSplice, n
<1> QED  BY <1>11 DEF p, hm, h, m, t, n

\* p is block with its c-th instruction inverted to skip a B to its target.
IsRelaxed(block, c, p) ==
    /\ p \in Seq(Instructions) /\ Len(p) = Len(block) + 1
    /\ p[c].op = block[c].op /\ p[c].cond = block[c].cond /\ p[c].sense = ~block[c].sense
    /\ p[c].target = NoBlock /\ p[c].imm = 2
    /\ p[c + 1].op = "b" /\ p[c + 1].target = block[c].target
    /\ \A i \in 1 .. c - 1 : p[i] = block[i]
    /\ \A i \in c + 1 .. Len(block) : p[i + 1] = block[i]

\* What relax_one_branch leaves.
LEMMA RelaxOneIs ==
    ASSUME NEW block \in Seq(Instructions), NEW c \in Conditional(block)
    PROVE  IsRelaxed(block, c, RelaxOneBranch(block, c))
<1> DEFINE sense == ~block[c].sense
           x == SkipNext(block[c].op, block[c].cond, sense)
           y == B(block[c].target)
           p == RelaxOneBranch(block, c)
<1>1. c \in 1..Len(block) /\ block[c].op \in {"bcond", "tbz"}
  BY DEF Conditional
<1>2. block[c] \in Instructions
  BY <1>1, SMT
<1>3. block[c].cond \in Nat /\ block[c].sense \in BOOLEAN /\ block[c].target \in Nat
  BY <1>2, Fields
<1>4. sense \in BOOLEAN
  BY <1>3
<1> HIDE DEF sense
<1>5. /\ x \in Instructions /\ x.op = block[c].op /\ x.cond = block[c].cond
      /\ x.sense = sense /\ x.target = NoBlock /\ x.imm = 2
  <2>1. block[c].op \in BranchOps
    BY <1>1 DEF BranchOps
  <2>2. IsSkip(x, block[c].op, block[c].cond, sense)
    BY <1>3, <1>4, <2>1, SkipNextIs
  <2> HIDE DEF x
  <2> QED  BY <2>2 DEF IsSkip
<1>6. y \in Instructions /\ y.op = "b" /\ y.target = block[c].target
  BY <1>3, BIs
<1>7. p = SubSeq(block, 1, c - 1) \o <<x, y>> \o SubSeq(block, c + 1, Len(block))
  BY DEF RelaxOneBranch, sense
<1> HIDE DEF x, y, p
<1>8. IsSplice(Instructions, block, c, x, y, p)
  BY <1>1, <1>5, <1>6, <1>7, SpliceIs
<1>9. p[c] = x /\ p[c + 1] = y
  BY <1>8 DEF IsSplice
<1>10. /\ p[c].op = block[c].op /\ p[c].cond = block[c].cond /\ p[c].sense = sense
       /\ p[c].target = NoBlock /\ p[c].imm = 2
       /\ p[c + 1].op = "b" /\ p[c + 1].target = block[c].target
  BY <1>5, <1>6, <1>9
<1>11. IsRelaxed(block, c, p)
  BY <1>8, <1>10 DEF IsSplice, IsRelaxed, sense
<1> QED  BY <1>11 DEF p

\* A branch that names no block skips the instruction behind it, which is no
\* conditional branch.
LEMMA NotSkipped ==
    ASSUME NEW block \in Seq(Instructions), NEW blocks, WellFormedBlock(block, blocks),
           NEW i \in Conditional(block), block[i].target \notin blocks
    PROVE  /\ block[i].target = NoBlock /\ block[i].imm = 2
           /\ i + 1 \in 1..Len(block) /\ block[i + 1].op \in {"b", "brk"}
           /\ i + 1 \notin Conditional(block)
<1>1. i \in 1..Len(block) /\ block[i].op \in {"bcond", "tbz"}
  BY DEF Conditional
<1>2. i \in DOMAIN block
  BY <1>1, SMT
<1>3. /\ block[i].target = NoBlock /\ block[i].imm = 2
      /\ i < Len(block) /\ block[i + 1].op \in {"b", "brk"}
  BY <1>1, <1>2 DEF WellFormedBlock
<1>4. i + 1 \in 1..Len(block)
  BY <1>1, <1>3, SMT
<1> QED  BY <1>3, <1>4 DEF Conditional

\* relax_one_branch leaves a well-formed block.
LEMMA RelaxOneWellFormed ==
    ASSUME NEW block \in Seq(Instructions), NEW blocks \in SUBSET Nat,
           WellFormedBlock(block, blocks),
           NEW c \in Conditional(block), block[c].target \in blocks,
           NEW p, IsRelaxed(block, c, p)
    PROVE  WellFormedBlock(p, blocks)
<1> DEFINE n == Len(block)
<1>1. /\ p \in Seq(Instructions) /\ Len(p) = n + 1
      /\ p[c].op = block[c].op /\ p[c].target = NoBlock /\ p[c].imm = 2
      /\ p[c + 1].op = "b" /\ p[c + 1].target = block[c].target
      /\ \A i \in 1 .. c - 1 : p[i] = block[i]
      /\ \A i \in c + 1 .. n : p[i + 1] = block[i]
  BY DEF IsRelaxed
<1>2. n \in Nat /\ c \in 1..n /\ block[c].op \in {"bcond", "tbz"}
  <2>1. c \in 1..n /\ block[c].op \in {"bcond", "tbz"}
    BY DEF Conditional
  <2> QED  BY <2>1, SMT
<1>3. DOMAIN block = 1..n /\ DOMAIN p = 1 .. n + 1
  BY <1>1, SMT
<1> HIDE DEF n
<1> SUFFICES ASSUME NEW i \in 1 .. n + 1
             PROVE  /\ p[i].op \notin BranchOps => p[i].target = NoBlock
                    /\ p[i].op = "b" => p[i].target \in blocks
                    /\ p[i].op \in {"bcond", "tbz"} =>
                          \/ p[i].target \in blocks
                          \/ /\ p[i].target = NoBlock /\ p[i].imm = 2
                             /\ i < n + 1 /\ p[i + 1].op \in {"b", "brk"}
  BY <1>1, <1>3 DEF WellFormedBlock
<1>4. \A j \in 1..n :
         /\ block[j].op \notin BranchOps => block[j].target = NoBlock
         /\ block[j].op = "b" => block[j].target \in blocks
         /\ block[j].op \in {"bcond", "tbz"} /\ block[j].target \notin blocks =>
               /\ block[j].target = NoBlock /\ block[j].imm = 2
               /\ j < n /\ block[j + 1].op \in {"b", "brk"}
  BY <1>3 DEF WellFormedBlock, n
<1>5. CASE i < c
  <2>1. i \in 1..n /\ i \in 1 .. c - 1 /\ i < n + 1
    BY <1>2, <1>5, SMT
  <2>2. p[i] = block[i]
    BY <1>1, <2>1
  <2>3. block[i + 1].op \in {"b", "brk"} => p[i + 1] = block[i + 1]
    <3>1. i + 1 # c => i + 1 \in 1 .. c - 1
      BY <1>2, <1>5, SMT
    <3>2. block[i + 1].op \in {"b", "brk"} => i + 1 # c
      BY <1>2
    <3> QED  BY <1>1, <3>1, <3>2
  <2> QED  BY <1>4, <2>1, <2>2, <2>3
<1>6. CASE i = c
  <2>1. i < n + 1
    BY <1>2, <1>6, SMT
  <2> QED  BY <1>1, <1>2, <1>6, <2>1 DEF BranchOps
<1>7. CASE i = c + 1
  BY <1>1, <1>7 DEF BranchOps
<1>8. CASE i > c + 1
  <2> DEFINE j == i - 1
  <2>1. j \in c + 1 .. n /\ j \in 1..n /\ j + 1 = i /\ (j < n => i < n + 1 /\ i \in c + 1 .. n)
    BY <1>2, <1>8, SMT
  <2> HIDE DEF j
  <2>2. p[i] = block[j] /\ (j < n => p[i + 1] = block[j + 1])
    BY <1>1, <2>1
  <2> QED  BY <1>4, <2>1, <2>2
<1>9. i < c \/ i = c \/ i = c + 1 \/ i > c + 1
  BY <1>2, SMT
<1> QED  BY <1>5, <1>6, <1>7, <1>8, <1>9

\* Where a branch of a block goes on in the block, or 0.
Inner(block) ==
    [i \in DOMAIN block |-> IF block[i].target = NoBlock THEN i + block[i].imm ELSE 0]

\* Where it leaves the block for.
Outer(block) == [i \in DOMAIN block |-> block[i].target]

\* Meaning, of a block alone.
MeaningOf(block, holds, next) == RunBlock(block, holds, Inner(block), Outer(block), next)

\* Every condition that the block looks at has a truth value.
Decided(block, holds) ==
    \A i \in Conditional(block) : holds[block[i].cond] \in BOOLEAN

\* The branch at i leaves the block, or goes on two places further.
Leads(block, blocks, i) ==
    /\ Outer(block)[i] = block[i].target
    /\ \/ /\ block[i].target \in blocks /\ block[i].target # NoBlock
          /\ Inner(block)[i] = 0
       \/ /\ block[i].target = NoBlock /\ block[i].imm = 2
          /\ Inner(block)[i] = i + 2 /\ i + 2 # 0 /\ i + 2 \in i + 1 .. Len(block) + 1
          /\ i \in Conditional(block)
          /\ i + 1 \in 1..Len(block) /\ block[i + 1].op \in {"b", "brk"}

\* Every taken branch of a well-formed block does.
LEMMA Goes ==
    ASSUME NEW block \in Seq(Instructions), NEW blocks \in SUBSET (Nat \ {0}),
           WellFormedBlock(block, blocks), NEW holds, NEW i \in 1..Len(block),
           Taken(block[i], holds)
    PROVE  Leads(block, blocks, i)
<1>1. i \in DOMAIN block
  BY SMT
<1>2. /\ Outer(block)[i] = block[i].target
      /\ block[i].target # NoBlock => Inner(block)[i] = 0
      /\ block[i].target = NoBlock => Inner(block)[i] = i + block[i].imm
  BY <1>1 DEF Inner, Outer
<1>3. CASE block[i].target \in blocks
  BY <1>2, <1>3 DEF Leads, NoBlock
<1>4. CASE block[i].target \notin blocks
  <2>1. block[i].op \in {"b", "bcond", "tbz"}
    BY DEF Taken, BranchOps
  <2>2. i \in Conditional(block)
    BY <1>1, <1>4, <2>1 DEF WellFormedBlock, Conditional
  <2>3. /\ block[i].target = NoBlock /\ block[i].imm = 2
        /\ i + 1 \in 1..Len(block) /\ block[i + 1].op \in {"b", "brk"}
    BY <1>4, <2>2, NotSkipped
  <2>4. i + 2 # 0 /\ i + 2 \in i + 1 .. Len(block) + 1
    BY <2>3, SMT
  <2> QED  BY <1>2, <2>2, <2>3, <2>4 DEF Leads
<1> QED  BY <1>3, <1>4

\* So the runs of a well-formed block are well defined.
LEMMA InnerForward ==
    ASSUME NEW block \in Seq(Instructions), NEW blocks \in SUBSET (Nat \ {0}),
           WellFormedBlock(block, blocks), NEW holds
    PROVE  Forward(block, holds, Inner(block))
<1> SUFFICES ASSUME NEW i \in 1..Len(block), Taken(block[i], holds)
             PROVE  Inner(block)[i] = 0 \/ Inner(block)[i] \in i + 1 .. Len(block) + 1
  BY DEF Forward
<1> QED  BY Goes DEF Leads

\* The instruction at i of p, with runs r behind it, does what the one at j of q does,
\* with s behind it.
Alike(p, inner, outer, r, i, q, into, out, s, j, holds) ==
    /\ p[i] = q[j] /\ r[i + 1] = s[j + 1]
    /\ Taken(p[i], holds) =>
          \/ inner[i] = 0 /\ into[j] = 0 /\ outer[i] = out[j]
          \/ inner[i] # 0 /\ into[j] # 0 /\ r[inner[i]] = s[into[j]]

\* Block q means what p means.
MeansAlike(p, q) ==
    \A holds, next :
        Decided(p, holds) => MeaningOf(q, holds, next) = MeaningOf(p, holds, next)

\* relax_one_branch keeps what a block means: from an instruction, the relaxed block
\* does what the block did, behind the relaxed branch one place further.
LEMMA RelaxOneMeans ==
    ASSUME NEW block \in Seq(Instructions), NEW blocks \in SUBSET (Nat \ {0}),
           WellFormedBlock(block, blocks),
           NEW c \in Conditional(block), block[c].target \in blocks,
           NEW p, IsRelaxed(block, c, p)
    PROVE  MeansAlike(block, p)
<1> SUFFICES ASSUME NEW holds, NEW next, Decided(block, holds)
             PROVE  MeaningOf(p, holds, next) = MeaningOf(block, holds, next)
  BY DEF MeansAlike
<1> DEFINE n == Len(block)
<1>1. /\ p \in Seq(Instructions) /\ Len(p) = n + 1
      /\ p[c].op = block[c].op /\ p[c].cond = block[c].cond /\ p[c].sense = ~block[c].sense
      /\ p[c].target = NoBlock /\ p[c].imm = 2
      /\ p[c + 1].op = "b" /\ p[c + 1].target = block[c].target
      /\ \A i \in 1 .. c - 1 : p[i] = block[i]
      /\ \A i \in c + 1 .. n : p[i + 1] = block[i]
  BY DEF IsRelaxed
<1>2. n \in Nat /\ c \in 1..n /\ block[c].op \in {"bcond", "tbz"}
  <2>1. c \in 1..n /\ block[c].op \in {"bcond", "tbz"}
    BY DEF Conditional
  <2> QED  BY <2>1, SMT
<1>3. blocks \in SUBSET Nat /\ WellFormedBlock(p, blocks)
  BY RelaxOneWellFormed
<1>4. Forward(block, holds, Inner(block)) /\ Forward(p, holds, Inner(p))
  BY <1>1, <1>3, InnerForward
<1> DEFINE RA(r, i) == RunFrom(block, holds, Inner(block), Outer(block), next, r, i)
           RB(s, i) == RunFrom(p, holds, Inner(p), Outer(p), next, s, i)
<1>a. PICK r : IsRun(block, holds, Inner(block), Outer(block), next, r)
  BY <1>4, RunIs
<1>b. PICK s : IsRun(p, holds, Inner(p), Outer(p), next, s)
  BY <1>1, <1>4, RunIs
<1>5. /\ MeaningOf(block, holds, next) = r[1]
      /\ \A i \in 1 .. n + 1 : r[i] = RA(r, i)
  BY <1>a DEF IsRun, MeaningOf
<1>6. /\ MeaningOf(p, holds, next) = s[1]
      /\ \A i \in 1 .. n + 2 : s[i] = RB(s, i)
  <2>1. n + 1 + 1 = n + 2
    BY <1>2, SMT
  <2> QED  BY <1>1, <1>b, <2>1 DEF IsRun, MeaningOf
<1> HIDE DEF n
<1> DEFINE At(i) == IF i <= c THEN i ELSE i + 1
           A == {i \in 1 .. n + 1 : s[At(i)] = r[i]}
<1>7. ASSUME NEW i \in 1 .. n + 1, \A j \in i + 1 .. n + 1 : j \in A
      PROVE  i \in A
  <2>1. CASE i = n + 1
    <3>1. At(i) = n + 2 /\ n + 2 \in 1 .. n + 2 /\ n + 2 = n + 1 + 1
      BY <1>2, <2>1, SMT
    <3>2. s[n + 2] = RB(s, n + 2) /\ r[i] = RA(r, i)
      BY <1>5, <1>6, <3>1
    <3>3. RB(s, n + 2) = [trace |-> <<>>, to |-> next]
      BY <1>1, <3>1 DEF RunFrom
    <3>4. RA(r, i) = [trace |-> <<>>, to |-> next]
      BY <2>1 DEF RunFrom, n
    <3> QED  BY <3>1, <3>2, <3>3, <3>4
  <2>2. CASE i < c
    <3>1. /\ i \in 1..n /\ i \in 1 .. n + 2 /\ i \in 1 .. c - 1 /\ i \in 1 .. n + 1
          /\ At(i) = i /\ i + 1 \in i + 1 .. n + 1 /\ At(i + 1) = i + 1
      BY <1>2, <2>2, SMT
    <3>2. block[i] = p[i] /\ r[i + 1] = s[i + 1]
      BY <1>1, <1>7, <3>1
    <3>3. Alike(block, Inner(block), Outer(block), r, i, p, Inner(p), Outer(p), s, i, holds)
      <4> SUFFICES ASSUME Taken(block[i], holds)
                   PROVE  \/ /\ Inner(block)[i] = 0 /\ Inner(p)[i] = 0
                             /\ Outer(block)[i] = Outer(p)[i]
                          \/ /\ Inner(block)[i] # 0 /\ Inner(p)[i] # 0
                             /\ r[Inner(block)[i]] = s[Inner(p)[i]]
        BY <3>2 DEF Alike
      <4>1. i \in DOMAIN block /\ i \in DOMAIN p
        BY <1>1, <3>1, SMT DEF n
      <4>2. Inner(p)[i] = Inner(block)[i] /\ Outer(p)[i] = Outer(block)[i]
        BY <3>2, <4>1 DEF Inner, Outer
      <4>3. CASE Inner(block)[i] = 0
        BY <4>2, <4>3
      <4>4. CASE Inner(block)[i] # 0
        <5>1. /\ Inner(block)[i] = i + 2 /\ i + 2 \in i + 1 .. n + 1
              /\ block[i + 1].op \in {"b", "brk"}
          BY <3>1, <4>4, Goes DEF Leads, n
        <5>2. i + 1 # c
          BY <1>2, <5>1
        <5>3. At(i + 2) = i + 2
          BY <1>2, <2>2, <5>2, SMT
        <5>4. s[i + 2] = r[i + 2]
          BY <1>7, <5>1, <5>3
        <5> QED  BY <4>2, <4>4, <5>1, <5>4
      <4> QED  BY <4>3, <4>4
    <3>4. RA(r, i) = RB(s, i)
      <4>1. i \in 1..Len(block) /\ i \in 1..Len(p)
        BY <1>1, <3>1 DEF n
      <4>2. i # Len(block) + 1 /\ i # Len(p) + 1
        BY <1>1, <4>1, SMT
      <4> QED  BY <3>3, <4>2 DEF Alike, RunFrom
    <3> QED  BY <1>5, <1>6, <3>1, <3>4
  <2>3. CASE i = c
    <3>1. /\ i \in 1 .. n + 2 /\ i \in 1 .. n + 1 /\ At(i) = i
          /\ i + 1 \in i + 1 .. n + 1 /\ At(i + 1) = i + 2
          /\ i + 1 \in 1 .. n + 2 /\ i + 1 + 1 = i + 2 /\ i # 0 /\ i + 2 # 0
          /\ i # n + 1 /\ i # n + 1 + 1 /\ i + 1 # n + 1 + 1
          /\ i \in 1 .. n /\ i \in 1 .. n + 1 /\ i + 1 \in 1 .. n + 1
      BY <1>2, <2>3, SMT
    <3> HIDE DEF At
    <3>2. s[i + 2] = r[i + 1]
      BY <1>7, <3>1
    <3>3. DOMAIN block = 1..n /\ DOMAIN p = 1 .. n + 1 /\ block[i] \in Instructions
      BY <1>1, <3>1, SMT DEF n
    <3>4. /\ Inner(block)[i] = 0 /\ Outer(block)[i] = block[c].target
          /\ Inner(p)[i] = i + 2
          /\ Inner(p)[i + 1] = 0 /\ Outer(p)[i + 1] = block[c].target
      BY <1>1, <2>3, <3>1, <3>3 DEF Inner, Outer, NoBlock
    <3>5. s[i + 1] = [trace |-> <<>>, to |-> block[c].target]
      <4>1. s[i + 1] = RB(s, i + 1)
        BY <1>6, <3>1
      <4>2. Taken(p[i + 1], holds) /\ p[i + 1].op = "b"
        BY <1>1, <2>3 DEF Taken
      <4> QED  BY <1>1, <3>1, <3>4, <4>1, <4>2 DEF RunFrom
    <3>6. Taken(p[i], holds) <=> ~Taken(block[i], holds)
      <4>1. block[c].sense \in BOOLEAN /\ holds[block[c].cond] \in BOOLEAN
        BY <2>3, <3>3, Fields DEF Decided
      <4>2. /\ Taken(block[i], holds) <=> holds[block[c].cond] = block[c].sense
            /\ Taken(p[i], holds) <=> holds[block[c].cond] = ~block[c].sense
        BY <1>1, <1>2, <2>3 DEF Taken, BranchOps
      <4> QED  BY <4>1, <4>2
    <3>7. r[i] = IF Taken(block[i], holds) THEN [trace |-> <<>>, to |-> block[c].target]
                 ELSE r[i + 1]
      <4>1. r[i] = RA(r, i)
        BY <1>5, <3>1
      <4> QED  BY <1>2, <2>3, <3>1, <3>4, <4>1 DEF RunFrom, n
    <3>8. s[i] = IF Taken(p[i], holds) THEN s[i + 2] ELSE s[i + 1]
      <4>1. s[i] = RB(s, i)
        BY <1>6, <3>1
      <4> QED  BY <1>1, <1>2, <2>3, <3>1, <3>4, <4>1 DEF RunFrom
    <3>9. s[i] = r[i]
      BY <3>2, <3>5, <3>6, <3>7, <3>8
    <3> QED  BY <3>1, <3>9
  <2>4. CASE i > c /\ i \in 1..n
    <3> DEFINE k == i + 1
    <3>1. /\ i \in 1 .. n + 1 /\ k \in 1 .. n + 2 /\ k \in 1 .. n + 1 /\ At(i) = k
          /\ i + 1 \in i + 1 .. n + 1 /\ At(i + 1) = k + 1 /\ i \in c + 1 .. n
      BY <1>2, <2>4, SMT
    <3>2. p[k] = block[i]
      BY <1>1, <3>1
    <3> HIDE DEF k
    <3>3. r[i + 1] = s[k + 1]
      BY <1>7, <3>1
    <3>4. Alike(block, Inner(block), Outer(block), r, i, p, Inner(p), Outer(p), s, k, holds)
      <4> SUFFICES ASSUME Taken(block[i], holds)
                   PROVE  \/ /\ Inner(block)[i] = 0 /\ Inner(p)[k] = 0
                             /\ Outer(block)[i] = Outer(p)[k]
                          \/ /\ Inner(block)[i] # 0 /\ Inner(p)[k] # 0
                             /\ r[Inner(block)[i]] = s[Inner(p)[k]]
        BY <3>2, <3>3 DEF Alike
      <4>1. i \in DOMAIN block /\ k \in DOMAIN p
        BY <1>1, <2>4, <3>1, SMT DEF n
      <4>2. /\ Outer(p)[k] = Outer(block)[i]
            /\ block[i].target # NoBlock => Inner(p)[k] = 0
            /\ block[i].target = NoBlock => Inner(p)[k] = k + block[i].imm
        BY <3>2, <4>1 DEF Inner, Outer
      <4>3. CASE block[i].target # NoBlock
        <5>1. Inner(block)[i] = 0
          BY <2>4, <4>3, Goes DEF Leads, n
        <5> QED  BY <4>2, <4>3, <5>1
      <4>4. CASE block[i].target = NoBlock
        <5>0. Leads(block, blocks, i)
          BY <2>4, Goes DEF n
        <5>1. /\ block[i].imm = 2 /\ Inner(block)[i] = i + 2 /\ i + 2 # 0
              /\ i + 2 \in i + 1 .. n + 1
          BY <4>4, <5>0 DEF Leads, n
        <5>2. At(i + 2) = k + 2 /\ k + 2 # 0
          BY <1>2, <2>4, SMT DEF k
        <5> HIDE DEF At
        <5>3. s[At(i + 2)] = r[i + 2]
          BY <1>7, <5>1
        <5> QED  BY <4>2, <4>4, <5>1, <5>2, <5>3
      <4> QED  BY <4>3, <4>4
    <3>5. RA(r, i) = RB(s, k)
      <4>1. i \in 1..Len(block) /\ k \in 1..Len(p)
        BY <1>1, <2>4, <3>1 DEF n
      <4>2. i # Len(block) + 1 /\ k # Len(p) + 1
        BY <1>1, <4>1, SMT
      <4> QED  BY <3>4, <4>2 DEF Alike, RunFrom
    <3> QED  BY <1>5, <1>6, <3>1, <3>5
  <2>5. i = n + 1 \/ i < c \/ i = c \/ (i > c /\ i \in 1..n)
    BY <1>2, SMT
  <2> QED  BY <2>1, <2>2, <2>3, <2>4, <2>5
<1>8. n + 1 \in Nat /\ 1 \in 1 .. n + 1 /\ At(1) = 1
  BY <1>2, SMT
<1> DEFINE m == n + 1
<1>9. 1 .. m \subseteq A
  <2> HIDE DEF A, m
  <2>1. m \in Nat /\ \A i \in 1 .. m : (\A j \in i + 1 .. m : j \in A) => i \in A
    BY <1>7, <1>8 DEF m
  <2> QED  BY <2>1, DownTo
<1> QED  BY <1>5, <1>6, <1>8, <1>9

-----------------------------------------------------------------------------
(* relax_branches                                                          *)

\* Block q means what p means, and looks at no other condition.
Keeps(p, q) ==
    MeansAlike(p, q) /\ \A holds : Decided(p, holds) => Decided(q, holds)

\* A function that means what func means, block by block.
Refines(func, g) ==
    /\ WellFormed(g) /\ Len(g) = Len(func)
    /\ \A b \in 1..Len(func) : Keeps(func[b], g[b])

\* relax_one_branch looks at no new condition.
LEMMA RelaxOneKeeps ==
    ASSUME NEW block \in Seq(Instructions), NEW blocks \in SUBSET (Nat \ {0}),
           WellFormedBlock(block, blocks),
           NEW c \in Conditional(block), block[c].target \in blocks
    PROVE  /\ RelaxOneBranch(block, c) \in Seq(Instructions)
           /\ WellFormedBlock(RelaxOneBranch(block, c), blocks)
           /\ Keeps(block, RelaxOneBranch(block, c))
<1> DEFINE p == RelaxOneBranch(block, c)
           n == Len(block)
<1>1. IsRelaxed(block, c, p)
  BY RelaxOneIs
<1> HIDE DEF p
<1>2. p \in Seq(Instructions) /\ blocks \in SUBSET Nat
  BY <1>1 DEF IsRelaxed
<1>3. WellFormedBlock(p, blocks)
  BY <1>1, <1>2, RelaxOneWellFormed
<1>5. MeansAlike(block, p)
  BY <1>1, RelaxOneMeans
<1>4. ASSUME NEW holds, Decided(block, holds)
      PROVE  Decided(p, holds)
  <2>2. ASSUME NEW i \in Conditional(p)
        PROVE  holds[p[i].cond] \in BOOLEAN
    <3>0. Len(p) = n + 1 /\ n \in Nat /\ c \in 1..n
      <4>1. Len(p) = n + 1 /\ c \in 1..n
        BY <1>1 DEF IsRelaxed, Conditional
      <4> QED  BY <4>1, SMT
    <3>1. i \in 1 .. n + 1 /\ p[i].op \in {"bcond", "tbz"}
      BY <3>0 DEF Conditional
    <3>2. CASE i < c
      <4>1. i \in 1 .. c - 1 /\ i \in 1..n
        BY <3>0, <3>1, <3>2, SMT
      <4>2. p[i] = block[i]
        BY <1>1, <4>1 DEF IsRelaxed
      <4> QED  BY <1>4, <3>1, <4>1, <4>2 DEF Decided, Conditional
    <3>3. CASE i = c
      BY <1>1, <1>4, <3>3 DEF IsRelaxed, Decided
    <3>4. CASE i = c + 1
      BY <1>1, <3>1, <3>4 DEF IsRelaxed
    <3>5. CASE i > c + 1
      <4> DEFINE j == i - 1
      <4>1. j \in c + 1 .. n /\ j \in 1..n /\ j + 1 = i
        BY <3>0, <3>1, <3>5, SMT
      <4> HIDE DEF j
      <4>2. p[i] = block[j]
        BY <1>1, <4>1 DEF IsRelaxed
      <4> QED  BY <1>4, <3>1, <4>1, <4>2 DEF Decided, Conditional
    <3>6. i < c \/ i = c \/ i = c + 1 \/ i > c + 1
      BY <3>0, <3>1, SMT
    <3> QED  BY <3>2, <3>3, <3>4, <3>5, <3>6
  <2> QED  BY <2>2 DEF Decided
<1> QED  BY <1>2, <1>3, <1>4, <1>5 DEF Keeps, p

\* A pass of relax_branches that finds no far B keeps what every block means.
LEMMA RelaxPassRefines ==
    ASSUME NEW func, WellFormed(func)
    PROVE  Refines(func, RelaxPass(func).func)
<1> DEFINE n == Len(func)
           blocks == DOMAIN func
           far(b) == FarBranches(func, BlockOffsets(func), b)
           first(b) == Min(far(b))
           tooFar == \E b \in DOMAIN func : far(b) # {} /\ func[b][first(b)].op = "b"
           next == [b \in DOMAIN func |-> IF far(b) = {} THEN func[b]
                                          ELSE RelaxOneBranch(func[b], first(b))]
<1>1. func \in Seq(Seq(Instructions)) /\ \A b \in blocks : WellFormedBlock(func[b], blocks)
  BY DEF WellFormed
<1>2. n \in Nat /\ blocks = 1..n /\ \A b \in 1..n : func[b] \in Seq(Instructions)
  BY <1>1, SMT
<1>3. blocks \in SUBSET (Nat \ {0})
  BY <1>2, SMT
<1>4. \A p : Keeps(p, p)
  BY DEF Keeps, MeansAlike
<1>5. RelaxPass(func).func = IF tooFar THEN func ELSE next
  BY DEF RelaxPass
<1>6. CASE tooFar
  BY <1>4, <1>5, <1>6 DEF Refines
<1>7. CASE ~tooFar
  <2>1. ASSUME NEW b \in 1..n, far(b) # {}
        PROVE  first(b) \in Conditional(func[b]) /\ func[b][first(b)].target \in blocks
    <3> DEFINE F == far(b)
               k == first(b)
    <3>1. DOMAIN func[b] = 1..Len(func[b]) /\ 1..Len(func[b]) \subseteq Nat
      BY <1>2, SMT
    <3>2. F \in SUBSET Nat /\ F # {}
      BY <2>1, <3>1 DEF FarBranches
    <3>3. k \in F
      <4> HIDE DEF F
      <4>1. \E m \in F : \A j \in F : m <= j
        BY <3>2, Least
      <4>2. Min(F) \in F
        BY <4>1 DEF Min
      <4> QED  BY <4>2 DEF F
    <3>4. k \in 1..Len(func[b]) /\ func[b][k].target # NoBlock /\ func[b][k].op \in BranchOps
      BY <3>1, <3>3 DEF FarBranches, InRange
    <3>5. func[b][k].op # "b"
      BY <1>2, <1>7, <2>1
    <3> HIDE DEF k, F
    <3>6. func[b][k].op \in {"bcond", "tbz"} /\ k \in DOMAIN func[b]
      BY <3>1, <3>4, <3>5 DEF BranchOps
    <3>7. func[b][k].target \in blocks
      BY <1>1, <1>2, <3>4, <3>6 DEF WellFormedBlock
    <3> QED  BY <3>4, <3>6, <3>7 DEF Conditional, k
  <2> HIDE DEF far, first
  <2>2. ASSUME NEW b \in 1..n
        PROVE  /\ next[b] \in Seq(Instructions) /\ WellFormedBlock(next[b], blocks)
               /\ Keeps(func[b], next[b])
    <3>1. CASE far(b) = {}
      BY <1>1, <1>2, <1>4, <3>1
    <3>2. CASE far(b) # {}
      <4>1. next[b] = RelaxOneBranch(func[b], first(b))
        BY <1>2, <3>2
      <4>2. first(b) \in Conditional(func[b]) /\ func[b][first(b)].target \in blocks
        BY <2>1, <3>2
      <4>3. func[b] \in Seq(Instructions) /\ WellFormedBlock(func[b], blocks)
        BY <1>1, <1>2
      <4> HIDE DEF next
      <4> QED  BY <1>3, <4>1, <4>2, <4>3, RelaxOneKeeps
    <3> QED  BY <3>1, <3>2
  <2>3. DOMAIN next = 1..n
    BY <1>2
  <2>4. next = [b \in 1..n |-> next[b]]
    BY <1>2
  <2> HIDE DEF next
  <2>5. next \in [1..n -> Seq(Instructions)]
    BY <2>2, <2>4
  <2>6. next \in Seq(Seq(Instructions)) /\ Len(next) = n
    BY <1>2, <2>5, SMT
  <2>7. Refines(func, next)
    BY <1>2, <2>2, <2>3, <2>6 DEF Refines, WellFormed
  <2> QED  BY <1>5, <1>7, <2>7
<1> QED  BY <1>6, <1>7

\* Keeping the meaning twice keeps it.
LEMMA RefinesTwice ==
    ASSUME NEW func, NEW g, NEW h, Refines(func, g), Refines(g, h)
    PROVE  Refines(func, h)
<1>1. WellFormed(h) /\ Len(h) = Len(func)
  BY DEF Refines
<1>2. ASSUME NEW b \in 1..Len(func)
      PROVE  Keeps(func[b], h[b])
  <2>1. Keeps(func[b], g[b]) /\ Keeps(g[b], h[b])
    BY DEF Refines
  <2> QED  BY <2>1 DEF Keeps, MeansAlike
<1> QED  BY <1>1, <1>2 DEF Refines

\* The loop of relax_branches keeps what every block means, however often it runs.
LEMMA RelaxBranchesRefines ==
    ASSUME NEW func, WellFormed(func)
    PROVE  Refines(func, RelaxBranches(func).func)
<1> DEFINE n == MaxPasses
           T == {x \in [ok : BOOLEAN, func : Seq(Seq(Instructions))] : Refines(func, x.func)}
           t == [ok |-> TRUE, func |-> func]
           Step(x) == IF x.ok /\ HasOutOfRangeBranches(x.func) THEN RelaxPass(x.func) ELSE x
           s == [i \in 1..n |-> [x \in T |-> Step(x)]]
<1>1. n \in Nat
  BY RelaxAssumption
<1>2. t \in T
  <2>1. Refines(func, func) /\ func \in Seq(Seq(Instructions))
    BY DEF Refines, WellFormed, Keeps, MeansAlike
  <2> QED  BY <2>1
<1>3. ASSUME NEW x \in T
      PROVE  Step(x) \in T
  <2>1. WellFormed(x.func) /\ Refines(func, x.func)
    BY DEF Refines
  <2> DEFINE y == RelaxPass(x.func)
  <2>2. Refines(func, y.func)
    BY <2>1, RelaxPassRefines, RefinesTwice
  <2>3. y.func \in Seq(Seq(Instructions))
    BY <2>2 DEF Refines, WellFormed
  <2>4. y = [ok |-> y.ok, func |-> y.func] /\ y.ok \in BOOLEAN
    BY DEF RelaxPass
  <2> HIDE DEF y
  <2>5. y \in T
    BY <2>2, <2>3, <2>4
  <2> QED  BY <2>5 DEF y
<1> HIDE DEF T, t, Step, n
<1>4. s \in [1..n -> [T -> T]] /\ \A i \in 1..n : \A x \in T : s[i][x] = Step(x)
  BY <1>3
<1> HIDE DEF s
<1>5. Iterates(T, t, n, s) # {}
  BY <1>1, <1>2, <1>4, Recursion
<1>6. PICK g \in [0..n -> T] : g[0] = t /\ \A i \in 1..n : g[i] = s[i][g[i - 1]]
  BY <1>5 DEF Iterates
<1>7. \A i \in 1..n : i \in 0..n /\ i - 1 \in 0..n /\ i # 0
  BY <1>1, SMT
<1>8. \A i \in 0..n : i # 0 => i \in 1..n
  BY <1>1, SMT
<1> DEFINE Def(w) == [i \in 0..n |-> IF i = 0 THEN t ELSE Step(w[i - 1])]
<1>9. \A i \in 0..n : g[i] = IF i = 0 THEN t ELSE Step(g[i - 1])
  BY <1>4, <1>6, <1>7, <1>8
<1>10. g = Def(g)
  BY <1>9
<1> DEFINE a == CHOOSE w : w = Def(w)
<1>11. a = Def(a)
  BY <1>10
<1>12. RelaxBranches(func) = a[n]
  BY DEF RelaxBranches, Step, t, n
<1> HIDE DEF a
<1> DEFINE A == {i \in 0..n : a[i] \in T}
<1>13. 0 \in 0..n /\ n \in 0..n
  BY <1>1, SMT
<1>14. a[0] = t /\ \A i \in 1..n : a[i] = Step(a[i - 1])
  BY <1>7, <1>11, <1>13
<1>15. 0 \in A
  BY <1>2, <1>13, <1>14
<1>16. \A i \in 1..n : i - 1 \in A => i \in A
  BY <1>3, <1>7, <1>14
<1>17. 0..n \subseteq A
  BY <1>1, <1>15, <1>16, UpTo
<1>18. a[n] \in T
  BY <1>13, <1>17
<1> QED  BY <1>12, <1>18 DEF T

-----------------------------------------------------------------------------
(* build_final_code                                                        *)

\* w are the offsets of func's blocks in words.
IsLayout(func, w) ==
    /\ w \in [1..Len(func) + 1 -> Nat] /\ w[1] = 0
    /\ \A b \in 1..Len(func) : w[b + 1] = w[b] + Len(Words(func[b]))
    /\ \A b \in 1..Len(func) + 1 : BlockOffsets(func)[b] = 4 * w[b]

\* The block b of func with targets made displacements, before it is emitted.
Resolved(func, b) ==
    [i \in DOMAIN func[b] |->
       IF func[b][i].target = NoBlock THEN func[b][i]
       ELSE [func[b][i] EXCEPT !.target = NoBlock,
               !.imm = Displacement(func, BlockOffsets(func), b, i) \div 4]]

\* y is x with a displacement of d words instead of its target.
IsResolved(x, d, y) ==
    /\ y \in Instructions /\ y.op = x.op /\ y.id = x.id /\ y.cond = x.cond
    /\ y.sense = x.sense /\ y.target = NoBlock /\ y.imm = d

\* Resolving a branch.
LEMMA ResolveIs ==
    ASSUME NEW x \in Instructions, NEW d \in Int
    PROVE  IsResolved(x, d, [x EXCEPT !.target = NoBlock, !.imm = d])
<1> DEFINE y == [x EXCEPT !.target = NoBlock]
           z == [y EXCEPT !.imm = d]
<1>1. /\ y \in Instructions /\ y.op = x.op /\ y.id = x.id /\ y.cond = x.cond
      /\ y.sense = x.sense /\ y.target = NoBlock
  BY SMT DEF Instructions, NoBlock
<1> HIDE DEF y
<1>2. /\ z \in Instructions /\ z.op = y.op /\ z.id = y.id /\ z.cond = y.cond
      /\ z.sense = y.sense /\ z.target = y.target /\ z.imm = d
  BY <1>1, SMT DEF Instructions
<1>3. z = [x EXCEPT !.target = NoBlock, !.imm = d]
  BY DEF y
<1> HIDE DEF z
<1> QED  BY <1>1, <1>2, <1>3 DEF IsResolved

\* Offsets in words exist.
LEMMA LayoutIs ==
    ASSUME NEW func \in Seq(Seq(Instructions))
    PROVE  \E w : IsLayout(func, w)
  BY OffsetsAre DEF IsLayout

\* A block starts behind those before it.
LEMMA LayoutGrows ==
    ASSUME NEW func \in Seq(Seq(Instructions)), NEW w, IsLayout(func, w)
    PROVE  \A a, b \in 1..Len(func) + 1 : a <= b => w[a] <= w[b]
<1> DEFINE n == Len(func)
<1>1. n \in Nat /\ \A b \in 1..n : func[b] \in Seq(Instructions) /\ Len(func[b]) \in 0..Len(func[b])
  BY SMT
<1>2. \A b \in 1..n : Words(func[b]) \in Seq(Instructions)
  BY <1>1, EmittedIs DEF Words
<1>3. \A b \in 1..n : Len(Words(func[b])) \in Nat /\ b \in 1..n + 1
  BY <1>1, <1>2, SMT
<1>4. w \in [1..n + 1 -> Nat] /\ \A b \in 1..n : w[b + 1] = w[b] + Len(Words(func[b]))
  BY DEF IsLayout
<1> HIDE DEF n
<1>5. ASSUME NEW b \in 1..n
      PROVE  w[b] <= w[b + 1]
  <2>1. w[b] \in Nat /\ Len(Words(func[b])) \in Nat /\ w[b + 1] = w[b] + Len(Words(func[b]))
    BY <1>3, <1>4
  <2> QED  BY <2>1, SMT
<1> QED  BY <1>1, <1>4, <1>5, OffsetsGrow DEF n

\* q has at every place what block b of func has, with displacements for targets.
ResolvesTo(func, w, b, q) ==
    /\ q \in Seq(Instructions) /\ Len(q) = Len(func[b])
    /\ \A i \in 1..Len(func[b]) :
          /\ q[i].op = func[b][i].op /\ q[i].id = func[b][i].id
          /\ q[i].cond = func[b][i].cond /\ q[i].sense = func[b][i].sense
          /\ func[b][i].target = NoBlock => q[i].imm = func[b][i].imm
          /\ func[b][i].target # NoBlock =>
                /\ func[b][i].target \in 1..Len(func) /\ func[b][i].op \in BranchOps
                /\ q[i].imm = w[func[b][i].target] - w[b] - Len(Emitted(func[b])[i - 1])
                /\ Displacement(func, BlockOffsets(func), b, i) = 4 * q[i].imm

\* A multiple of four bytes is that many words.
LEMMA DivFour ==
    ASSUME NEW d \in Int
    PROVE  (4 * d) \div 4 = d
  BY SMT

\* A distance in bytes between places given in words.
LEMMA TimesFour ==
    ASSUME NEW a \in Nat, NEW b \in Nat, NEW k \in Nat
    PROVE  a - b - k \in Int /\ 4 * a - (4 * b + 4 * k) = 4 * (a - b - k)
BY SMT

\* Displacements come out even.
LEMMA ResolvedIs ==
    ASSUME NEW func, WellFormed(func), NEW w, IsLayout(func, w), NEW b \in 1..Len(func)
    PROVE  ResolvesTo(func, w, b, Resolved(func, b))
<1> DEFINE p == func[b]
           q == Resolved(func, b)
           n == Len(func)
           Dis(i) == Displacement(func, BlockOffsets(func), b, i)
           new(i) == IF p[i].target = NoBlock THEN p[i]
                     ELSE [p[i] EXCEPT !.target = NoBlock, !.imm = Dis(i) \div 4]
<1>0. func \in Seq(Seq(Instructions)) /\ n \in Nat /\ b \in 1 .. n + 1
  <2>1. func \in Seq(Seq(Instructions))
    BY DEF WellFormed
  <2> QED  BY <2>1, SMT
<1>1. DOMAIN func = 1..n /\ p \in Seq(Instructions) /\ DOMAIN p = 1..Len(p) /\ Len(p) \in Nat
  BY <1>0, SMT
<1>2. WellFormedBlock(p, 1..n)
  BY <1>1 DEF WellFormed
<1>3. q = [i \in 1..Len(p) |-> new(i)]
  BY <1>1 DEF Resolved
<1>4. w \in [1 .. n + 1 -> Nat] /\ \A a \in 1 .. n + 1 : BlockOffsets(func)[a] = 4 * w[a]
  BY DEF IsLayout
<1>5. ASSUME NEW i \in 1..Len(p)
      PROVE  /\ new(i) \in Instructions
             /\ new(i).op = p[i].op /\ new(i).id = p[i].id
             /\ new(i).cond = p[i].cond /\ new(i).sense = p[i].sense
             /\ p[i].target = NoBlock => new(i).imm = p[i].imm
             /\ p[i].target # NoBlock =>
                   /\ p[i].target \in 1..n /\ p[i].op \in BranchOps
                   /\ new(i).imm = w[p[i].target] - w[b] - Len(Emitted(p)[i - 1])
                   /\ Dis(i) = 4 * new(i).imm
  <2>1. p[i] \in Instructions
    BY <1>1, SMT
  <2>2. CASE p[i].target = NoBlock
    BY <2>1, <2>2
  <2>3. CASE p[i].target # NoBlock
    <3>1. p[i].op \in {"b", "bcond", "tbz", "plain", "pseudo", "brk"}
      BY <2>1, Fields
    <3>2. p[i].target \in 1..n /\ p[i].op \in BranchOps
      BY <1>1, <1>2, <2>3, <3>1 DEF WellFormedBlock, BranchOps
    <3> DEFINE t == p[i].target
               k == Len(Emitted(p)[i - 1])
               d == w[t] - w[b] - k
               x == p[i]
               y == [x EXCEPT !.target = NoBlock, !.imm = Dis(i) \div 4]
    <3>3. k \in Nat
      <4>1. i - 1 \in 0..Len(p)
        BY <1>1, SMT
      <4> QED  BY <1>1, <4>1, EmittedGrows
    <3>4. t \in 1 .. n + 1
      BY <1>0, <3>2, SMT
    <3>5. w[t] \in Nat /\ w[b] \in Nat
      BY <1>0, <1>4, <3>4
    <3>6. Dis(i) = 4 * w[t] - (4 * w[b] + 4 * k)
      BY <1>0, <1>4, <3>4 DEF Displacement
    <3>7. new(i) = y
      BY <2>3
    <3> HIDE DEF Dis, t, k, x
    <3>8. d \in Int /\ Dis(i) = 4 * d /\ (4 * d) \div 4 = d
      BY <3>3, <3>5, <3>6, TimesFour, DivFour
    <3> HIDE DEF d
    <3>9. IsResolved(x, d, y)
      BY <2>1, <3>8, ResolveIs DEF x
    <3> HIDE DEF y, new
    <3> QED  BY <2>3, <3>2, <3>7, <3>8, <3>9 DEF IsResolved, x, d, t, k
  <2> QED  BY <2>2, <2>3
<1> HIDE DEF new, q
<1>6. q \in [1..Len(p) -> Instructions] /\ \A i \in 1..Len(p) : q[i] = new(i)
  BY <1>3, <1>5
<1>7. q \in Seq(Instructions) /\ Len(q) = Len(p)
  BY <1>1, <1>6, SMT
<1>8. ResolvesTo(func, w, b, q)
  <2> HIDE DEF Dis
  <2> SUFFICES ASSUME NEW i \in 1..Len(p)
               PROVE  /\ q[i].op = p[i].op /\ q[i].id = p[i].id
                      /\ q[i].cond = p[i].cond /\ q[i].sense = p[i].sense
                      /\ p[i].target = NoBlock => q[i].imm = p[i].imm
                      /\ p[i].target # NoBlock =>
                            /\ p[i].target \in 1..n /\ p[i].op \in BranchOps
                            /\ q[i].imm = w[p[i].target] - w[b] - Len(Emitted(p)[i - 1])
                            /\ Dis(i) = 4 * q[i].imm
    BY <1>7 DEF ResolvesTo, Dis
  <2> QED  BY <1>5, <1>6
<1> QED  BY <1>8 DEF q

\* Words are emitted as they are.
LEMMA WordsOfWords ==
    ASSUME NEW block \in Seq(Instructions)
    PROVE  /\ Words(block) \in Seq(Instructions)
           /\ \A k \in 1..Len(Words(block)) : Words(block)[k].op # "pseudo"
           /\ Len(Words(Words(block))) = Len(Words(block))
<1> DEFINE v == Words(block)
<1>0. Len(block) \in 0..Len(block)
  BY SMT
<1>1. v \in Seq(Instructions)
  BY <1>0, EmittedIs DEF Words
<1>2. ASSUME NEW k \in 1..Len(v)
      PROVE  v[k].op # "pseudo"
  <2>1. PICK i \in 1..Len(block) :
           block[i].op # "pseudo" /\ k = Len(Emitted(block)[i - 1]) + 1
    BY WordFrom
  <2> QED  BY <2>1, WordAt
<1> HIDE DEF v
<1>3. Len(v) \in 0..Len(v)
  BY <1>1, SMT
<1>4. Len(Emitted(v)[Len(v)]) = Len(v)
  BY <1>1, <1>2, <1>3, EmittedPlainly
<1>5. Len(Words(v)) = Len(v)
  BY <1>4 DEF Words
<1> QED  BY <1>1, <1>2, <1>5 DEF v

\* code is func's code, laid out as func is.
IsCode(func, w, code) ==
    /\ code \in Seq(Seq(Instructions)) /\ Len(code) = Len(func) /\ IsLayout(code, w)
    /\ \A b \in 1..Len(func) :
          code[b] = Words(Resolved(func, b)) /\ Len(code[b]) = Len(Words(func[b]))

\* Resolving branches moves nothing.
LEMMA CodeIs ==
    ASSUME NEW func, WellFormed(func), NEW w, IsLayout(func, w)
    PROVE  IsCode(func, w, BuildFinalCode(func))
<1> DEFINE n == Len(func)
           code == BuildFinalCode(func)
           q(b) == Resolved(func, b)
<1>0. func \in Seq(Seq(Instructions)) /\ n \in Nat /\ DOMAIN func = 1..n
  <2>1. func \in Seq(Seq(Instructions))
    BY DEF WellFormed
  <2> QED  BY <2>1, SMT
<1>1. code = [b \in 1..n |-> Words(q(b))]
  BY <1>0 DEF BuildFinalCode, Resolved
<1> HIDE DEF code
<1>2. ASSUME NEW b \in 1..n
      PROVE  /\ code[b] = Words(q(b)) /\ code[b] \in Seq(Instructions)
             /\ Len(code[b]) = Len(Words(func[b])) /\ Len(Words(code[b])) = Len(code[b])
  <2> DEFINE r == q(b)
             p == func[b]
  <2>1. ResolvesTo(func, w, b, r)
    BY ResolvedIs
  <2>2. code[b] = Words(r)
    BY <1>1
  <2> HIDE DEF r, n
  <2>3. r \in Seq(Instructions) /\ Len(r) = Len(p) /\ \A i \in 1..Len(p) : p[i].op = r[i].op
    BY <2>1 DEF ResolvesTo
  <2>4. p \in Seq(Instructions) /\ Len(p) \in 0..Len(p)
    BY <1>0, SMT
  <2> HIDE DEF p
  <2>5. \A i \in 0..Len(p) : Len(Emitted(p)[i]) = Len(Emitted(r)[i])
    BY <2>3, <2>4, EmittedAlike
  <2>6. Len(Words(r)) = Len(Words(p))
    <3>1. Words(r) = Emitted(r)[Len(p)] /\ Words(p) = Emitted(p)[Len(p)]
      BY <2>3 DEF Words
    <3>2. Len(Emitted(p)[Len(p)]) = Len(Emitted(r)[Len(p)])
      BY <2>4, <2>5
    <3> QED  BY <3>1, <3>2
  <2>7. Words(r) \in Seq(Instructions) /\ Len(Words(Words(r))) = Len(Words(r))
    BY <2>3, WordsOfWords
  <2> QED  BY <2>2, <2>6, <2>7 DEF r, p
<1> HIDE DEF q, n
<1>3. code \in [1..n -> Seq(Instructions)]
  BY <1>1, <1>2
<1>4. code \in Seq(Seq(Instructions)) /\ Len(code) = n
  BY <1>0, <1>3, SMT
<1>5. IsLayout(code, w)
  <2>1. PICK v : IsLayout(code, v)
    BY <1>4, LayoutIs
  <2>2. /\ v[1] = 0 /\ \A b \in 1..n : v[b + 1] = v[b] + Len(Words(code[b]))
        /\ v \in [1 .. n + 1 -> Nat] /\ \A b \in 1 .. n + 1 : BlockOffsets(code)[b] = 4 * v[b]
    BY <1>4, <2>1 DEF IsLayout
  <2>3. /\ w[1] = 0 /\ \A b \in 1..n : w[b + 1] = w[b] + Len(Words(func[b]))
        /\ w \in [1 .. n + 1 -> Nat]
    BY DEF IsLayout, n
  <2>4. v[1] = w[1] /\ \A b \in 1..n : v[b] = w[b] => v[b + 1] = w[b + 1]
    BY <1>2, <2>2, <2>3
  <2>5. \A b \in 1 .. n + 1 : v[b] = w[b]
    <3>1. n \in Nat
      BY <1>0
    <3> QED  BY <2>4, <3>1, SumsAlike, SMT
  <2>6. \A b \in 1..n : w[b + 1] = w[b] + Len(Words(code[b]))
    BY <1>2, <2>3
  <2>7. \A b \in 1 .. n + 1 : BlockOffsets(code)[b] = 4 * w[b]
    BY <2>2, <2>5
  <2> QED  BY <1>4, <2>3, <2>6, <2>7 DEF IsLayout
<1>6. IsCode(func, w, code)
  BY <1>2, <1>4, <1>5 DEF IsCode, q, n
<1> QED  BY <1>6 DEF code

-----------------------------------------------------------------------------
(* The code does what the function means                                   *)

\* a[i] is the place of the word of instruction i of block, or of the next one.
Places(block, a) ==
    /\ a \in [1..Len(block) + 1 -> Nat] /\ a[1] = 1
    /\ a[Len(block) + 1] = Len(Words(block)) + 1
    /\ \A i \in 1..Len(block) :
          /\ Len(Emitted(block)[i - 1]) = a[i] - 1
          /\ block[i].op = "pseudo" => a[i + 1] = a[i]
          /\ block[i].op # "pseudo" => a[i + 1] = a[i] + 1 /\ a[i] \in 1..Len(Words(block))

\* Such places exist.
LEMMA PlacesAre ==
    ASSUME NEW block \in Seq(Instructions)
    PROVE  \E a : Places(block, a)
<1> DEFINE n == Len(block)
           e(i) == Len(Emitted(block)[i])
           a == [i \in 1 .. n + 1 |-> e(i - 1) + 1]
<1>0. n \in Nat
  BY SMT
<1>1. \A i \in 0..n : e(i) \in Nat
  BY EmittedGrows
<1>2. e(0) = 0 /\ e(n) = Len(Words(block))
  <2>1. Len(<<>>) = 0
    BY SMT
  <2> QED  BY <2>1, EmittedIs DEF Words
<1>3. ASSUME NEW i \in 1..n
      PROVE  /\ block[i].op = "pseudo" => e(i) = e(i - 1)
             /\ block[i].op # "pseudo" =>
                   e(i) = e(i - 1) + 1 /\ e(i - 1) + 1 \in 1..Len(Words(block))
  BY EmittedStep, WordAt
<1> HIDE DEF n, e
<1>4. \A i \in 0..n : i + 1 \in 1 .. n + 1
  BY <1>0, SMT
<1>5. \A i \in 0..n : a[i + 1] = e(i) + 1
  <2> TAKE i \in 0..n
  <2> DEFINE j == i + 1
  <2>1. j \in 1 .. n + 1 /\ j - 1 = i
    BY <1>0, SMT
  <2> HIDE DEF j
  <2>2. a[j] = e(j - 1) + 1
    BY <2>1
  <2>3. a[j] = e(i) + 1
    BY <2>1, <2>2
  <2> QED  BY <2>3 DEF j
<1>6. \A i \in 1..n : a[i] = e(i - 1) + 1 /\ i \in 0..n /\ i - 1 \in 0..n
  <2>1. \A i \in 1..n : i \in 1 .. n + 1 /\ i \in 0..n /\ i - 1 \in 0..n
    BY <1>0, SMT
  <2> QED  BY <2>1
<1>7. a \in [1 .. n + 1 -> Nat]
  <2>1. \A i \in 1 .. n + 1 : i - 1 \in 0..n
    BY <1>0, SMT
  <2>2. \A i \in 1 .. n + 1 : e(i - 1) + 1 \in Nat
    <3>1. \A x \in Nat : x + 1 \in Nat
      BY SMT
    <3> QED  BY <1>1, <2>1, <3>1
  <2> QED  BY <2>2
<1> HIDE DEF a
<1>8. a[1] = 1 /\ a[n + 1] = Len(Words(block)) + 1
  <2>1. 0 \in 0..n /\ n \in 0..n /\ 0 + 1 = 1
    BY <1>0, SMT
  <2>2. a[0 + 1] = e(0) + 1 /\ a[n + 1] = e(n) + 1
    BY <1>5, <2>1
  <2> QED  BY <1>2, <2>1, <2>2
<1>9. ASSUME NEW i \in 1..n
      PROVE  /\ e(i - 1) = a[i] - 1
             /\ block[i].op = "pseudo" => a[i + 1] = a[i]
             /\ block[i].op # "pseudo" => a[i + 1] = a[i] + 1 /\ a[i] \in 1..Len(Words(block))
  <2>1. a[i] = e(i - 1) + 1 /\ a[i + 1] = e(i) + 1 /\ e(i - 1) \in Nat
    BY <1>1, <1>5, <1>6
  <2>2. e(i - 1) = a[i] - 1
    BY <2>1, SMT
  <2> QED  BY <1>3, <2>1, <2>2
<1>10. Places(block, a)
  BY <1>7, <1>8, <1>9 DEF Places, e, n
<1> QED  BY <1>10

\* From the k-th of m words of block b, imm words lead out of b and to block t.
IsArrival(w, b, t, m, k, imm) ==
    /\ k + imm \notin k + 1 .. m
    /\ 4 * w[b] + 4 * (k - 1 + imm) = 4 * w[t]

\* A resolved branch to a block leaves its block, and arrives at that block.
LEMMA Arrives ==
    ASSUME NEW n \in Nat, NEW w \in [1 .. n + 1 -> Nat],
           \A x, y \in 1 .. n + 1 : x <= y => w[x] <= w[y],
           NEW b \in 1..n, NEW t \in 1..n, NEW m \in Nat, w[b + 1] = w[b] + m,
           NEW k \in 1..m, NEW imm, imm = w[t] - w[b] - (k - 1)
    PROVE  IsArrival(w, b, t, m, k, imm)
<1>1. b \in 1 .. n + 1 /\ t \in 1 .. n + 1 /\ b + 1 \in 1 .. n + 1
  BY SMT
<1>2. w[b] \in Nat /\ w[t] \in Nat
  BY <1>1
<1>3. (t <= b => w[t] <= w[b]) /\ (b + 1 <= t => w[b + 1] <= w[t])
  BY <1>1
<1>4. t <= b \/ b + 1 <= t
  BY SMT
<1> DEFINE x == w[b]
           y == w[t]
<1>5. y <= x \/ x + m <= y
  BY <1>3, <1>4
<1>6. x \in Nat /\ y \in Nat /\ imm = y - x - (k - 1)
  BY <1>2
<1> HIDE DEF x, y
<1>8. k + imm = y - x + 1 /\ k - 1 + imm = y - x
  <2>1. k + (y - x - (k - 1)) = y - x + 1 /\ k - 1 + (y - x - (k - 1)) = y - x
    BY <1>6, SMT
  <2> QED  BY <1>6, <2>1
<1>9. 4 * x + 4 * (y - x) = 4 * y
  BY <1>6, SMT
<1>10. y - x + 1 \notin k + 1 .. m
  BY <1>5, <1>6, SMT
<1>7. k + imm \notin k + 1 .. m /\ 4 * x + 4 * (k - 1 + imm) = 4 * y
  BY <1>8, <1>9, <1>10
<1> QED  BY <1>7 DEF x, y, IsArrival

\* Where a branch of code goes on in its block, or 0.
Into(v) ==
    [k \in DOMAIN v |-> IF k + v[k].imm \in k + 1 .. Len(v) THEN k + v[k].imm ELSE 0]

\* Where it leaves the block for, in bytes.
Out(v, offset) == [k \in DOMAIN v |-> offset + 4 * (k - 1 + v[k].imm)]

\* Runs of code are well defined.
LEMMA IntoForward ==
    ASSUME NEW v \in Seq(Instructions), NEW holds
    PROVE  Forward(v, holds, Into(v))
<1> SUFFICES ASSUME NEW k \in 1..Len(v)
             PROVE  Into(v)[k] = 0 \/ Into(v)[k] \in k + 1 .. Len(v) + 1
  BY DEF Forward
<1>1. k \in DOMAIN v
  BY SMT
<1>2. \A x \in k + 1 .. Len(v) : x \in k + 1 .. Len(v) + 1
  BY SMT
<1>3. Into(v)[k] = 0 \/ Into(v)[k] \in k + 1 .. Len(v)
  BY <1>1 DEF Into
<1> QED  BY <1>2, <1>3

\* v is the code of block b of func, with the words of its instructions at a.
CodeAt(func, w, b, a, v) ==
    /\ v \in Seq(Instructions) /\ Len(v) = Len(Words(func[b]))
    /\ \A i \in 1..Len(func[b]) : func[b][i].op # "pseudo" =>
          /\ a[i] \in 1..Len(v)
          /\ v[a[i]].op = func[b][i].op /\ v[a[i]].id = func[b][i].id
          /\ v[a[i]].cond = func[b][i].cond /\ v[a[i]].sense = func[b][i].sense
          /\ func[b][i].target = NoBlock => v[a[i]].imm = func[b][i].imm
          /\ func[b][i].target # NoBlock =>
                v[a[i]].imm = w[func[b][i].target] - w[b] - (a[i] - 1)

\* It is what build_final_code makes of the block.
LEMMA CodeAtIs ==
    ASSUME NEW func, WellFormed(func), NEW w, IsLayout(func, w), NEW b \in 1..Len(func),
           NEW code, IsCode(func, w, code), NEW a, Places(func[b], a)
    PROVE  CodeAt(func, w, b, a, code[b])
<1> DEFINE p == func[b]
           q == Resolved(func, b)
           v == code[b]
<1>1. ResolvesTo(func, w, b, q)
  BY ResolvedIs
<1>2. v = Words(q) /\ Len(v) = Len(Words(p))
  BY DEF IsCode
<1>3. p \in Seq(Instructions)
  <2>1. func \in Seq(Seq(Instructions))
    BY DEF WellFormed
  <2> QED  BY <2>1, SMT
<1> HIDE DEF q, p, v
<1>4. q \in Seq(Instructions) /\ Len(q) = Len(p) /\ \A i \in 1..Len(p) : p[i].op = q[i].op
  BY <1>1 DEF ResolvesTo, p
<1>5. v \in Seq(Instructions)
  BY <1>2, <1>4, WordsOfWords
<1>6. \A i \in 0..Len(p) : Len(Emitted(p)[i]) = Len(Emitted(q)[i])
  BY <1>3, <1>4, EmittedAlike
<1>7. ASSUME NEW i \in 1..Len(p), p[i].op # "pseudo"
      PROVE  a[i] \in 1..Len(v) /\ v[a[i]] = q[i] /\ Len(Emitted(p)[i - 1]) = a[i] - 1
  <2>0. Len(p) \in Nat
    BY <1>3, SMT
  <2>1. i - 1 \in 0..Len(p) /\ i \in 1 .. Len(p) + 1
    BY <2>0, SMT
  <2>2. Len(Emitted(p)[i - 1]) = a[i] - 1 /\ a[i] \in 1..Len(v) /\ a[i] \in Nat
    BY <1>2, <1>7, <2>1 DEF Places, p
  <2>3. Len(Emitted(q)[i - 1]) + 1 = a[i]
    <3>1. a[i] - 1 + 1 = a[i]
      BY <2>2, SMT
    <3> QED  BY <1>6, <2>1, <2>2, <3>1
  <2>4. Words(q)[Len(Emitted(q)[i - 1]) + 1] = q[i]
    <3>1. i \in 1..Len(q) /\ q[i].op # "pseudo"
      BY <1>4, <1>7
    <3> QED  BY <1>4, <3>1, WordAt
  <2> QED  BY <1>2, <2>2, <2>3, <2>4
<1>8. ASSUME NEW i \in 1..Len(p), p[i].op # "pseudo"
      PROVE  /\ a[i] \in 1..Len(v)
             /\ v[a[i]].op = p[i].op /\ v[a[i]].id = p[i].id
             /\ v[a[i]].cond = p[i].cond /\ v[a[i]].sense = p[i].sense
             /\ p[i].target = NoBlock => v[a[i]].imm = p[i].imm
             /\ p[i].target # NoBlock => v[a[i]].imm = w[p[i].target] - w[b] - (a[i] - 1)
  <2>1. a[i] \in 1..Len(v) /\ v[a[i]] = q[i] /\ Len(Emitted(p)[i - 1]) = a[i] - 1
    BY <1>7, <1>8
  <2>2. /\ q[i].op = p[i].op /\ q[i].id = p[i].id
        /\ q[i].cond = p[i].cond /\ q[i].sense = p[i].sense
        /\ p[i].target = NoBlock => q[i].imm = p[i].imm
        /\ p[i].target # NoBlock =>
              q[i].imm = w[p[i].target] - w[b] - Len(Emitted(p)[i - 1])
    BY <1>1 DEF ResolvesTo, p
  <2> QED  BY <2>1, <2>2
<1> QED  BY <1>2, <1>5, <1>8 DEF CodeAt, p, v

\* The fields of what a run yields.
LEMMA Yields ==
    ASSUME NEW x, NEW t, NEW y, x = [trace |-> t, to |-> y]
    PROVE  x.trace = t /\ x.to = y
  OBVIOUS

\* The code of block b executes what x says, and arrives where x says.
Does(code, b, holds, x) ==
    /\ Effect(code, b, holds).trace = x.trace
    /\ Effect(code, b, holds).to = BlockOffsets(code)[x.to]

\* The code of a block does what the block means: from the word of an instruction it
\* executes what the block does from the instruction, and arrives at the same block.
LEMMA CodeMeans ==
    ASSUME NEW func, WellFormed(func), NEW w, IsLayout(func, w), NEW b \in 1..Len(func),
           NEW code, IsCode(func, w, code), NEW holds
    PROVE  Does(code, b, holds, MeaningOf(func[b], holds, b + 1))
<1> DEFINE n == Len(func)
           p == func[b]
           N == Len(p)
           v == code[b]
           m == Len(v)
           off == BlockOffsets(code)
           end == off[b + 1]
           RA(r, i) == RunFrom(p, holds, Inner(p), Outer(p), b + 1, r, i)
           RB(s, k) == RunFrom(v, holds, Into(v), Out(v, off[b]), end, s, k)
<1>1. /\ func \in Seq(Seq(Instructions)) /\ n \in Nat /\ DOMAIN func = 1..n
      /\ p \in Seq(Instructions) /\ N \in Nat
      /\ 1..n \in SUBSET (Nat \ {0})
  <2>1. func \in Seq(Seq(Instructions))
    BY DEF WellFormed
  <2>2. p \in Seq(Instructions) /\ n \in Nat /\ DOMAIN func = 1..n
    BY <2>1, SMT
  <2> QED  BY <2>1, <2>2, SMT
<1>2. WellFormedBlock(p, 1..n)
  BY <1>1 DEF WellFormed
<1>3. PICK a : Places(p, a)
  BY <1>1, PlacesAre
<1>4. CodeAt(func, w, b, a, v)
  BY <1>3, CodeAtIs
<1>5. v \in Seq(Instructions) /\ m = Len(Words(p))
  BY <1>4 DEF CodeAt
<1>6. m \in Nat /\ DOMAIN v = 1..m
  BY <1>5, SMT
<1>7. /\ w \in [1 .. n + 1 -> Nat] /\ w[b + 1] = w[b] + m
      /\ \A x, y \in 1 .. n + 1 : x <= y => w[x] <= w[y]
  BY <1>1, <1>5, LayoutGrows DEF IsLayout
<1>8. \A x \in 1 .. n + 1 : off[x] = 4 * w[x]
  BY DEF IsCode, IsLayout
<1>9. PICK r : IsRun(p, holds, Inner(p), Outer(p), b + 1, r)
  BY <1>1, <1>2, InnerForward, RunIs
<1>10. PICK s : IsRun(v, holds, Into(v), Out(v, off[b]), end, s)
  BY <1>5, IntoForward, RunIs
<1>11. /\ MeaningOf(func[b], holds, b + 1) = r[1]
       /\ \A i \in 1 .. N + 1 : r[i] = RA(r, i)
  BY <1>9 DEF IsRun, MeaningOf
<1>12. /\ Effect(code, b, holds) = s[1]
       /\ \A k \in 1 .. m + 1 : s[k] = RB(s, k)
  BY <1>10 DEF IsRun, Effect, Into, Out
<1>13. /\ a \in [1 .. N + 1 -> Nat] /\ a[1] = 1 /\ a[N + 1] = m + 1
       /\ \A i \in 1..N :
             /\ p[i].op = "pseudo" => a[i + 1] = a[i]
             /\ p[i].op # "pseudo" => a[i + 1] = a[i] + 1 /\ a[i] \in 1..m
  BY <1>3, <1>5 DEF Places
<1> DEFINE Match(i) == s[a[i]].trace = r[i].trace /\ s[a[i]].to = off[r[i].to]
           A == {i \in 1 .. N + 1 : Match(i)}
<1>14. ASSUME NEW i \in 1 .. N + 1, \A j \in i + 1 .. N + 1 : j \in A
       PROVE  i \in A
  <2>1. CASE i = N + 1
    <3>1. m + 1 \in 1 .. m + 1
      BY <1>6, SMT
    <3>2. s[m + 1] = RB(s, m + 1) /\ r[i] = RA(r, i)
      BY <1>11, <1>12, <3>1
    <3>3. r[i] = [trace |-> <<>>, to |-> b + 1]
      BY <2>1, <3>2 DEF RunFrom
    <3>4. s[m + 1] = [trace |-> <<>>, to |-> end]
      BY <3>2 DEF RunFrom
    <3>5. a[i] = m + 1
      BY <1>13, <2>1
    <3> HIDE DEF off
    <3>6. s[a[i]].trace = <<>> /\ s[a[i]].to = end
      BY <3>4, <3>5, Yields
    <3>7. r[i].trace = <<>> /\ r[i].to = b + 1
      BY <3>3, Yields
    <3> QED  BY <3>6, <3>7
  <2>2. CASE i # N + 1 /\ p[i].op = "pseudo"
    <3>1. i \in 1..N /\ i + 1 \in i + 1 .. N + 1
      BY <1>1, <2>2, SMT
    <3>2. Match(i + 1)
      BY <1>14, <3>1
    <3>3. a[i + 1] = a[i]
      BY <1>13, <2>2, <3>1
    <3>4. r[i] = r[i + 1]
      <4>1. r[i] = RA(r, i)
        BY <1>11
      <4>2. ~Taken(p[i], holds)
        BY <2>2 DEF Taken, BranchOps
      <4> QED  BY <2>2, <4>1, <4>2 DEF RunFrom
    <3> QED  BY <3>2, <3>3, <3>4
  <2>3. CASE i # N + 1 /\ p[i].op # "pseudo"
    <3> DEFINE k == a[i]
    <3>1. i \in 1..N /\ i + 1 \in i + 1 .. N + 1
      BY <1>1, <2>3, SMT
    <3>2. k \in 1..m /\ a[i + 1] = k + 1
      BY <1>13, <2>3, <3>1
    <3>3. /\ v[k].op = p[i].op /\ v[k].id = p[i].id
          /\ v[k].cond = p[i].cond /\ v[k].sense = p[i].sense
          /\ p[i].target = NoBlock => v[k].imm = p[i].imm
          /\ p[i].target # NoBlock => v[k].imm = w[p[i].target] - w[b] - (k - 1)
      BY <1>4, <2>3, <3>1 DEF CodeAt
    <3> HIDE DEF k
    <3>4. s[k + 1].trace = r[i + 1].trace /\ s[k + 1].to = off[r[i + 1].to]
      BY <1>14, <3>1, <3>2
    <3>5. k # m + 1 /\ k \in 1 .. m + 1 /\ k # 0 /\ k \in DOMAIN v
      BY <1>6, <3>2, SMT
    <3>6. r[i] = RA(r, i) /\ s[k] = RB(s, k)
      BY <1>11, <1>12, <3>5
    <3>7. Taken(v[k], holds) <=> Taken(p[i], holds)
      BY <3>3 DEF Taken
    <3> HIDE DEF m, off, v
    <3>8. CASE p[i].op = "brk"
      <4>1. r[i] = [trace |-> <<"trap">>, to |-> b + 1]
        BY <2>3, <3>6, <3>8 DEF RunFrom
      <4>2. s[k] = [trace |-> <<"trap">>, to |-> end]
        BY <3>3, <3>5, <3>6, <3>8 DEF RunFrom, m
      <4>3. r[i].trace = <<"trap">> /\ r[i].to = b + 1
        BY <4>1, Yields
      <4> HIDE DEF end
      <4>4. s[k].trace = <<"trap">> /\ s[k].to = end
        BY <4>2, Yields
      <4> QED  BY <4>3, <4>4 DEF end, k
    <3>9. CASE p[i].op = "plain"
      <4>1. r[i] = [trace |-> <<p[i].id>> \o r[i + 1].trace, to |-> r[i + 1].to]
        BY <2>3, <3>6, <3>9 DEF RunFrom
      <4>2. s[k] = [trace |-> <<v[k].id>> \o s[k + 1].trace, to |-> s[k + 1].to]
        BY <3>3, <3>5, <3>6, <3>9 DEF RunFrom, m
      <4> DEFINE tr == <<p[i].id>> \o r[i + 1].trace
                 x == r[i + 1].to
      <4>a. s[k] = [trace |-> tr, to |-> off[x]] /\ r[i] = [trace |-> tr, to |-> x]
        BY <3>3, <3>4, <4>1, <4>2
      <4> HIDE DEF tr, x
      <4>e. r[i] = [trace |-> tr, to |-> x]
        BY <4>a
      <4>b. r[i].trace = tr /\ r[i].to = x
        BY <4>e, Yields
      <4> DEFINE y == off[x]
      <4>c. s[k] = [trace |-> tr, to |-> y]
        BY <4>a
      <4> HIDE DEF y
      <4>d. s[k].trace = tr /\ s[k].to = y
        BY <4>c, Yields
      <4>3. s[k].trace = r[i].trace /\ s[k].to = off[r[i].to]
        BY <4>b, <4>d DEF y
      <4> QED  BY <4>3 DEF k
    <3>10. CASE p[i].op \notin {"brk", "plain"} /\ ~Taken(p[i], holds)
      <4>1. r[i] = r[i + 1]
        BY <2>3, <3>6, <3>10 DEF RunFrom
      <4>2. s[k] = s[k + 1]
        BY <3>3, <3>5, <3>6, <3>7, <3>10 DEF RunFrom, m
      <4>3. s[k].trace = r[i].trace /\ s[k].to = off[r[i].to]
        BY <3>4, <4>1, <4>2
      <4> QED  BY <4>3 DEF k
    <3>11. CASE p[i].op \notin {"brk", "plain"} /\ Taken(p[i], holds)
      <4>1. Leads(p, 1..n, i)
        BY <1>1, <1>2, <3>1, <3>11, Goes
      <4>2. r[i] = IF Inner(p)[i] # 0 THEN r[Inner(p)[i]]
                   ELSE [trace |-> <<>>, to |-> Outer(p)[i]]
        BY <2>3, <3>6, <3>11 DEF RunFrom
      <4>3. s[k] = IF Into(v)[k] # 0 THEN s[Into(v)[k]]
                   ELSE [trace |-> <<>>, to |-> Out(v, off[b])[k]]
        BY <3>3, <3>5, <3>6, <3>7, <3>11 DEF RunFrom, m
      <4>4. /\ Into(v)[k] = IF k + v[k].imm \in k + 1 .. m THEN k + v[k].imm ELSE 0
            /\ Out(v, off[b])[k] = off[b] + 4 * (k - 1 + v[k].imm)
        BY <3>5 DEF Into, Out, m
      <4>b. b \in 1 .. n + 1 /\ b + 1 \in 1 .. n + 1
        BY <1>1, SMT
      <4>5. CASE p[i].target # NoBlock
        <5> DEFINE t == p[i].target
                   imm == v[k].imm
        <5>1. t \in 1..n /\ Inner(p)[i] = 0 /\ Outer(p)[i] = t
          BY <4>1, <4>5 DEF Leads
        <5>2. imm = w[t] - w[b] - (k - 1)
          BY <3>3, <4>5
        <5> HIDE DEF t, imm
        <5>a. IsArrival(w, b, t, m, k, imm)
          BY <1>1, <1>6, <1>7, <3>2, <5>1, <5>2, Arrives
        <5>3. /\ k + imm \notin k + 1 .. m
              /\ 4 * w[b] + 4 * (k - 1 + imm) = 4 * w[t]
          BY <5>a DEF IsArrival
        <5>4. t \in 1 .. n + 1
          BY <1>1, <5>1, SMT
        <5>5. off[b] + 4 * (k - 1 + imm) = off[t]
          BY <1>8, <4>b, <5>3, <5>4
        <5>6. s[k] = [trace |-> <<>>, to |-> off[t]]
          BY <4>3, <4>4, <5>3, <5>5 DEF imm
        <5>7. r[i] = [trace |-> <<>>, to |-> t]
          BY <4>2, <5>1
        <5>8. s[k].trace = <<>> /\ s[k].to = off[t]
          BY <5>6, Yields
        <5>9. r[i].trace = <<>> /\ r[i].to = t
          BY <5>7, Yields
        <5>10. s[k].trace = r[i].trace /\ s[k].to = off[r[i].to]
          BY <5>8, <5>9
        <5> QED  BY <5>10 DEF k
      <4>6. CASE p[i].target = NoBlock
        <5>1. /\ p[i].imm = 2 /\ Inner(p)[i] = i + 2 /\ i + 2 # 0 /\ i + 2 \in i + 1 .. N + 1
              /\ i + 1 \in 1..N /\ p[i + 1].op \in {"b", "brk"}
          BY <4>1, <4>6 DEF Leads
        <5>2. r[i] = r[i + 2]
          BY <4>2, <5>1
        <5>3. a[i + 2] = k + 2 /\ k + 1 \in 1..m
          <6>1. a[i + 1 + 1] = a[i + 1] + 1 /\ a[i + 1] \in 1..m
            BY <1>13, <5>1
          <6>2. i + 1 + 1 = i + 2 /\ k + 1 + 1 = k + 2
            BY <3>2, SMT
          <6> QED  BY <3>2, <6>1, <6>2
        <5>4. s[k + 2].trace = r[i + 2].trace /\ s[k + 2].to = off[r[i + 2].to]
          BY <1>14, <5>1, <5>3
        <5>5. v[k].imm = 2
          BY <3>3, <4>6, <5>1
        <5>6. s[k] = s[k + 2]
          <6>1. CASE k + 2 \in k + 1 .. m
            <7>1. k + 2 # 0
              BY <3>2, SMT
            <7>2. Into(v)[k] = k + 2
              BY <4>4, <5>5, <6>1
            <7> QED  BY <4>3, <7>1, <7>2
          <6>2. CASE k + 2 \notin k + 1 .. m
            <7>1. k + 2 = m + 1 /\ k - 1 + 2 = m /\ m + 1 \in 1 .. m + 1
              BY <1>6, <3>2, <5>3, <6>2, SMT
            <7>2. s[k] = [trace |-> <<>>, to |-> off[b] + 4 * m]
              BY <4>3, <4>4, <5>5, <6>2, <7>1
            <7>3. s[m + 1] = RB(s, m + 1)
              BY <1>12, <7>1
            <7>4. s[m + 1] = [trace |-> <<>>, to |-> end]
              BY <7>3 DEF RunFrom, m
            <7>5. end = off[b] + 4 * m
              <8>1. off[b] = 4 * w[b] /\ end = 4 * w[b + 1] /\ w[b] \in Nat
                BY <1>7, <1>8, <4>b
              <8>2. 4 * (w[b] + m) = 4 * w[b] + 4 * m
                BY <1>6, <8>1, SMT
              <8> QED  BY <1>7, <8>1, <8>2
            <7> QED  BY <7>1, <7>2, <7>4, <7>5
          <6> QED  BY <6>1, <6>2
        <5>7. s[k].trace = r[i].trace /\ s[k].to = off[r[i].to]
          BY <5>2, <5>4, <5>6
        <5> QED  BY <5>7 DEF k
      <4> QED  BY <4>5, <4>6
    <3> QED  BY <3>8, <3>9, <3>10, <3>11
  <2> QED  BY <2>1, <2>2, <2>3
<1>15. N + 1 \in Nat /\ 1 \in 1 .. N + 1
  BY <1>1, SMT
<1> DEFINE M == N + 1
<1>16. 1 .. M \subseteq A
  <2> HIDE DEF A, M
  <2>1. M \in Nat /\ \A i \in 1 .. M : (\A j \in i + 1 .. M : j \in A) => i \in A
    BY <1>14, <1>15 DEF M
  <2> QED  BY <2>1, DownTo
<1>17. Match(1)
  BY <1>15, <1>16
<1> HIDE DEF off
<1> QED  BY <1>11, <1>12, <1>13, <1>17 DEF Does, off

-----------------------------------------------------------------------------
(* Lowering                                                                *)

\* Code that lowering yields does from every block, whichever conditions hold, what
\* the block meant before relaxation.
THEOREM EncodedFlowsAlike ==
    ASSUME NEW func, WellFormed(func), Lower(func).result = "Encoded"
    PROVE  FlowsAlike(func, Lower(func).code)
<1> DEFINE g == RelaxBranches(func).func
           code == BuildFinalCode(g)
           n == Len(func)
<1>1. Lower(func).code = code
  BY DEF Lower
<1>2. Refines(func, g)
  BY RelaxBranchesRefines
<1> HIDE DEF g
<1>3. WellFormed(g) /\ Len(g) = n
  BY <1>2 DEF Refines
<1>4. g \in Seq(Seq(Instructions)) /\ func \in Seq(Seq(Instructions))
  BY <1>3 DEF WellFormed
<1>5. PICK w : IsLayout(g, w)
  BY <1>4, LayoutIs
<1>6. IsCode(g, w, code)
  BY <1>3, <1>5, CodeIs
<1> HIDE DEF code
<1>7. DOMAIN func = 1..n /\ \A b \in 1..n : DOMAIN func[b] = 1..Len(func[b])
  BY <1>4, SMT
<1>8. ASSUME NEW b \in DOMAIN func, NEW holds \in [Conditions(func) -> BOOLEAN]
      PROVE  /\ Effect(code, b, holds).trace = Meaning(func, b, holds).trace
             /\ Effect(code, b, holds).to = BlockOffsets(code)[Meaning(func, b, holds).to]
  <2>1. b \in 1..n /\ b \in 1..Len(g)
    BY <1>3, <1>7
  <2>2. Decided(func[b], holds)
    <3> SUFFICES ASSUME NEW i \in Conditional(func[b])
                 PROVE  func[b][i].cond \in Conditions(func)
      BY DEF Decided
    <3>1. i \in DOMAIN func[b]
      BY <1>7, <2>1 DEF Conditional
    <3> DEFINE C(x) == {func[x][j].cond : j \in DOMAIN func[x]}
    <3>2. func[b][i].cond \in C(b)
      BY <3>1
    <3>3. Conditions(func) = UNION {C(x) : x \in DOMAIN func}
      BY DEF Conditions
    <3> HIDE DEF C
    <3> QED  BY <3>2, <3>3
  <2>3. Keeps(func[b], g[b])
    BY <1>2, <2>1 DEF Refines
  <2>4. MeaningOf(g[b], holds, b + 1) = MeaningOf(func[b], holds, b + 1)
    BY <2>2, <2>3 DEF Keeps, MeansAlike
  <2>5. Meaning(func, b, holds) = MeaningOf(func[b], holds, b + 1)
    BY DEF Meaning, MeaningOf, Inner, Outer
  <2>6. Does(code, b, holds, MeaningOf(g[b], holds, b + 1))
    BY <1>3, <1>5, <1>6, <2>1, CodeMeans
  <2> QED  BY <2>4, <2>5, <2>6 DEF Does
<1> QED  BY <1>1, <1>8 DEF FlowsAlike

\* A word that does not encode is a branch that is out of range for in_range too.
LEMMA UnencodableIsFar ==
    ASSUME NEW func, WellFormed(func), Lower(func).result = "EncodingFailed"
    PROVE  HasOutOfRangeBranches(RelaxBranches(func).func)
<1> DEFINE g == RelaxBranches(func).func
           code == BuildFinalCode(g)
<1>1. \E b \in DOMAIN code : \E k \in DOMAIN code[b] : ~Encodable(code[b][k])
  BY DEF Lower
<1>2. Refines(func, g)
  BY RelaxBranchesRefines
<1> HIDE DEF g
<1>3. WellFormed(g)
  BY <1>2 DEF Refines
<1>4. g \in Seq(Seq(Instructions))
  BY <1>3 DEF WellFormed
<1>5. PICK w : IsLayout(g, w)
  BY <1>4, LayoutIs
<1>6. IsCode(g, w, code)
  BY <1>3, <1>5, CodeIs
<1> HIDE DEF code
<1>b. PICK b \in DOMAIN code : \E k \in DOMAIN code[b] : ~Encodable(code[b][k])
  BY <1>1
<1>7. PICK k \in DOMAIN code[b] : ~Encodable(code[b][k])
  BY <1>b
<1> DEFINE p == g[b]
           q == Resolved(g, b)
<1>8. code \in Seq(Seq(Instructions)) /\ Len(code) = Len(g)
  BY <1>6 DEF IsCode
<1>9. b \in 1..Len(g) /\ p \in Seq(Instructions) /\ DOMAIN g = 1..Len(g) /\ DOMAIN p = 1..Len(p)
  <2>1. b \in 1..Len(g)
    BY <1>8, SMT
  <2> QED  BY <1>4, <2>1, SMT
<1>10. ResolvesTo(g, w, b, q)
  BY <1>3, <1>5, <1>9, ResolvedIs
<1>11. code[b] = Words(q)
  BY <1>6, <1>9 DEF IsCode
<1> HIDE DEF q
<1>12. q \in Seq(Instructions) /\ Len(q) = Len(p)
  BY <1>10 DEF ResolvesTo
<1>13. k \in 1..Len(Words(q))
  <2>1. Words(q) \in Seq(Instructions)
    BY <1>12, WordsOfWords
  <2>2. DOMAIN Words(q) = 1..Len(Words(q))
    BY <2>1, SMT
  <2> QED  BY <1>11, <2>2
<1>14. PICK i \in 1..Len(q) : q[i].op # "pseudo" /\ k = Len(Emitted(q)[i - 1]) + 1
  BY <1>12, <1>13, WordFrom
<1>15. code[b][k] = q[i]
  BY <1>11, <1>12, <1>14, WordAt
<1>16. q[i] \in Instructions
  BY <1>12, SMT
<1>17. q[i].op \in BranchOps /\ q[i].imm \in Int
  BY <1>7, <1>15, <1>16, Fields DEF Encodable
<1>18. ~(q[i].imm \in -Shl[Bits[q[i].op] - 1] .. Shl[Bits[q[i].op] - 1] - 1)
  BY <1>7, <1>15, <1>17 DEF Encodable
<1>19. i \in 1..Len(p) /\ i \in DOMAIN p
  BY <1>9, <1>12
<1>20. /\ q[i].op = p[i].op
       /\ p[i].target = NoBlock => q[i].imm = p[i].imm
       /\ p[i].target # NoBlock => Displacement(g, BlockOffsets(g), b, i) = 4 * q[i].imm
  BY <1>10, <1>19 DEF ResolvesTo
<1>21. p[i].target # NoBlock
  <2> SUFFICES ASSUME p[i].target = NoBlock PROVE FALSE
    OBVIOUS
  <2>1. NoBlock \notin 1..Len(g)
    BY SMT DEF NoBlock
  <2>2. WellFormedBlock(p, 1..Len(g))
    BY <1>3, <1>9 DEF WellFormed
  <2>3. p[i].imm = 2
    BY <1>17, <1>19, <1>20, <2>1, <2>2 DEF WellFormedBlock, BranchOps
  <2>4. q[i].imm = 2
    BY <1>20, <2>3
  <2> QED  BY <1>17, <1>18, <2>4, RangesAgree
<1>22. ~InRange(p[i].op, Displacement(g, BlockOffsets(g), b, i))
  BY <1>17, <1>18, <1>20, <1>21, RangesAgree
<1>23. FarBranches(g, BlockOffsets(g), b) # {}
  BY <1>19, <1>21, <1>22 DEF FarBranches
<1> QED  BY <1>9, <1>23 DEF HasOutOfRangeBranches, g
=============================================================================
