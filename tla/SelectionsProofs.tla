--------------------------- MODULE SelectionsProofs ---------------------------
(***************************************************************************)
(* What Kept returns, for every list and every set.  The definition is a   *)
(* recursion over the length of the list, so its facts are proved by       *)
(* induction: of the numbers that fail one there would be a least.         *)
(***************************************************************************)
EXTENDS Selections, WellFoundedInduction, TLAPS

LEMMA LeastNumber ==
    ASSUME NEW T \in SUBSET Nat, T # {}
    PROVE  \E n \in T : \A m \in T : n <= m
  <1>1. IsWellFoundedOn(OpToRel(<, Nat), Nat)
    BY NatLessThanWellFounded, Zenon
  <1>2. PICK n \in T : \A m \in T : ~ (<<m, n>> \in OpToRel(<, Nat))
    BY <1>1, WFMin, Zenon
  <1>3. \A m \in T : ~ (m < n)
    BY <1>2 DEF OpToRel
  <1>4. QED
    BY <1>3, SMT

\* A set that holds 0, and n with n - 1, holds all numbers up to k.
LEMMA UpTo ==
    ASSUME NEW k \in Nat, NEW S, 0 \in S,
           \A n \in 0..k : n # 0 /\ n - 1 \in S => n \in S
    PROVE  \A n \in 0..k : n \in S
  <1> DEFINE T == {n \in 0..k : n \notin S}
  <1>1. SUFFICES ASSUME T # {} PROVE FALSE
    OBVIOUS
  <1>2. T \in SUBSET Nat
    OBVIOUS
  <1>3. PICK n \in T : \A m \in T : n <= m
    <2> HIDE DEF T
    <2>1. QED
      BY <1>1, <1>2, LeastNumber
  <1>4. n # 0 /\ n \in 0..k /\ n \notin S /\ n - 1 \in 0..k
    OBVIOUS
  <1>5. n - 1 \in S
    BY <1>3, <1>4
  <1>6. QED
    BY <1>4, <1>5

-----------------------------------------------------------------------------
\* One round of the loop, at row n with what is kept of the rows before it.
Round(rows, S, n, before) ==
    IF rows[n] \in S THEN Append(before, rows[n]) ELSE before

\* f is the loop over the first k rows.
IsLoop(f, rows, S, k) ==
    /\ f \in [0..k -> Seq(S)]
    /\ f[0] = <<>>
    /\ \A n \in 1..k : f[n] = Round(rows, S, n, f[n - 1])

\* A loop that ran over n - 1 rows runs over the next.
LEMMA LoopGoesOn ==
    ASSUME NEW rows, NEW S, NEW n \in Nat \ {0}, NEW f, IsLoop(f, rows, S, n - 1)
    PROVE  \E g : IsLoop(g, rows, S, n)
  <1> DEFINE g == [m \in 0..n |-> IF m = n THEN Round(rows, S, n, f[n - 1]) ELSE f[m]]
  <1>1. n - 1 \in 0..(n - 1) /\ n \in 0..n
    OBVIOUS
  <1>2. Round(rows, S, n, f[n - 1]) \in Seq(S)
    <2>1. f[n - 1] \in Seq(S)
      BY <1>1 DEF IsLoop
    <2>2. QED
      BY <2>1 DEF Round
  <1>3. \A m \in 0..n : m # n => m \in 0..(n - 1) /\ f[m] \in Seq(S)
    BY DEF IsLoop
  <1>4. g \in [0..n -> Seq(S)]
    BY <1>2, <1>3
  <1>5. g[0] = <<>>
    BY DEF IsLoop
  <1>6. ASSUME NEW m \in 1..n PROVE g[m] = Round(rows, S, m, g[m - 1])
    <2>1. m - 1 \in 0..n /\ m - 1 # n /\ g[m - 1] = f[m - 1]
      OBVIOUS
    <2>2. CASE m = n
      BY <2>1, <2>2
    <2>3. CASE m # n
      <3>1. m \in 1..(n - 1) /\ m \in 0..n
        BY <2>3
      <3>2. f[m] = Round(rows, S, m, f[m - 1]) /\ g[m] = f[m]
        BY <2>3, <3>1 DEF IsLoop
      <3>3. QED
        BY <2>1, <3>2
    <2>4. QED
      BY <2>2, <2>3
  <1>7. IsLoop(g, rows, S, n)
    BY <1>4, <1>5, <1>6 DEF IsLoop
  <1>8. QED
    BY <1>7

LEMMA LoopExists ==
    ASSUME NEW R, NEW rows \in Seq(R), NEW S
    PROVE  \E f : IsLoop(f, rows, S, Len(rows))
  <1> DEFINE G == {k \in 0..Len(rows) : \E f : IsLoop(f, rows, S, k)}
  <1>1. Len(rows) \in Nat /\ Len(rows) \in 0..Len(rows)
    OBVIOUS
  <1>2. 0 \in G
    <2>1. IsLoop([n \in 0..0 |-> <<>>], rows, S, 0)
      BY DEF IsLoop
    <2>2. QED
      BY <1>1, <2>1
  <1>3. ASSUME NEW n \in 0..Len(rows), n # 0, n - 1 \in G PROVE n \in G
    <2>1. PICK f : IsLoop(f, rows, S, n - 1)
      BY <1>3
    <2>2. \E g : IsLoop(g, rows, S, n)
      BY <1>1, <1>3, <2>1, LoopGoesOn
    <2>3. QED
      BY <2>2
  <1>4. \A n \in 0..Len(rows) : n \in G
    <2> HIDE DEF G
    <2>1. QED
      BY <1>1, <1>2, <1>3, UpTo
  <1>5. QED
    BY <1>1, <1>4

\* Kept is the loop.
LEMMA KeptIsALoop ==
    ASSUME NEW R, NEW rows \in Seq(R), NEW S
    PROVE  \E f : IsLoop(f, rows, S, Len(rows)) /\ Kept(rows, S) = f[Len(rows)]
  <1> DEFINE Body(f) == [n \in 0..Len(rows) |->
                            IF n = 0 THEN <<>>
                            ELSE IF rows[n] \in S THEN Append(f[n - 1], rows[n])
                            ELSE f[n - 1]]
             kept == CHOOSE f : f = Body(f)
  <1>1. Len(rows) \in Nat
    OBVIOUS
  <1>2. PICK f : IsLoop(f, rows, S, Len(rows))
    BY LoopExists
  <1>3. f = Body(f)
    <2>1. f = [n \in 0..Len(rows) |-> f[n]]
      BY <1>2 DEF IsLoop
    <2>2. ASSUME NEW n \in 0..Len(rows) PROVE f[n] = Body(f)[n]
      <3>1. n # 0 => n \in 1..Len(rows)
        BY <1>1
      <3>2. QED
        BY <1>2, <3>1 DEF IsLoop, Round
    <2>3. QED
      BY <2>1, <2>2
  <1>4. kept = Body(kept)
    <2> HIDE DEF Body
    <2>1. QED
      BY <1>3, Zenon
  <1>5. Kept(rows, S) = kept[Len(rows)]
    BY DEF Kept
  <1> HIDE DEF kept
  <1>6. kept = [n \in 0..Len(rows) |-> kept[n]] /\ kept[0] = <<>>
    BY <1>1, <1>4
  <1>7. ASSUME NEW n \in 1..Len(rows)
        PROVE  kept[n] = Round(rows, S, n, kept[n - 1])
    <2>1. n \in 0..Len(rows) /\ n # 0
      BY <1>1
    <2>2. kept[n] = Body(kept)[n]
      BY <1>4
    <2>3. QED
      BY <2>1, <2>2 DEF Round
  <1> DEFINE G == {n \in 0..Len(rows) : kept[n] \in Seq(S)}
  <1>8. \A n \in 0..Len(rows) : n \in G
    <2>1. 0 \in G
      BY <1>1, <1>6
    <2>2. ASSUME NEW n \in 0..Len(rows), n # 0, n - 1 \in G PROVE n \in G
      <3>1. kept[n] = Round(rows, S, n, kept[n - 1])
        BY <1>1, <1>7, <2>2
      <3>2. kept[n] \in Seq(S)
        BY <2>2, <3>1 DEF Round
      <3>3. QED
        BY <3>2
    <2> HIDE DEF G
    <2>3. QED
      BY <1>1, <2>1, <2>2, UpTo
  <1>9. IsLoop(kept, rows, S, Len(rows))
    BY <1>6, <1>7, <1>8 DEF IsLoop
  <1>10. QED
    BY <1>5, <1>9

-----------------------------------------------------------------------------
\* e tells of each element of t which of the first n rows it is: the rows in S,
\* each once and in their order.
Selects(e, t, rows, S, n) ==
    /\ e \in [DOMAIN t -> 1..n]
    /\ \A i \in DOMAIN t : t[i] = rows[e[i]]
    /\ \A i, j \in DOMAIN t : i < j => e[i] < e[j]
    /\ \A m \in 1..n : rows[m] \in S => \E i \in DOMAIN t : e[i] = m

LEMMA RoundSelects ==
    ASSUME NEW S, NEW t \in Seq(S), NEW rows, NEW n \in Nat \ {0}, NEW e,
           Selects(e, t, rows, S, n - 1)
    PROVE  \E d : Selects(d, Round(rows, S, n, t), rows, S, n)
  <1>1. CASE rows[n] \in S
    <2> DEFINE last == Len(t) + 1
               u == Append(t, rows[n])
               d == [i \in 1..last |-> IF i = last THEN n ELSE e[i]]
    <2>1. /\ DOMAIN u = 1..last /\ last \in DOMAIN u /\ DOMAIN t \subseteq DOMAIN u
          /\ \A i \in DOMAIN u : i # last => i \in DOMAIN t
          /\ \A i \in DOMAIN t : i \in 1..last /\ i < last /\ i \in Nat
      BY <1>1
    <2>2. u[last] = rows[n] /\ \A i \in DOMAIN t : u[i] = t[i]
      BY <1>1
    <2>3. d[last] = n /\ \A i \in DOMAIN t : d[i] = e[i] /\ e[i] \in 1..(n - 1)
      BY <2>1 DEF Selects
    <2>4. Round(rows, S, n, t) = u
      BY <1>1 DEF Round
    <2>5. d = [i \in DOMAIN u |-> d[i]]
      BY <2>1
    <2> HIDE DEF d, u, last
    <2>6. d \in [DOMAIN u -> 1..n]
      <3>1. \A i \in DOMAIN u : d[i] \in 1..n
        BY <2>1, <2>3
      <3>2. QED
        BY <2>5, <3>1
    <2>7. \A i \in DOMAIN u : u[i] = rows[d[i]]
      BY <2>1, <2>2, <2>3 DEF Selects
    <2>8. \A i, j \in DOMAIN u : i < j => d[i] < d[j]
      BY <2>1, <2>3 DEF Selects
    <2>9. \A m \in 1..n : rows[m] \in S => \E i \in DOMAIN u : d[i] = m
      BY <2>1, <2>3 DEF Selects
    <2>10. QED
      BY <2>4, <2>6, <2>7, <2>8, <2>9 DEF Selects
  <1>2. CASE rows[n] \notin S
    <2>1. Selects(e, t, rows, S, n)
      BY <1>2 DEF Selects
    <2>2. QED
      BY <1>2, <2>1 DEF Round
  <1>3. QED
    BY <1>1, <1>2

\* Kept returns the rows that are in S: those and no others, each as often as it
\* is in the list, and in the order of the list.
THEOREM KeptSelects ==
    ASSUME NEW R, NEW rows \in Seq(R), NEW S
    PROVE  /\ Kept(rows, S) \in Seq(S)
           /\ \E e : Selects(e, Kept(rows, S), rows, S, Len(rows))
  <1>1. Len(rows) \in Nat /\ Len(rows) \in 0..Len(rows)
    OBVIOUS
  <1>2. PICK f : IsLoop(f, rows, S, Len(rows)) /\ Kept(rows, S) = f[Len(rows)]
    BY KeptIsALoop
  <1> DEFINE G == {n \in 0..Len(rows) : \E e : Selects(e, f[n], rows, S, n)}
  <1>3. 0 \in G
    <2>1. Selects(<<>>, <<>>, rows, S, 0)
      BY DEF Selects
    <2>2. QED
      BY <1>1, <1>2, <2>1 DEF IsLoop
  <1>4. ASSUME NEW n \in 0..Len(rows), n # 0, n - 1 \in G PROVE n \in G
    <2>1. PICK e : Selects(e, f[n - 1], rows, S, n - 1)
      BY <1>4
    <2>2. f[n - 1] \in Seq(S) /\ f[n] = Round(rows, S, n, f[n - 1]) /\ n \in Nat \ {0}
      BY <1>1, <1>2, <1>4 DEF IsLoop
    <2>3. \E d : Selects(d, f[n], rows, S, n)
      BY <2>1, <2>2, RoundSelects
    <2>4. QED
      BY <2>3
  <1>5. \A n \in 0..Len(rows) : n \in G
    <2> HIDE DEF G
    <2>1. QED
      BY <1>1, <1>3, <1>4, UpTo
  <1>6. QED
    BY <1>1, <1>2, <1>5 DEF IsLoop

-----------------------------------------------------------------------------
\* t holds the rows that are in S.
HoldsThose(t, rows, S) ==
    /\ \A i \in DOMAIN t : t[i] \in S /\ \E m \in DOMAIN rows : t[i] = rows[m]
    /\ \A m \in DOMAIN rows : rows[m] \in S => \E i \in DOMAIN t : t[i] = rows[m]

\* The same in the terms its callers need: what is in the list it returns, and
\* that different rows stay apart.
LEMMA KeptRange ==
    ASSUME NEW R, NEW rows \in Seq(R), NEW S
    PROVE  /\ Kept(rows, S) \in Seq(S) /\ Kept(rows, S) \in Seq(R)
           /\ HoldsThose(Kept(rows, S), rows, S)
  <1> DEFINE t == Kept(rows, S)
  <1>1. t \in Seq(S) /\ \E e : Selects(e, t, rows, S, Len(rows))
    BY KeptSelects
  <1> HIDE DEF t
  <1>2. PICK e : Selects(e, t, rows, S, Len(rows))
    BY <1>1
  <1>3. DOMAIN rows = 1..Len(rows) /\ \A i \in DOMAIN t : t[i] \in S
    BY <1>1
  <1>4. \A i \in DOMAIN t : e[i] \in DOMAIN rows /\ t[i] = rows[e[i]]
    BY <1>2, <1>3 DEF Selects
  <1>5. \A m \in DOMAIN rows : rows[m] \in S => \E i \in DOMAIN t : t[i] = rows[m]
    BY <1>2, <1>3 DEF Selects
  <1>6. t \in Seq(R)
    <2>1. \A i \in DOMAIN t : t[i] \in R
      BY <1>4
    <2>2. QED
      BY <1>1, <2>1
  <1>7. QED
    BY <1>1, <1>3, <1>4, <1>5, <1>6 DEF t, HoldsThose

LEMMA KeptApart ==
    ASSUME NEW R, NEW rows \in Seq(R), NEW S,
           NEW i \in DOMAIN Kept(rows, S), NEW j \in DOMAIN Kept(rows, S), i # j
    PROVE  \E m, n \in DOMAIN rows :
              m # n /\ Kept(rows, S)[i] = rows[m] /\ Kept(rows, S)[j] = rows[n]
  <1> DEFINE t == Kept(rows, S)
  <1>1. t \in Seq(S)
    BY KeptSelects
  <1>2. PICK e : Selects(e, t, rows, S, Len(rows))
    BY KeptSelects
  <1>3. DOMAIN t \subseteq Nat /\ DOMAIN rows = 1..Len(rows) /\ i \in Nat /\ j \in Nat
    BY <1>1
  <1>4. e[i] \in 1..Len(rows) /\ e[j] \in 1..Len(rows) /\ t[i] = rows[e[i]] /\ t[j] = rows[e[j]]
    BY <1>2 DEF Selects
  <1>5. e[i] # e[j]
    <2>1. e[i] \in Nat /\ e[j] \in Nat
      BY <1>4
    <2>2. i < j \/ j < i
      BY <1>3
    <2>3. i < j => e[i] < e[j]
      BY <1>2 DEF Selects
    <2>4. j < i => e[j] < e[i]
      BY <1>2 DEF Selects
    <2>5. QED
      BY <2>1, <2>2, <2>3, <2>4
  <1>6. QED
    BY <1>3, <1>4, <1>5
=============================================================================
