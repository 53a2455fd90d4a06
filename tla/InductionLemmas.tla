--------------------------- MODULE InductionLemmas ---------------------------
(***************************************************************************)
(* Induction over the numbers, for what a set can say: the theorems of     *)
(* NaturalsInduction take an operator as their parameter.  And what the    *)
(* functions defined by recursion come to: headers, flattened sequences.   *)
(***************************************************************************)
EXTENDS Header, SequencesExt, SequenceTheorems, WellFoundedInduction, TLAPS

(* The order of the numbers, as a set of pairs.                            *)
Below == {pair \in Nat \X Nat : pair[1] < pair[2]}

(* Numbers have a least one.                                               *)
LEMMA LeastElement ==
    ASSUME NEW T, T \subseteq Nat, T # {}
    PROVE  \E x \in T : \A y \in T : x <= y
<1>1. OpToRel(<, Nat) = Below
  BY DEF OpToRel, Below
<1>2. IsWellFoundedOn(Below, Nat)
  BY <1>1, NatLessThanWellFounded
<1>3. PICK x \in T : \A y \in T : <<y, x>> \notin Below
  BY <1>2, WFMin
<1>4. \A m, n \in Nat : <<m, n>> \in Below <=> m < n
  BY DEF Below
<1>5. \A y \in T : ~(y < x)
  BY <1>3, <1>4
<1> QED
  BY <1>5

(* What holds of 0 and is handed on holds up to N.                         *)
LEMMA Induction ==
    ASSUME NEW S, NEW N \in Nat, 0 \in S, \A n \in 0..(N - 1) : n \in S => n + 1 \in S
    PROVE  0..N \subseteq S
<1> DEFINE T == (0..N) \ S
<1>1. T \subseteq Nat /\ \A x \in T : x \in 0..N /\ x \notin S
  OBVIOUS
<1>2. ASSUME T # {} PROVE FALSE
  <2> HIDE DEF T
  <2>1. PICK x \in T : \A y \in T : x <= y
    BY <1>1, <1>2, LeastElement
  <2>2. x \in 1..N /\ x - 1 \in 0..(N - 1) /\ x - 1 \in 0..N /\ ~(x <= x - 1) /\ (x - 1) + 1 = x
    BY <1>1, <2>1
  <2>3. x - 1 \in S
    BY <2>1, <2>2 DEF T
  <2>4. x \in S
    BY <2>2, <2>3
  <2> QED
    BY <1>1, <2>4
<1> QED
  BY <1>2

(* What is defined by recursion exists.                                    *)
Recurs(N, V, a, step) ==
    \E f \in [0..N -> V] : f[0] = a /\ \A k \in 1..N : f[k] = step[k][f[k - 1]]

LEMMA Recursion ==
    ASSUME NEW N \in Nat, NEW V, NEW a \in V, NEW step \in [1..N -> [V -> V]]
    PROVE  Recurs(N, V, a, step)
<1> DEFINE S == {n \in 0..N :
                    \E f \in [0..N -> V] :
                        f[0] = a /\ \A k \in 1..n : f[k] = step[k][f[k - 1]]}
<1>1. 0 \in S
  <2> DEFINE f == [i \in 0..N |-> a]
  <2>1. f \in [0..N -> V] /\ f[0] = a
    OBVIOUS
  <2> HIDE DEF f
  <2> QED
    BY <2>1
<1>2. ASSUME NEW n \in 0..(N - 1), n \in S PROVE n + 1 \in S
  <2>1. PICK f \in [0..N -> V] : f[0] = a /\ \A k \in 1..n : f[k] = step[k][f[k - 1]]
    BY <1>2
  <2> DEFINE g == [f EXCEPT ![n + 1] = step[n + 1][f[n]]]
  <2> HIDE DEF S
  <2>2. n \in Nat /\ n + 1 \in 1..N /\ n + 1 \in 0..N /\ n \in 0..N
    OBVIOUS
  <2>3. step[n + 1] \in [V -> V] /\ f[n] \in V
    BY <2>2
  <2>4. step[n + 1][f[n]] \in V
    BY <2>3
  <2>5. g \in [0..N -> V] /\ g[n + 1] = step[n + 1][f[n]]
    BY <2>2, <2>4
  <2>6. \A i \in 0..n : i \in 0..N /\ i # n + 1
    BY <2>2
  <2>7. \A i \in 0..n : g[i] = f[i]
    BY <2>6
  <2> HIDE DEF g
  <2>8. 0 \in 0..n /\ g[0] = a
    BY <2>1, <2>2, <2>7
  <2>9. ASSUME NEW k \in 1..(n + 1) PROVE g[k] = step[k][g[k - 1]]
    <3>1. CASE k = n + 1
      <4>1. k - 1 = n /\ n \in 0..n
        BY <2>2, <3>1
      <4> QED
        BY <2>5, <2>7, <3>1, <4>1
    <3>2. CASE k # n + 1
      <4>1. k \in 1..n /\ k \in 0..n /\ k - 1 \in 0..n
        BY <2>2, <3>2
      <4> QED
        BY <2>1, <2>7, <4>1
    <3> QED
      BY <3>1, <3>2
  <2> QED
    BY <2>2, <2>5, <2>8, <2>9 DEF S
<1> HIDE DEF S
<1>3. 0..N \subseteq S
  BY <1>1, <1>2, Induction
<1>4. N \in S
  <2>1. N \in 0..N
    OBVIOUS
  <2> QED
    BY <1>3, <2>1
<1> QED
  BY <1>4 DEF S, Recurs

-----------------------------------------------------------------------------
(* Headers.                                                                *)
LEMMA DivMod ==
    ASSUME NEW n \in Nat, NEW base \in Nat \ {0}
    PROVE  n \div base \in Nat /\ n % base \in 0..(base - 1)
           /\ (n % base) + base * (n \div base) = n
OBVIOUS

LEMMA DivInt ==
    ASSUME NEW n \in Int, NEW base \in Nat \ {0}
    PROVE  n \div base \in Int /\ n % base \in 0..(base - 1)
           /\ (n % base) + base * (n \div base) = n
OBVIOUS

LEMMA ShiftsAreInts ==
    ASSUME NEW n \in Int, NEW base \in Nat \ {0}, NEW width \in Nat
    PROVE  /\ Shifts(n, base, width) \in [0..width -> Int]
           /\ Shifts(n, base, width)[0] = n
           /\ \A k \in 1..width :
                Shifts(n, base, width)[k] = Shifts(n, base, width)[k - 1] \div base
<1> DEFINE Is(f) == f = [k \in 0..width |-> IF k = 0 THEN n ELSE f[k - 1] \div base]
           left == CHOOSE f : Is(f)
<1>1. \E f : Is(f)
  <2> DEFINE half == [x \in Int |-> x \div base]
             step == [k \in 1..width |-> half]
  <2>1. half \in [Int -> Int]
    BY DivInt
  <2>2. step \in [1..width -> [Int -> Int]]
    BY <2>1
  <2>3. \A k \in 1..width : \A x \in Int : step[k][x] = x \div base
    OBVIOUS
  <2> HIDE DEF half, step
  <2>4. PICK f \in [0..width -> Int] : f[0] = n /\ \A k \in 1..width : f[k] = step[k][f[k - 1]]
    <3>1. Recurs(width, Int, n, step)
      BY <2>2, Recursion
    <3> QED
      BY <3>1 DEF Recurs
  <2>5. ASSUME NEW k \in 1..width PROVE f[k] = f[k - 1] \div base
    <3>1. k - 1 \in 0..width
      OBVIOUS
    <3>2. f[k - 1] \in Int
      BY <3>1
    <3> QED
      BY <2>3, <2>4, <3>2
  <2>6. \A k \in 0..width : f[k] = IF k = 0 THEN n ELSE f[k - 1] \div base
    BY <2>4, <2>5
  <2>7. Is(f)
    BY <2>6
  <2> QED
    BY <2>7
<1>2. Is(left)
  BY <1>1
<1>3. Shifts(n, base, width) = left
  BY DEF Shifts
<1> HIDE DEF left
<1>4. /\ left = [k \in 0..width |-> left[k]]
      /\ left[0] = n /\ \A k \in 1..width : left[k] = left[k - 1] \div base
  BY <1>2
<1> HIDE DEF Is
<1>5. \A k \in 0..width : left[k] \in Int
  <2> DEFINE S == {k \in 0..width : left[k] \in Int}
  <2>1. 0 \in S
    BY <1>4
  <2>2. ASSUME NEW k \in 0..(width - 1), k \in S PROVE k + 1 \in S
    <3>1. k + 1 \in 1..width /\ k + 1 \in 0..width /\ (k + 1) - 1 = k
      OBVIOUS
    <3>2. left[k + 1] = left[k] \div base
      BY <1>4, <3>1
    <3> QED
      BY <2>2, <3>1, <3>2, DivInt
  <2> HIDE DEF S
  <2>3. 0..width \subseteq S
    BY <2>1, <2>2, Induction
  <2> QED
    BY <2>3 DEF S
<1> QED
  BY <1>3, <1>4, <1>5

LEMMA ShiftsAre ==
    ASSUME NEW n \in Nat, NEW base \in Nat \ {0}, NEW width \in Nat
    PROVE  /\ Shifts(n, base, width) \in [0..width -> Nat]
           /\ Shifts(n, base, width)[0] = n
           /\ \A k \in 1..width :
                Shifts(n, base, width)[k] = Shifts(n, base, width)[k - 1] \div base
<1> DEFINE left == Shifts(n, base, width)
           S == {k \in 0..width : left[k] \in Nat}
<1>1. /\ left \in [0..width -> Int] /\ left[0] = n
      /\ \A k \in 1..width : left[k] = left[k - 1] \div base
  <2>1. n \in Int
    OBVIOUS
  <2> QED
    BY <2>1, ShiftsAreInts
<1> HIDE DEF left
<1>2. 0 \in S
  BY <1>1
<1>3. ASSUME NEW k \in 0..(width - 1), k \in S PROVE k + 1 \in S
  <2>1. k + 1 \in 1..width /\ k + 1 \in 0..width /\ (k + 1) - 1 = k
    OBVIOUS
  <2>2. left[k + 1] = left[k] \div base
    BY <1>1, <2>1
  <2> QED
    BY <1>3, <2>1, <2>2, DivMod
<1> HIDE DEF S
<1>4. 0..width \subseteq S
  BY <1>2, <1>3, Induction
<1>5. left \in [0..width -> Nat]
  <2>1. \A k \in 0..width : left[k] \in Nat
    BY <1>4 DEF S
  <2> QED
    BY <1>1, <2>1
<1> QED
  BY <1>1, <1>5 DEF left

LEMMA DigitsAre ==
    ASSUME NEW n \in Nat, NEW base \in Nat \ {0}, NEW width \in Nat
    PROVE  /\ DigitsOf(n, base, width) \in [1..width -> 0..(base - 1)]
           /\ \A k \in 1..width :
                DigitsOf(n, base, width)[k] = Shifts(n, base, width)[k - 1] % base
<1>1. ASSUME NEW k \in 1..width PROVE Shifts(n, base, width)[k - 1] % base \in 0..(base - 1)
  <2>1. k - 1 \in 0..width
    OBVIOUS
  <2>2. Shifts(n, base, width)[k - 1] \in Nat
    BY <2>1, ShiftsAre
  <2> QED
    BY <2>2, DivMod
<1> QED
  BY <1>1 DEF DigitsOf

(* The value of a header is a number, whatever has been read for it.       *)
ReadUp(digits, base, width, top) ==
    /\ top[0] = 0
    /\ \A k \in 1..width : top[k] = digits[width + 1 - k] + base * top[k - 1]
    /\ ValueOf(digits, base, width) = top[width]

LEMMA ValueIs ==
    ASSUME NEW base \in Nat, NEW width \in Nat, NEW digits, \A k \in 1..width : digits[k] \in Nat
    PROVE  \E top \in [0..width -> Nat] : ReadUp(digits, base, width, top)
<1> DEFINE Is(f) == f = [k \in 0..width |->
                            IF k = 0 THEN 0 ELSE digits[width + 1 - k] + base * f[k - 1]]
           top == CHOOSE f : Is(f)
<1>1. \A k \in 1..width : \A x \in Nat : digits[width + 1 - k] + base * x \in Nat
  <2> SUFFICES ASSUME NEW k \in 1..width, NEW x \in Nat
               PROVE  digits[width + 1 - k] + base * x \in Nat
    OBVIOUS
  <2>1. digits[width + 1 - k] \in Nat
    <3>1. width + 1 - k \in 1..width
      OBVIOUS
    <3> QED
      BY <3>1
  <2>2. base * x \in Nat
    OBVIOUS
  <2> QED
    BY <2>1, <2>2
<1>2. \E f : Is(f)
  <2> DEFINE step == [k \in 1..width |-> [x \in Nat |-> digits[width + 1 - k] + base * x]]
  <2>1. step \in [1..width -> [Nat -> Nat]]
    BY <1>1
  <2>2. \A k \in 1..width : \A x \in Nat : step[k][x] = digits[width + 1 - k] + base * x
    OBVIOUS
  <2> HIDE DEF step
  <2>3. PICK f \in [0..width -> Nat] : f[0] = 0 /\ \A k \in 1..width : f[k] = step[k][f[k - 1]]
    <3>1. Recurs(width, Nat, 0, step)
      BY <2>1, Recursion
    <3> QED
      BY <3>1 DEF Recurs
  <2>4. ASSUME NEW k \in 1..width PROVE f[k] = digits[width + 1 - k] + base * f[k - 1]
    <3>1. k - 1 \in 0..width
      OBVIOUS
    <3>2. f[k - 1] \in Nat
      BY <3>1
    <3> QED
      BY <2>2, <2>3, <3>2
  <2>5. \A k \in 0..width : f[k] = IF k = 0 THEN 0 ELSE digits[width + 1 - k] + base * f[k - 1]
    BY <2>3, <2>4
  <2>6. Is(f)
    BY <2>5
  <2> QED
    BY <2>6
<1>3. Is(top)
  BY <1>2
<1>4. ValueOf(digits, base, width) = top[width]
  BY DEF ValueOf
<1> HIDE DEF top
<1>5. /\ top = [k \in 0..width |-> top[k]] /\ top[0] = 0
      /\ \A k \in 1..width : top[k] = digits[width + 1 - k] + base * top[k - 1]
  <2>1. top = [k \in 0..width |-> IF k = 0 THEN 0 ELSE digits[width + 1 - k] + base * top[k - 1]]
    BY <1>3
  <2> HIDE DEF Is
  <2>2. 0 \in 0..width /\ \A k \in 1..width : k \in 0..width /\ k # 0
    OBVIOUS
  <2>3. \A k \in 0..width : top[k] = IF k = 0 THEN 0 ELSE digits[width + 1 - k] + base * top[k - 1]
    BY <2>1
  <2>4. top = [k \in 0..width |-> top[k]]
    BY <2>1
  <2> QED
    BY <2>2, <2>3, <2>4
<1> HIDE DEF Is
<1>6. \A k \in 0..width : top[k] \in Nat
  <2> DEFINE S == {k \in 0..width : top[k] \in Nat}
  <2>1. 0 \in S
    BY <1>5
  <2>2. ASSUME NEW k \in 0..(width - 1), k \in S PROVE k + 1 \in S
    <3>1. k + 1 \in 1..width /\ k + 1 \in 0..width /\ (k + 1) - 1 = k
      OBVIOUS
    <3>2. top[k + 1] = digits[width + 1 - (k + 1)] + base * top[k]
      BY <1>5, <3>1
    <3> QED
      BY <1>1, <2>2, <3>1, <3>2
  <2> HIDE DEF S
  <2>3. 0..width \subseteq S
    BY <2>1, <2>2, Induction
  <2> QED
    BY <2>3 DEF S
<1>7. top \in [0..width -> Nat]
  BY <1>5, <1>6
<1> QED
  BY <1>4, <1>5, <1>7 DEF ReadUp

(* A number is read as it was written (wimp_server.c 293 and 304;          *)
(* wimp_reciever.c 46, wimp_instruction.c 228), if the header holds it.    *)
THEOREM HeaderReads ==
    ASSUME NEW n \in Nat, NEW base \in Nat \ {0}, NEW width \in Nat, HeaderHolds(n, base, width),
           NEW digits, \A k \in 1..width : digits[k] = DigitsOf(n, base, width)[k]
    PROVE  ValueOf(digits, base, width) = n
<1> DEFINE left == Shifts(n, base, width)
<1>1. left \in [0..width -> Nat] /\ left[0] = n /\ left[width] = 0
      /\ \A k \in 1..width : left[k] = left[k - 1] \div base
  <2>1. left[width] = 0
    BY DEF HeaderHolds
  <2>2. left \in [0..width -> Nat]
    BY ShiftsAre
  <2>3. left[0] = n
    BY ShiftsAre
  <2>4. \A k \in 1..width : left[k] = left[k - 1] \div base
    BY ShiftsAre
  <2> QED
    BY <2>1, <2>2, <2>3, <2>4
<1>2. \A k \in 1..width : digits[k] = left[k - 1] % base
  BY DigitsAre
<1> HIDE DEF left
<1>3. ASSUME NEW k \in 1..width
      PROVE  digits[k] \in Nat /\ digits[k] + base * left[k] = left[k - 1]
  <2>1. k - 1 \in 0..width
    OBVIOUS
  <2>2. left[k - 1] \in Nat
    BY <1>1, <2>1
  <2>3. digits[k] = left[k - 1] % base /\ left[k] = left[k - 1] \div base
    BY <1>1, <1>2
  <2>4. digits[k] \in 0..(base - 1) /\ digits[k] + base * left[k] = left[k - 1]
    BY <2>2, <2>3, DivMod
  <2> QED
    BY <2>4
<1>4. PICK top \in [0..width -> Nat] : ReadUp(digits, base, width, top)
  <2>1. base \in Nat /\ \A k \in 1..width : digits[k] \in Nat
    BY <1>3
  <2> QED
    BY <2>1, ValueIs
<1>5. /\ top[0] = 0
      /\ \A k \in 1..width : top[k] = digits[width + 1 - k] + base * top[k - 1]
      /\ ValueOf(digits, base, width) = top[width]
  BY <1>4 DEF ReadUp
<1>6. \A k \in 0..width : top[k] = left[width - k]
  <2> DEFINE S == {k \in 0..width : top[k] = left[width - k]}
  <2>1. 0 \in S
    BY <1>1, <1>5
  <2>2. ASSUME NEW k \in 0..(width - 1), k \in S PROVE k + 1 \in S
    <3>1. /\ k + 1 \in 1..width /\ k + 1 \in 0..width /\ (k + 1) - 1 = k
          /\ width + 1 - (k + 1) = width - k /\ width - k \in 1..width
          /\ (width - k) - 1 = width - (k + 1)
      OBVIOUS
    <3>2. top[k + 1] = digits[width - k] + base * top[k]
      BY <1>5, <3>1
    <3>3. digits[width - k] + base * left[width - k] = left[width - (k + 1)]
      BY <1>3, <3>1
    <3> QED
      BY <2>2, <3>1, <3>2, <3>3
  <2> HIDE DEF S
  <2>3. 0..width \subseteq S
    BY <2>1, <2>2, Induction
  <2> QED
    BY <2>3 DEF S
<1>7. top[width] = left[0]
  <2>1. width \in 0..width /\ width - width = 0
    OBVIOUS
  <2> QED
    BY <1>6, <2>1
<1> QED
  BY <1>1, <1>5, <1>7

-----------------------------------------------------------------------------
(* Flattened sequences: each part is put behind those before it.           *)
FlatPrefixes(seqs, flat) ==
    flat[0] = <<>> /\ \A i \in 1..Len(seqs) : flat[i] = flat[i - 1] \o seqs[i]

(* What is put together that way is the flattened sequence.                *)
LEMMA FlattenIs ==
    ASSUME NEW X, NEW seqs \in Seq(Seq(X)), NEW flat, FlatPrefixes(seqs, flat)
    PROVE  FlattenSeq(seqs) = flat[Len(seqs)] /\ FlattenSeq(seqs) \in Seq(X)
<1> DEFINE N == Len(seqs)
           Is(f) == f = [i \in 1..N |-> IF i = 1 THEN seqs[i] ELSE f[i - 1] \o seqs[i]]
           flatten == CHOOSE f : Is(f)
<1>1. N \in Nat /\ \A i \in 1..N : seqs[i] \in Seq(X)
  OBVIOUS
<1>2. flat[0] = <<>> /\ \A i \in 1..N : flat[i] = flat[i - 1] \o seqs[i]
  BY DEF FlatPrefixes
<1>3. FlattenSeq(seqs) = IF N = 0 THEN seqs ELSE flatten[N]
  BY DEF FlattenSeq
<1> HIDE DEF N
<1>4. \A i \in 0..N : flat[i] \in Seq(X)
  <2> DEFINE S == {i \in 0..N : flat[i] \in Seq(X)}
  <2>1. 0 \in S
    <3>1. <<>> \in Seq(X) /\ 0 \in 0..N
      BY <1>1
    <3> QED
      BY <1>2, <3>1
  <2>2. ASSUME NEW i \in 0..(N - 1), i \in S PROVE i + 1 \in S
    <3>1. i + 1 \in 1..N /\ i + 1 \in 0..N /\ (i + 1) - 1 = i
      BY <1>1
    <3>2. flat[i + 1] = flat[i] \o seqs[i + 1]
      BY <1>2, <3>1
    <3>3. seqs[i + 1] \in Seq(X) /\ flat[i] \in Seq(X)
      BY <1>1, <2>2, <3>1
    <3>4. flat[i] \o seqs[i + 1] \in Seq(X)
      BY <3>3
    <3> QED
      BY <3>1, <3>2, <3>4
  <2> HIDE DEF S
  <2>3. 0..N \subseteq S
    BY <1>1, <2>1, <2>2, Induction
  <2> QED
    BY <2>3 DEF S
<1>5. \E f : Is(f)
  <2> DEFINE f == [i \in 1..N |-> flat[i]]
  <2>1. ASSUME NEW i \in 1..N PROVE f[i] = IF i = 1 THEN seqs[i] ELSE f[i - 1] \o seqs[i]
    <3>1. CASE i = 1
      <4>1. flat[1] = flat[0] \o seqs[1] /\ seqs[1] \in Seq(X)
        <5>1. 1 \in 1..N /\ 1 - 1 = 0
          BY <3>1
        <5>2. flat[1] = flat[1 - 1] \o seqs[1] /\ seqs[1] \in Seq(X)
          BY <1>1, <1>2, <5>1
        <5> QED
          BY <5>1, <5>2
      <4>2. <<>> \o seqs[1] = seqs[1]
        BY <4>1
      <4> QED
        BY <1>2, <3>1, <4>1, <4>2
    <3>2. CASE i # 1
      <4>1. i - 1 \in 1..N
        BY <1>1, <3>2
      <4>2. f[i - 1] = flat[i - 1] /\ f[i] = flat[i]
        BY <4>1
      <4> QED
        BY <1>2, <3>2, <4>2
    <3> QED
      BY <3>1, <3>2
  <2>2. f = [i \in 1..N |-> f[i]]
    OBVIOUS
  <2> HIDE DEF f
  <2>3. Is(f)
    BY <2>1, <2>2
  <2> QED
    BY <2>3
<1>6. Is(flatten)
  BY <1>5
<1> HIDE DEF flatten
<1>7. \A i \in 1..N : flatten[i] = IF i = 1 THEN seqs[i] ELSE flatten[i - 1] \o seqs[i]
  BY <1>6
<1> HIDE DEF Is
<1>8. \A i \in 0..N : i = 0 \/ flatten[i] = flat[i]
  <2> DEFINE S == {i \in 0..N : i = 0 \/ flatten[i] = flat[i]}
  <2>1. 0 \in S
    BY <1>1
  <2>2. ASSUME NEW i \in 0..(N - 1), i \in S PROVE i + 1 \in S
    <3>1. i + 1 \in 1..N /\ i + 1 \in 0..N /\ (i + 1) - 1 = i /\ (i + 1 = 1 <=> i = 0)
      BY <1>1
    <3>2. flat[i + 1] = flat[i] \o seqs[i + 1] /\ seqs[i + 1] \in Seq(X)
      BY <1>1, <1>2, <3>1
    <3>3. flatten[i + 1] = IF i = 0 THEN seqs[i + 1] ELSE flatten[i] \o seqs[i + 1]
      BY <1>7, <3>1
    <3>4. <<>> \o seqs[i + 1] = seqs[i + 1]
      BY <3>2
    <3>5. CASE i = 0
      BY <1>2, <3>1, <3>2, <3>3, <3>4, <3>5
    <3>6. CASE i # 0
      BY <2>2, <3>1, <3>2, <3>3, <3>6
    <3> QED
      BY <3>5, <3>6
  <2> HIDE DEF S
  <2>3. 0..N \subseteq S
    BY <1>1, <2>1, <2>2, Induction
  <2> QED
    BY <2>3 DEF S
<1>9. FlattenSeq(seqs) = flat[N]
  <2>1. CASE N = 0
    <3>1. seqs = <<>>
      BY <2>1 DEF N
    <3> QED
      BY <1>2, <1>3, <2>1, <3>1
  <2>2. CASE N # 0
    <3>1. N \in 0..N
      BY <1>1
    <3> QED
      BY <1>3, <1>8, <2>2, <3>1
  <2> QED
    BY <2>1, <2>2
<1>10. N \in 0..N
  BY <1>1
<1> QED
  BY <1>4, <1>9, <1>10 DEF N

(* And it can be put together.                                             *)
LEMMA FlattenedBehind ==
    ASSUME NEW X, NEW seqs \in Seq(Seq(X))
    PROVE  \E flat \in [0..Len(seqs) -> Seq(X)] : FlatPrefixes(seqs, flat)
<1> DEFINE N == Len(seqs)
           step == [i \in 1..N |-> [x \in Seq(X) |-> x \o seqs[i]]]
<1>1. N \in Nat /\ \A i \in 1..N : seqs[i] \in Seq(X)
  OBVIOUS
<1>2. <<>> \in Seq(X)
  OBVIOUS
<1> HIDE DEF N
<1>3. ASSUME NEW i \in 1..N, NEW x \in Seq(X) PROVE x \o seqs[i] \in Seq(X)
  <2>1. seqs[i] \in Seq(X)
    BY <1>1
  <2> QED
    BY <2>1
<1>4. step \in [1..N -> [Seq(X) -> Seq(X)]]
  BY <1>3
<1>5. \A i \in 1..N : \A x \in Seq(X) : step[i][x] = x \o seqs[i]
  OBVIOUS
<1> HIDE DEF step
<1>6. Recurs(N, Seq(X), <<>>, step)
  BY <1>1, <1>2, <1>4, Recursion
<1>7. PICK flat \in [0..N -> Seq(X)] : flat[0] = <<>> /\ \A i \in 1..N : flat[i] = step[i][flat[i - 1]]
  BY <1>6 DEF Recurs
<1>8. ASSUME NEW i \in 1..N PROVE flat[i] = flat[i - 1] \o seqs[i]
  <2>1. i - 1 \in 0..N
    BY <1>1
  <2>2. flat[i - 1] \in Seq(X)
    BY <2>1
  <2> QED
    BY <1>5, <1>7, <2>2
<1>9. FlatPrefixes(seqs, flat)
  BY <1>7, <1>8 DEF FlatPrefixes, N
<1> QED
  BY <1>9 DEF N

LEMMA FlattenTyped ==
    ASSUME NEW X, NEW seqs \in Seq(Seq(X))
    PROVE  FlattenSeq(seqs) \in Seq(X)
<1>1. PICK flat \in [0..Len(seqs) -> Seq(X)] : FlatPrefixes(seqs, flat)
  BY FlattenedBehind
<1> QED
  BY <1>1, FlattenIs

LEMMA FlattenNone == FlattenSeq(<<>>) = <<>>
BY DEF FlattenSeq

LEMMA FlattenOne ==
    ASSUME NEW X, NEW s \in Seq(X)
    PROVE  FlattenSeq(<<s>>) = s
<1> DEFINE flat == [i \in 0..1 |-> IF i = 0 THEN <<>> ELSE s]
           seqs == <<s>>
<1>1. seqs \in Seq(Seq(X)) /\ Len(seqs) = 1 /\ seqs[1] = s
  OBVIOUS
<1>2. flat[0] = <<>> /\ flat[1] = s /\ <<>> \o s = s
  OBVIOUS
<1> HIDE DEF flat, seqs
<1>3. \A i \in 1..1 : i = 1 /\ i - 1 = 0
  OBVIOUS
<1>4. FlatPrefixes(seqs, flat)
  BY <1>1, <1>2, <1>3 DEF FlatPrefixes
<1>5. FlattenSeq(seqs) = s
  BY <1>1, <1>2, <1>4, FlattenIs
<1> QED
  BY <1>5 DEF seqs

(* A sequence of parts may be cut anywhere.                                *)
LEMMA FlattenConcat ==
    ASSUME NEW X, NEW s \in Seq(Seq(X)), NEW t \in Seq(Seq(X))
    PROVE  FlattenSeq(s \o t) = FlattenSeq(s) \o FlattenSeq(t)
<1>1. PICK f \in [0..Len(s) -> Seq(X)] : FlatPrefixes(s, f)
  BY FlattenedBehind
<1>2. PICK g \in [0..Len(t) -> Seq(X)] : FlatPrefixes(t, g)
  BY FlattenedBehind
<1> DEFINE M == Len(s)
           N == Len(t)
           both == s \o t
           h == [i \in 0..(M + N) |-> IF i <= M THEN f[i] ELSE f[M] \o g[i - M]]
<1>3. M \in Nat /\ N \in Nat /\ both \in Seq(Seq(X)) /\ Len(both) = M + N
  OBVIOUS
<1>4. /\ \A i \in 1..M : both[i] = s[i] /\ s[i] \in Seq(X)
      /\ \A i \in 1..N : both[M + i] = t[i] /\ t[i] \in Seq(X)
  OBVIOUS
<1>5. /\ f[0] = <<>> /\ \A i \in 1..M : f[i] = f[i - 1] \o s[i]
      /\ g[0] = <<>> /\ \A i \in 1..N : g[i] = g[i - 1] \o t[i]
  BY <1>1, <1>2 DEF FlatPrefixes
<1>6. FlattenSeq(s) = f[M] /\ FlattenSeq(t) = g[N]
  BY <1>1, <1>2, FlattenIs
<1>f. f \in [0..M -> Seq(X)] /\ g \in [0..N -> Seq(X)]
  OBVIOUS
<1> HIDE DEF M, N
<1>7. (\A i \in 0..M : f[i] \in Seq(X)) /\ (\A i \in 0..N : g[i] \in Seq(X)) /\ M \in 0..M
  BY <1>3, <1>f
<1> HIDE DEF both
<1>8. \A i \in 0..M : h[i] = f[i]
  BY <1>3
<1>9. \A i \in 0..N : h[M + i] = f[M] \o g[i]
  <2> SUFFICES ASSUME NEW i \in 0..N PROVE h[M + i] = f[M] \o g[i]
    OBVIOUS
  <2>1. M + i \in 0..(M + N) /\ (M + i <= M <=> i = 0) /\ (M + i) - M = i /\ M + 0 = M
    BY <1>3
  <2>2. CASE i = 0
    <3>1. f[M] \o <<>> = f[M]
      BY <1>7
    <3> QED
      BY <1>5, <1>7, <1>8, <2>1, <2>2, <3>1
  <2>3. CASE i # 0
    BY <2>1, <2>3
  <2> QED
    BY <2>2, <2>3
<1> HIDE DEF h
<1>10. ASSUME NEW i \in 1..(M + N) PROVE h[i] = h[i - 1] \o both[i]
  <2>1. CASE i <= M
    <3>1. i \in 1..M /\ i \in 0..M /\ i - 1 \in 0..M
      BY <1>3, <2>1
    <3> QED
      BY <1>4, <1>5, <1>8, <3>1
  <2>2. CASE i > M
    <3> DEFINE k == i - M
    <3>1. k \in 1..N /\ k \in 0..N /\ k - 1 \in 0..N /\ i = M + k /\ i - 1 = M + (k - 1)
      BY <1>3, <2>2
    <3> HIDE DEF k
    <3>2. h[i] = f[M] \o g[k] /\ h[i - 1] = f[M] \o g[k - 1] /\ both[i] = t[k]
      BY <1>4, <1>9, <3>1
    <3>3. g[k] = g[k - 1] \o t[k]
      BY <1>5, <3>1
    <3>4. f[M] \in Seq(X) /\ g[k - 1] \in Seq(X) /\ t[k] \in Seq(X)
      BY <1>4, <1>7, <3>1
    <3>5. \A a, b, c \in Seq(X) : (a \o b) \o c = a \o (b \o c)
      BY ConcatAssociative
    <3>6. (f[M] \o g[k - 1]) \o t[k] = f[M] \o (g[k - 1] \o t[k])
      BY <3>4, <3>5, Zenon
    <3> QED
      BY <3>2, <3>3, <3>6
  <2> QED
    BY <1>3, <2>1, <2>2
<1>11. 0 \in 0..M /\ N \in 0..N
  BY <1>3
<1>12. FlatPrefixes(both, h)
  BY <1>3, <1>5, <1>8, <1>10, <1>11 DEF FlatPrefixes
<1>13. FlattenSeq(both) = h[M + N]
  BY <1>3, <1>12, FlattenIs
<1> QED
  BY <1>6, <1>9, <1>11, <1>13 DEF both
=============================================================================
