--------------------------- MODULE ServerTreeProofs ---------------------------
(***************************************************************************)
(* Routing, for any tree of processes, any hash of their names and any     *)
(* number of instructions: types, no round trips, and the order in which   *)
(* instructions are handled.                                               *)
(***************************************************************************)
EXTENDS ServerTree, SequenceTheorems, FiniteSetTheorems, InductionLemmas, TLAPS

-----------------------------------------------------------------------------
(* A table: every name is in the chain that its hash says, and once.       *)
Tables == [Buckets -> Seq(Keys)]
Hashed(t) ==
    \A b \in Buckets : IsInjective(t[b]) /\ \A q \in ToSet(t[b]) : Hash[q] = b
Cursors == [entry : Keys \cup {NoKey}, i : 0..Size]
Points(t, c) == c \in Cursors /\ (c.entry # NoKey => Has(t, c.entry))

(* Each step of a process that has come to p from below leads up the tree, *)
(* or down to the destination.                                             *)
Depth == CHOOSE depth \in [Procs -> 0..Cardinality(Procs)] :
            \A p \in Procs : Parent[p] # NoKey => depth[Parent[p]] < depth[p]
Climbing(p, instr) ==
    /\ IsInjective(instr.via)
    /\ \A i \in 1..Len(instr.via) :
        instr.via[i] # instr.dest /\ Depth[p] <= Depth[instr.via[i]]
Leaving(p) == {instr \in Instrs : Climbing(p, instr)}
Passing(p, q) == {instr \in Leaving(p) : q \in {instr.dest, Parent[p]}}
Arriving(p) ==
    {instr \in Instrs : IsInjective(instr.via) /\ (instr.dest # p => Climbing(p, instr))}

TableInv ==
    \A p \in Procs :
        /\ Hashed(table[p])
        /\ \A q \in Procs : Has(table[p], q) => q \in Neighbours(p)
        /\ \A q \in Children(p) : Has(table[p], q)
CursorInv ==
    \A p \in Procs :
        /\ Points(table[p], cursor[p])
        /\ mode[p] = "running" => cursor[p].entry = NoKey /\ cursor[p].i = 0
RouteInv ==
    /\ \A p \in Procs : outgoing[p] \in Seq(Leaving(p)) /\ incoming[p] \in Seq(Arriving(p))
    /\ \A p, q \in Procs : channel[p][q] \in Seq(Passing(p, q))

ServerInv == TreeTypeOK /\ TableInv /\ CursorInv /\ RouteInv

-----------------------------------------------------------------------------
(* The operations of the hash table.                                       *)
LEMMA HashIs ==
    /\ Size \in Nat /\ Size >= 1 /\ Hash \in [Keys -> Buckets] /\ NoKey \notin Keys
    /\ \A b \in Buckets : b \in Nat /\ b < Size
BY HashAssumption DEF Buckets

LEMMA HasIs == \A t, k : Has(t, k) <=> k \in ToSet(t[Hash[k]])
BY DEF Has, Chain, ToSet

LEMMA ChainIs ==
    ASSUME NEW t \in Tables, NEW k \in Keys
    PROVE  Hash[k] \in Buckets /\ Chain(t, k) = t[Hash[k]] /\ Chain(t, k) \in Seq(Keys)
<1>1. Hash[k] \in Buckets
  BY HashIs
<1>2. t[Hash[k]] \in Seq(Keys)
  BY <1>1 DEF Tables
<1> QED
  BY <1>1, <1>2 DEF Chain

LEMMA EmptyIs ==
    EmptyTable \in Tables /\ Hashed(EmptyTable) /\ \A k \in Keys : ~Has(EmptyTable, k)
<1>1. EmptyTable \in Tables /\ \A b \in Buckets : EmptyTable[b] = <<>>
  BY DEF EmptyTable, Tables
<1>2. ToSet(<<>>) = {} /\ IsInjective(<<>>)
  BY DEF ToSet, IsInjective
<1>3. Hashed(EmptyTable)
  BY <1>1, <1>2 DEF Hashed
<1>4. ASSUME NEW k \in Keys PROVE ~Has(EmptyTable, k)
  <2>1. Hash[k] \in Buckets
    BY HashIs
  <2>2. EmptyTable[Hash[k]] = <<>>
    BY <1>1, <2>1
  <2> QED
    BY <1>2, <2>2, HasIs
<1> QED
  BY <1>1, <1>3, <1>4

(* A chain that is changed changes what the table has under its hash.      *)
Rechained(t, k, chain, u) ==
    /\ u \in Tables /\ Hashed(u)
    /\ \A q \in Keys : Hash[q] # Hash[k] => (Has(u, q) <=> Has(t, q))
    /\ \A q \in Keys : Hash[q] = Hash[k] => (Has(u, q) <=> q \in ToSet(chain))

LEMMA ChainSet ==
    ASSUME NEW t \in Tables, Hashed(t), NEW k \in Keys, NEW chain \in Seq(Keys),
           IsInjective(chain), \A q \in ToSet(chain) : Hash[q] = Hash[k]
    PROVE  Rechained(t, k, chain, [t EXCEPT ![Hash[k]] = chain])
<1> DEFINE u == [t EXCEPT ![Hash[k]] = chain]
<1>1. Hash[k] \in Buckets
  BY HashIs
<1>2. u \in Tables /\ u[Hash[k]] = chain /\ \A b \in Buckets : b # Hash[k] => u[b] = t[b]
  BY <1>1 DEF Tables
<1> HIDE DEF u
<1>3. Hashed(u)
  <2> SUFFICES ASSUME NEW b \in Buckets
               PROVE  IsInjective(u[b]) /\ \A q \in ToSet(u[b]) : Hash[q] = b
    BY DEF Hashed
  <2>1. CASE b = Hash[k]
    BY <1>2, <2>1
  <2>2. CASE b # Hash[k]
    <3>1. u[b] = t[b]
      BY <1>2, <2>2
    <3> QED
      BY <3>1 DEF Hashed
  <2> QED
    BY <2>1, <2>2
<1>4. ASSUME NEW q \in Keys, Hash[q] # Hash[k] PROVE Has(u, q) <=> Has(t, q)
  <2>1. Hash[q] \in Buckets /\ u[Hash[q]] = t[Hash[q]]
    BY <1>2, <1>4, HashIs
  <2> QED
    BY <2>1, HasIs
<1>5. ASSUME NEW q \in Keys, Hash[q] = Hash[k] PROVE Has(u, q) <=> q \in ToSet(chain)
  <2>1. u[Hash[q]] = chain
    BY <1>2, <1>5
  <2> QED
    BY <2>1, HasIs
<1>6. Rechained(t, k, chain, u)
  BY <1>2, <1>3, <1>4, <1>5 DEF Rechained
<1> QED
  BY <1>6 DEF u

(* A sequence with one more element in front.                              *)
LEMMA InFront ==
    ASSUME NEW S, NEW k \in S, NEW old \in Seq(S)
    PROVE  /\ <<k>> \o old \in Seq(S) /\ ToSet(<<k>> \o old) = {k} \cup ToSet(old)
           /\ IsInjective(old) /\ k \notin ToSet(old) => IsInjective(<<k>> \o old)
<1> DEFINE chain == <<k>> \o old
           N == Len(old)
<1>1. <<k>> \in Seq(S) /\ Len(<<k>>) = 1 /\ <<k>>[1] = k /\ N \in Nat /\ DOMAIN old = 1..N
  OBVIOUS
<1>2. /\ chain \in Seq(S) /\ Len(chain) = N + 1
      /\ \A i \in 1..Len(chain) : chain[i] = IF i <= 1 THEN <<k>>[i] ELSE old[i - 1]
  BY <1>1, ConcatProperties
<1>3. DOMAIN chain = 1..(N + 1)
  BY <1>2
<1> HIDE DEF chain
<1>4. 1 \in 1..(N + 1) /\ chain[1] = k
  BY <1>1, <1>2
<1>5. ASSUME NEW j \in 1..N PROVE j + 1 \in 1..(N + 1) /\ chain[j + 1] = old[j]
  <2>1. j + 1 \in 1..(N + 1) /\ ~(j + 1 <= 1) /\ (j + 1) - 1 = j
    BY <1>1
  <2> QED
    BY <1>2, <2>1
<1>6. ASSUME NEW i \in 1..(N + 1), i # 1 PROVE i - 1 \in 1..N /\ chain[i] = old[i - 1]
  <2>1. i - 1 \in 1..N /\ ~(i <= 1)
    BY <1>1, <1>6
  <2> QED
    BY <1>2, <2>1
<1> HIDE DEF N
<1>7. ASSUME NEW q PROVE q \in ToSet(chain) <=> q = k \/ q \in ToSet(old)
  <2>1. q \in ToSet(chain) <=> \E i \in 1..(N + 1) : chain[i] = q
    BY <1>3 DEF ToSet
  <2>2. q \in ToSet(old) <=> \E i \in 1..N : old[i] = q
    BY <1>1 DEF ToSet, N
  <2> QED
    BY <1>4, <1>5, <1>6, <2>1, <2>2
<1>8. ASSUME IsInjective(old), k \notin ToSet(old) PROVE IsInjective(chain)
  <2>1. \A i \in 1..N : old[i] # k
    BY <1>1, <1>8 DEF ToSet, N
  <2> SUFFICES ASSUME NEW i \in 1..(N + 1), NEW j \in 1..(N + 1), chain[i] = chain[j]
               PROVE  i = j
    BY <1>3 DEF IsInjective
  <2>2. CASE i = 1 \/ j = 1
    BY <1>4, <1>6, <2>1, <2>2
  <2>3. CASE i # 1 /\ j # 1
    <3>1. i - 1 \in 1..N /\ j - 1 \in 1..N /\ old[i - 1] = old[j - 1]
      BY <1>6, <2>3
    <3>2. i - 1 = j - 1
      BY <1>1, <1>8, <3>1 DEF IsInjective, N
    <3> QED
      BY <3>2
  <2> QED
    BY <2>2, <2>3
<1> QED
  BY <1>2, <1>7, <1>8 DEF chain

LEMMA AddIs ==
    ASSUME NEW t \in Tables, Hashed(t), NEW k \in Keys
    PROVE  /\ AddEntry(t, k) \in Tables /\ Hashed(AddEntry(t, k))
           /\ \A q \in Keys : Has(AddEntry(t, k), q) <=> (q = k \/ Has(t, q))
<1>1. CASE Has(t, k)
  BY <1>1 DEF AddEntry
<1>2. CASE ~Has(t, k)
  <2> DEFINE chain == <<k>> \o t[Hash[k]]
             u == [t EXCEPT ![Hash[k]] = chain]
  <2>1. AddEntry(t, k) = u
    BY <1>2 DEF AddEntry
  <2>2. /\ t[Hash[k]] \in Seq(Keys) /\ IsInjective(t[Hash[k]])
        /\ \A q \in ToSet(t[Hash[k]]) : Hash[q] = Hash[k]
        /\ k \notin ToSet(t[Hash[k]])
    BY <1>2, ChainIs, HasIs DEF Hashed
  <2>3. chain \in Seq(Keys) /\ ToSet(chain) = {k} \cup ToSet(t[Hash[k]]) /\ IsInjective(chain)
    BY <2>2, InFront
  <2> HIDE DEF chain
  <2>4. Rechained(t, k, chain, u)
    BY <2>2, <2>3, ChainSet
  <2> HIDE DEF u
  <2>5. ASSUME NEW q \in Keys PROVE Has(u, q) <=> (q = k \/ Has(t, q))
    <3>1. CASE Hash[q] # Hash[k]
      BY <2>4, <3>1 DEF Rechained
    <3>2. CASE Hash[q] = Hash[k]
      BY <2>3, <2>4, <3>2, HasIs DEF Rechained
    <3> QED
      BY <3>1, <3>2
  <2> QED
    BY <2>1, <2>4, <2>5 DEF Rechained
<1> QED
  BY <1>1, <1>2

(* A table filled with names has them and no others.                       *)
LEMMA FilledIs ==
    ASSUME NEW names \in Seq(Keys)
    PROVE  /\ Filled(names) \in Tables /\ Hashed(Filled(names))
           /\ \A q \in Keys : Has(Filled(names), q) <=> \E i \in 1..Len(names) : names[i] = q
<1> DEFINE N == Len(names)
           Is(f) == f = [n \in 0..N |->
                            IF n = 0 THEN EmptyTable ELSE AddEntry(f[n - 1], names[n])]
           after == CHOOSE f : Is(f)
<1>1. N \in Nat /\ \A n \in 1..N : names[n] \in Keys
  OBVIOUS
<1>2. Filled(names) = after[N]
  BY DEF Filled
<1> HIDE DEF N
<1>3. \E f : Is(f)
  <2> DEFINE V == {t \in Tables : Hashed(t)}
             step == [n \in 1..N |-> [t \in V |-> AddEntry(t, names[n])]]
  <2>1. EmptyTable \in V
    BY EmptyIs
  <2>2. step \in [1..N -> [V -> V]]
    <3>1. \A n \in 1..N : \A t \in V : AddEntry(t, names[n]) \in V
      BY <1>1, AddIs
    <3> HIDE DEF V
    <3> QED
      BY <3>1
  <2>3. \A n \in 1..N : \A t \in V : step[n][t] = AddEntry(t, names[n])
    OBVIOUS
  <2> HIDE DEF V, step
  <2>4. Recurs(N, V, EmptyTable, step)
    BY <1>1, <2>1, <2>2, Recursion
  <2>5. PICK f \in [0..N -> V] : f[0] = EmptyTable /\ \A n \in 1..N : f[n] = step[n][f[n - 1]]
    BY <2>4 DEF Recurs
  <2>6. ASSUME NEW n \in 1..N PROVE f[n] = AddEntry(f[n - 1], names[n])
    <3>1. n - 1 \in 0..N
      BY <1>1
    <3>2. f[n - 1] \in V
      BY <3>1
    <3> QED
      BY <2>3, <2>5, <3>2
  <2>7. \A n \in 0..N : f[n] = IF n = 0 THEN EmptyTable ELSE AddEntry(f[n - 1], names[n])
    BY <2>5, <2>6
  <2>8. Is(f)
    BY <2>7
  <2> QED
    BY <2>8
<1>4. Is(after)
  BY <1>3
<1> HIDE DEF after
<1>5. after[0] = EmptyTable /\ \A n \in 1..N : after[n] = AddEntry(after[n - 1], names[n])
  BY <1>1, <1>4
<1> HIDE DEF Is
<1> DEFINE Fine(n) == /\ after[n] \in Tables /\ Hashed(after[n])
                      /\ \A q \in Keys : Has(after[n], q) <=> \E i \in 1..n : names[i] = q
           S == {n \in 0..N : Fine(n)}
<1>6. 0 \in S
  BY <1>1, <1>5, EmptyIs
<1>7. ASSUME NEW n \in 0..(N - 1), n \in S PROVE n + 1 \in S
  <2>1. n + 1 \in 1..N /\ n + 1 \in 0..N /\ (n + 1) - 1 = n /\ names[n + 1] \in Keys
    BY <1>1
  <2>2. after[n + 1] = AddEntry(after[n], names[n + 1])
    BY <1>5, <2>1
  <2>3. Fine(n)
    BY <1>7
  <2>4. /\ after[n + 1] \in Tables /\ Hashed(after[n + 1])
        /\ \A q \in Keys : Has(after[n + 1], q) <=> (q = names[n + 1] \/ Has(after[n], q))
    BY <2>1, <2>2, <2>3, AddIs
  <2>5. \A i : i \in 1..(n + 1) <=> (i \in 1..n \/ i = n + 1)
    BY <1>1
  <2>6. Fine(n + 1)
    BY <2>3, <2>4, <2>5
  <2> HIDE DEF Fine
  <2> QED
    BY <2>1, <2>6
<1> HIDE DEF S
<1>8. N \in S
  <2>1. 0..N \subseteq S
    BY <1>1, <1>6, <1>7, Induction
  <2>2. N \in 0..N
    BY <1>1
  <2> QED
    BY <2>1, <2>2
<1>9. Fine(N)
  BY <1>8 DEF S
<1> QED
  BY <1>2, <1>9 DEF N

(* A sequence without one of its elements.                                 *)
LEMMA WithoutFirst ==
    ASSUME NEW S, NEW s \in Seq(S), s # <<>>
    PROVE  /\ Head(s) \in ToSet(s) /\ Tail(s) \in Seq(S)
           /\ ToSet(s) = {Head(s)} \cup ToSet(Tail(s))
           /\ IsInjective(s) => IsInjective(Tail(s))
<1> DEFINE N == Len(s)
<1>1. N \in Nat /\ N >= 1 /\ Head(s) = s[1] /\ DOMAIN s = 1..N
  BY EmptySeq
<1>2. /\ Tail(s) \in Seq(S) /\ Len(Tail(s)) = N - 1
      /\ \A i \in 1..(N - 1) : Tail(s)[i] = s[i + 1]
  BY HeadTailProperties
<1>3. DOMAIN Tail(s) = 1..(N - 1)
  BY <1>2
<1>4. 1 \in 1..N /\ \A i \in 1..(N - 1) : i + 1 \in 1..N
  BY <1>1
<1>5. \A i \in 1..N : i = 1 \/ (i - 1 \in 1..(N - 1) /\ (i - 1) + 1 = i)
  BY <1>1
<1> HIDE DEF N
<1>6. ASSUME NEW q PROVE q \in ToSet(s) <=> q = Head(s) \/ q \in ToSet(Tail(s))
  <2>1. q \in ToSet(s) <=> \E i \in 1..N : s[i] = q
    BY <1>1 DEF ToSet
  <2>2. q \in ToSet(Tail(s)) <=> \E i \in 1..(N - 1) : Tail(s)[i] = q
    BY <1>3 DEF ToSet
  <2> QED
    BY <1>1, <1>2, <1>4, <1>5, <2>1, <2>2
<1>7. ASSUME IsInjective(s), NEW i \in 1..(N - 1), NEW j \in 1..(N - 1), Tail(s)[i] = Tail(s)[j]
      PROVE  i = j
  <2>1. i + 1 \in 1..N /\ j + 1 \in 1..N /\ s[i + 1] = s[j + 1]
    BY <1>2, <1>4, <1>7
  <2>2. i + 1 = j + 1
    BY <1>1, <1>7, <2>1 DEF IsInjective
  <2> QED
    BY <2>2
<1> QED
  BY <1>1, <1>2, <1>3, <1>6, <1>7 DEF IsInjective

LEMMA WithoutOne ==
    ASSUME NEW S, NEW s \in Seq(S), NEW k \in DOMAIN s
    PROVE  /\ RemoveAt(s, k) \in Seq(S) /\ ToSet(s) = {s[k]} \cup ToSet(RemoveAt(s, k))
           /\ IsInjective(s) => IsInjective(RemoveAt(s, k))
<1> DEFINE N == Len(s)
           front == SubSeq(s, 1, k - 1)
           back == SubSeq(s, k + 1, N)
           rest == front \o back
<1>1. N \in Nat /\ DOMAIN s = 1..N /\ k \in 1..N /\ k \in Int /\ \A i \in 1..N : s[i] \in S
  OBVIOUS
<1>2. /\ front \in Seq(S) /\ Len(front) = k - 1
      /\ \A i \in 1..(k - 1) : front[i] = s[i]
  <2>1. k - 1 \in Int /\ \A i \in 1..(k - 1) : s[i] \in S
    BY <1>1
  <2>2. /\ front \in Seq(S) /\ Len(front) = IF 1 <= k - 1 THEN (k - 1) - 1 + 1 ELSE 0
        /\ \A i \in 1..((k - 1) - 1 + 1) : front[i] = s[1 + i - 1]
    BY <2>1, SubSeqProperties
  <2> HIDE DEF front
  <2> QED
    BY <1>1, <2>2
<1>3. /\ back \in Seq(S) /\ Len(back) = N - k
      /\ \A i \in 1..(N - k) : back[i] = s[k + i]
  <2>1. k + 1 \in Int /\ N \in Int /\ \A i \in (k + 1)..N : s[i] \in S
    BY <1>1
  <2>2. /\ back \in Seq(S) /\ Len(back) = IF k + 1 <= N THEN N - (k + 1) + 1 ELSE 0
        /\ \A i \in 1..(N - (k + 1) + 1) : back[i] = s[(k + 1) + i - 1]
    <3> HIDE DEF N
    <3> QED
      BY <2>1, SubSeqProperties
  <2> HIDE DEF back, N
  <2>3. k + 1 <= N => N - (k + 1) + 1 = N - k
    BY <1>1
  <2>4. ~(k + 1 <= N) => 0 = N - k
    BY <1>1
  <2>5. Len(back) = N - k
    BY <2>2, <2>3, <2>4
  <2>6. ASSUME NEW i \in 1..(N - k) PROVE back[i] = s[k + i]
    <3>1. i \in 1..(N - (k + 1) + 1) /\ (k + 1) + i - 1 = k + i
      BY <1>1
    <3> QED
      BY <2>2, <3>1
  <2> QED
    BY <2>2, <2>5, <2>6
<1> HIDE DEF front, back
<1>4. /\ rest \in Seq(S) /\ Len(rest) = N - 1
      /\ \A i \in 1..(N - 1) : rest[i] = IF i <= k - 1 THEN front[i] ELSE back[i - (k - 1)]
  <2>1. /\ rest \in Seq(S) /\ Len(rest) = Len(front) + Len(back)
        /\ \A i \in 1..(Len(front) + Len(back)) :
              rest[i] = IF i <= Len(front) THEN front[i] ELSE back[i - Len(front)]
    BY <1>2, <1>3, ConcatProperties
  <2>2. Len(front) + Len(back) = N - 1
    BY <1>1, <1>2, <1>3
  <2> HIDE DEF rest
  <2> QED
    BY <1>2, <2>1, <2>2
<1>5. RemoveAt(s, k) = rest
  BY DEF RemoveAt, rest, front, back
<1>6. DOMAIN rest = 1..(N - 1)
  BY <1>4
<1> HIDE DEF N, rest
<1> DEFINE from(i) == IF i <= k - 1 THEN i ELSE i + 1
<1>7. ASSUME NEW i \in 1..(N - 1) PROVE from(i) \in 1..N /\ s[from(i)] = rest[i]
  <2>1. CASE i <= k - 1
    <3>1. i \in 1..(k - 1) /\ i \in 1..N
      BY <1>1, <2>1
    <3>2. rest[i] = s[i]
      BY <1>2, <1>4, <2>1, <3>1
    <3> QED
      BY <2>1, <3>1, <3>2
  <2>2. CASE ~(i <= k - 1)
    <3>1. i - (k - 1) \in 1..(N - k) /\ i + 1 \in 1..N /\ k + (i - (k - 1)) = i + 1
      BY <1>1, <2>2
    <3>2. rest[i] = s[i + 1]
      BY <1>3, <1>4, <2>2, <3>1
    <3> QED
      BY <2>2, <3>1, <3>2
  <2> QED
    BY <2>1, <2>2
<1>8. ASSUME NEW j \in 1..N, j # k PROVE \E i \in 1..(N - 1) : rest[i] = s[j]
  <2>1. CASE j < k
    <3>1. j \in 1..(N - 1) /\ j <= k - 1 /\ j \in 1..(k - 1)
      BY <1>1, <2>1
    <3> QED
      BY <1>2, <1>4, <3>1
  <2>2. CASE ~(j < k)
    <3>1. /\ j - 1 \in 1..(N - 1) /\ ~(j - 1 <= k - 1)
          /\ (j - 1) - (k - 1) = j - k /\ j - k \in 1..(N - k) /\ k + (j - k) = j
      BY <1>1, <1>8, <2>2
    <3>2. rest[j - 1] = s[j]
      BY <1>3, <1>4, <3>1
    <3> QED
      BY <3>1, <3>2
  <2> QED
    BY <2>1, <2>2
<1>9. ASSUME NEW q PROVE q \in ToSet(s) <=> q = s[k] \/ q \in ToSet(rest)
  <2>1. q \in ToSet(s) <=> \E i \in 1..N : s[i] = q
    BY <1>1 DEF ToSet
  <2>2. q \in ToSet(rest) <=> \E i \in 1..(N - 1) : rest[i] = q
    BY <1>6 DEF ToSet
  <2> QED
    BY <1>1, <1>7, <1>8, <2>1, <2>2
<1>10. ASSUME IsInjective(s), NEW i \in 1..(N - 1), NEW j \in 1..(N - 1), rest[i] = rest[j]
       PROVE  i = j
  <2>1. from(i) = from(j)
    <3> HIDE DEF from
    <3> QED
      BY <1>1, <1>7, <1>10 DEF IsInjective
  <2> QED
    BY <1>1, <2>1
<1> QED
  BY <1>4, <1>5, <1>6, <1>9, <1>10 DEF IsInjective

(* What is removed is at most the name.                                    *)
LEMMA RemoveIs ==
    ASSUME NEW t \in Tables, Hashed(t), NEW k \in Keys
    PROVE  /\ RemoveEntry(t, k) \in Tables /\ Hashed(RemoveEntry(t, k))
           /\ \A q \in Keys : Has(RemoveEntry(t, k), q) => Has(t, q)
           /\ \A q \in Keys : q # k /\ Has(t, q) => Has(RemoveEntry(t, k), q)
<1> DEFINE old == t[Hash[k]]
           i == CHOOSE i \in Behind(t, k) : TRUE
           chain == IF AtHead(t, k) THEN Tail(old)
                    ELSE IF Behind(t, k) # {} THEN RemoveAt(old, i) ELSE old
           u == [t EXCEPT ![Hash[k]] = chain]
<1>1. RemoveEntry(t, k) = u
  BY DEF RemoveEntry
<1>2. /\ old \in Seq(Keys) /\ Chain(t, k) = old /\ IsInjective(old)
      /\ \A q \in ToSet(old) : Hash[q] = Hash[k]
  BY ChainIs DEF Hashed
<1> HIDE DEF old, i
<1>3. /\ chain \in Seq(Keys) /\ ToSet(chain) \subseteq ToSet(old) /\ IsInjective(chain)
      /\ \A q \in ToSet(old) : q = k \/ q \in ToSet(chain)
  <2>1. CASE AtHead(t, k)
    <3>1. old # <<>> /\ Head(old) = k /\ chain = Tail(old)
      BY <1>2, <2>1 DEF AtHead
    <3> HIDE DEF chain
    <3>2. /\ Tail(old) \in Seq(Keys) /\ ToSet(old) = {Head(old)} \cup ToSet(Tail(old))
          /\ IsInjective(Tail(old))
      BY <1>2, <3>1, WithoutFirst
    <3> QED
      BY <3>1, <3>2
  <2>2. CASE ~AtHead(t, k) /\ Behind(t, k) # {}
    <3>1. i \in DOMAIN old /\ old[i] = k /\ chain = RemoveAt(old, i)
      <4>1. i \in Behind(t, k)
        BY <2>2 DEF i
      <4> QED
        BY <1>2, <2>2, <4>1 DEF Behind
    <3> HIDE DEF chain
    <3>2. /\ RemoveAt(old, i) \in Seq(Keys) /\ ToSet(old) = {old[i]} \cup ToSet(RemoveAt(old, i))
          /\ IsInjective(RemoveAt(old, i))
      BY <1>2, <3>1, WithoutOne
    <3> QED
      BY <3>1, <3>2
  <2>3. CASE ~AtHead(t, k) /\ Behind(t, k) = {}
    BY <1>2, <2>3
  <2> QED
    BY <2>1, <2>2, <2>3
<1> HIDE DEF chain
<1>4. Rechained(t, k, chain, u)
  BY <1>2, <1>3, ChainSet
<1> HIDE DEF u
<1>5. ASSUME NEW q \in Keys PROVE /\ Has(u, q) => Has(t, q)
                                  /\ q # k /\ Has(t, q) => Has(u, q)
  <2>1. CASE Hash[q] # Hash[k]
    BY <1>4, <2>1 DEF Rechained
  <2>2. CASE Hash[q] = Hash[k]
    <3>1. Has(t, q) <=> q \in ToSet(old)
      BY <2>2, HasIs DEF old
    <3> QED
      BY <1>3, <1>4, <2>2, <3>1 DEF Rechained
  <2> QED
    BY <2>1, <2>2
<1> QED
  BY <1>1, <1>4, <1>5 DEF Rechained

(* The iterator finds entries of the table.                                *)
LEMMA ScanIs ==
    ASSUME NEW t \in Tables, Hashed(t), NEW i \in Nat
    PROVE  Points(t, Scan(t, i))
<1> DEFINE found == {b \in Buckets : b >= i /\ t[b] # <<>>}
           b == Min(found)
<1>1. CASE found = {}
  <2>1. Scan(t, i) = [entry |-> NoKey, i |-> Size]
    BY <1>1 DEF Scan
  <2>2. Size \in 0..Size
    BY HashIs
  <2>3. Scan(t, i) \in Cursors /\ Scan(t, i).entry = NoKey
    BY <2>1, <2>2 DEF Cursors
  <2> QED
    BY <2>3 DEF Points
<1>2. CASE found # {}
  <2>1. Scan(t, i) = [entry |-> Head(t[b]), i |-> b + 1]
    BY <1>2 DEF Scan
  <2>2. found \subseteq Nat
    BY HashIs
  <2>3. b \in found
    <3> HIDE DEF found
    <3>1. \E x \in found : \A y \in found : x <= y
      BY <1>2, <2>2, LeastElement
    <3> QED
      BY <3>1 DEF Min
  <2>4. b \in Buckets /\ t[b] # <<>> /\ t[b] \in Seq(Keys)
    BY <2>3 DEF Tables
  <2> HIDE DEF b
  <2>5. Head(t[b]) \in Keys /\ Head(t[b]) \in ToSet(t[b])
    BY <2>4, WithoutFirst, HeadTailProperties
  <2>6. Hash[Head(t[b])] = b
    BY <2>4, <2>5 DEF Hashed
  <2>7. Has(t, Head(t[b]))
    BY <2>5, <2>6, HasIs
  <2>8. b + 1 \in 0..Size
    BY <2>4, HashIs
  <2>9. Scan(t, i) \in Cursors /\ Scan(t, i).entry = Head(t[b])
    BY <2>1, <2>5, <2>8 DEF Cursors
  <2> QED
    BY <2>7, <2>9 DEF Points
<1> QED
  BY <1>1, <1>2

LEMMA NextIs ==
    ASSUME NEW t \in Tables, Hashed(t), NEW c, Points(t, c), c.entry # NoKey
    PROVE  Points(t, NextEntry(t, c))
<1> DEFINE k == c.entry
           chain == t[Hash[k]]
           at == CHOOSE i \in DOMAIN chain : chain[i] = k
<1>1. k \in Keys /\ Has(t, k) /\ c \in Cursors /\ c.i \in Nat
  BY HashIs DEF Points, Cursors
<1>2. chain \in Seq(Keys) /\ Chain(t, k) = chain
  BY <1>1, ChainIs
<1>3. at \in DOMAIN chain
  <2>1. \E i \in DOMAIN chain : chain[i] = k
    BY <1>1, <1>2 DEF Has
  <2> QED
    BY <2>1
<1>4. NextEntry(t, c) = IF at < Len(chain) THEN [c EXCEPT !.entry = chain[at + 1]]
                        ELSE Scan(t, c.i)
  BY <1>2 DEF NextEntry
<1> HIDE DEF at
<1>5. CASE at < Len(chain)
  <2> DEFINE q == chain[at + 1]
  <2>1. at + 1 \in DOMAIN chain /\ q \in Keys
    BY <1>2, <1>3, <1>5
  <2>2. q \in ToSet(chain)
    BY <2>1 DEF ToSet
  <2>3. Hash[q] = Hash[k]
    BY <1>1, <2>2, HashIs DEF Hashed
  <2>4. Has(t, q)
    BY <2>2, <2>3, HasIs
  <2> HIDE DEF q
  <2>5. NextEntry(t, c) = [c EXCEPT !.entry = q]
    BY <1>4, <1>5 DEF q
  <2>6. [c EXCEPT !.entry = q] \in Cursors /\ [c EXCEPT !.entry = q].entry = q
    BY <1>1, <2>1 DEF Cursors
  <2> QED
    BY <2>4, <2>5, <2>6 DEF Points
<1>6. CASE ~(at < Len(chain))
  BY <1>1, <1>4, <1>6, ScanIs
<1> QED
  BY <1>5, <1>6

-----------------------------------------------------------------------------
(* The tree.                                                               *)
LEMMA DepthIs ==
    /\ Parent \in [Procs -> Procs \cup {NoKey}] /\ IsFiniteSet(Procs) /\ MaxSends \in Nat
    /\ \A p \in Procs : Depth[p] \in Nat
    /\ \A p \in Procs : Parent[p] # NoKey => Parent[p] \in Procs /\ Depth[Parent[p]] < Depth[p]
<1>1. \E depth \in [Procs -> 0..Cardinality(Procs)] :
         \A p \in Procs : Parent[p] # NoKey => depth[Parent[p]] < depth[p]
  BY TreeAssumption DEF TreeAssumption
<1>2. /\ Depth \in [Procs -> 0..Cardinality(Procs)]
      /\ \A p \in Procs : Parent[p] # NoKey => Depth[Parent[p]] < Depth[p]
  BY <1>1 DEF Depth
<1>3. Cardinality(Procs) \in Nat
  BY TreeAssumption, FS_CardinalityType DEF TreeAssumption
<1>4. \A p \in Procs : Depth[p] \in Nat
  BY <1>2, <1>3
<1> QED
  BY <1>2, <1>4, TreeAssumption DEF TreeAssumption

LEMMA NeighboursAre ==
    ASSUME NEW p \in Procs
    PROVE  /\ Neighbours(p) \subseteq Procs /\ IsFiniteSet(Neighbours(p))
           /\ Children(p) \subseteq Neighbours(p)
           /\ p \notin Neighbours(p) /\ Parent[p] \notin Children(p)
           /\ Parent[p] # NoKey => Parent[p] \in Neighbours(p)
<1>1. Neighbours(p) \subseteq Procs
  BY DepthIs DEF Neighbours, Children
<1>2. IsFiniteSet(Neighbours(p))
  BY <1>1, DepthIs, FS_Subset
<1>3. p # NoKey
  BY HashIs DEF Procs
<1>4. p \notin Neighbours(p)
  BY <1>3, DepthIs DEF Neighbours, Children
<1>5. ASSUME Parent[p] \in Children(p) PROVE FALSE
  <2>1. Parent[p] \in Procs /\ Parent[Parent[p]] = p
    BY <1>5 DEF Children
  <2>2. Parent[p] # NoKey
    BY <2>1, HashIs DEF Procs
  <2>3. Depth[p] \in Nat /\ Depth[Parent[p]] \in Nat
    BY <2>1, DepthIs
  <2>4. Depth[Parent[p]] < Depth[p]
    BY <2>2, DepthIs
  <2>5. Depth[p] < Depth[Parent[p]]
    BY <1>3, <2>1, DepthIs
  <2> QED
    BY <2>3, <2>4, <2>5
<1> QED
  BY <1>1, <1>2, <1>4, <1>5 DEF Neighbours

(* A program that adds its neighbours in some order adds them all.         *)
LEMMA OrderIs ==
    ASSUME NEW S, IsFiniteSet(S), NEW f \in SetToSeqs(S)
    PROVE  f \in Seq(S) /\ ToSet(f) = S
<1> DEFINE N == Cardinality(S)
<1>1. N \in Nat
  BY FS_CardinalityType
<1>2. f \in [1..N -> S] /\ \A i, j \in 1..N : i # j => f[i] # f[j]
  BY DEF SetToSeqs
<1>3. f \in Seq(S) /\ DOMAIN f = 1..N
  BY <1>1, <1>2
<1>4. f \in Injection(1..N, S)
  BY <1>2 DEF Injection, IsInjective
<1>5. IsFiniteSet(1..N) /\ Cardinality(1..N) = N
  <2> HIDE DEF N
  <2>1. 1 \in Int /\ N \in Int /\ (IF 1 > N THEN 0 ELSE N - 1 + 1) = N
    BY <1>1
  <2> QED
    BY <2>1, FS_Interval
<1>6. f \in Surjection(1..N, S)
  BY <1>4, <1>5, FS_Injection
<1>7. \A q \in S : \E i \in 1..N : f[i] = q
  BY <1>6 DEF Surjection
<1> HIDE DEF N
<1>8. ToSet(f) = S
  BY <1>2, <1>3, <1>7 DEF ToSet
<1> QED
  BY <1>3, <1>8

-----------------------------------------------------------------------------
LEMMA TreeInit == Init => ServerInv
<1> SUFFICES ASSUME Init PROVE ServerInv
  OBVIOUS
<1>1. PICK order \in [Procs -> UNION {SetToSeqs(Neighbours(p)) : p \in Procs}] :
        /\ \A p \in Procs : order[p] \in SetToSeqs(Neighbours(p))
        /\ table = [p \in Procs |-> Filled(order[p])]
  BY DEF Init
<1>2. ASSUME NEW p \in Procs
      PROVE  /\ table[p] \in Tables /\ Hashed(table[p])
             /\ \A q \in Procs : Has(table[p], q) <=> q \in Neighbours(p)
  <2>1. order[p] \in Seq(Neighbours(p)) /\ ToSet(order[p]) = Neighbours(p)
    BY <1>1, NeighboursAre, OrderIs
  <2>2. order[p] \in Seq(Keys)
    BY <2>1, NeighboursAre DEF Procs
  <2>3. table[p] = Filled(order[p])
    BY <1>1
  <2>4. ASSUME NEW q
        PROVE  (\E i \in 1..Len(order[p]) : order[p][i] = q) <=> q \in ToSet(order[p])
    BY <2>2 DEF ToSet
  <2>5. /\ Filled(order[p]) \in Tables /\ Hashed(Filled(order[p]))
        /\ \A q \in Keys : Has(Filled(order[p]), q)
              <=> \E i \in 1..Len(order[p]) : order[p][i] = q
    BY <2>2, FilledIs
  <2> QED
    BY <2>1, <2>3, <2>4, <2>5 DEF Procs
<1>3. table \in [Procs -> Tables]
  BY <1>1, <1>2
<1>4. \A p \in Procs : cursor[p] = [entry |-> NoKey, i |-> 0]
  BY DEF Init
<1>5. TreeTypeOK
  <2>1. 0 \in 0..Size /\ 0 \in 0..MaxSends
    BY HashIs, DepthIs
  <2>2. cursor \in [Procs -> [entry : Procs \cup {NoKey}, i : 0..Size]]
    BY <2>1 DEF Init
  <2>3. \A p, q \in Procs : live[p][q] => Has(table[p], q)
    BY <1>2 DEF Init
  <2>4. table \in [Procs -> [Buckets -> Seq(Procs)]]
    BY <1>3 DEF Tables, Procs
  <2>5. /\ mode \in [Procs -> {"running", "draining", "freeing", "sending", "gone", "crashed"}]
        /\ live \in [Procs -> [Procs -> BOOLEAN]] /\ listening \in [Procs -> [Procs -> BOOLEAN]]
    BY DEF Init
  <2>6. /\ incoming \in [Procs -> Seq(Instrs)] /\ outgoing \in [Procs -> Seq(Instrs)]
        /\ channel \in [Procs -> [Procs -> Seq(Instrs)]] /\ handled \in [Procs -> Seq(Instrs)]
    BY DEF Init
  <2>7. sends \in 0..MaxSends
    BY <2>1 DEF Init
  <2> QED
    BY <2>2, <2>3, <2>4, <2>5, <2>6, <2>7 DEF TreeTypeOK
<1>6. TableInv
  BY <1>2, NeighboursAre DEF TableInv
<1>7. CursorInv
  <2>1. 0 \in 0..Size
    BY HashIs
  <2> QED
    BY <1>4, <2>1 DEF CursorInv, Points, Cursors
<1>8. RouteInv
  BY DEF Init, RouteInv
<1> QED
  BY <1>5, <1>6, <1>7, <1>8 DEF ServerInv

-----------------------------------------------------------------------------
(* Instructions on their way.                                              *)
LEMMA FreshIs ==
    ASSUME NEW p \in Procs, NEW id \in 0..MaxSends, NEW kind \in {"work", "exit"},
           NEW dest \in Procs \ {p}
    PROVE  Instr(id, kind, p, dest) \in Leaving(p)
<1> DEFINE instr == Instr(id, kind, p, dest)
<1>1. <<p>> \in Seq(Procs) /\ DOMAIN <<p>> = 1..1 /\ Len(<<p>>) = 1
      /\ \A i \in 1..1 : i = 1 /\ <<p>>[i] = p
  OBVIOUS
<1>2. instr \in Instrs /\ instr.via = <<p>> /\ instr.dest = dest
  BY <1>1 DEF Instr, Instrs
<1> HIDE DEF instr
<1>3. IsInjective(<<p>>)
  BY <1>1 DEF IsInjective
<1>4. Depth[p] <= Depth[p]
  BY DepthIs
<1>5. Climbing(p, instr)
  BY <1>1, <1>2, <1>3, <1>4 DEF Climbing
<1>6. instr \in Leaving(p)
  BY <1>2, <1>5 DEF Leaving
<1> QED
  BY <1>6 DEF instr

LEMMA MovedIs ==
    ASSUME NEW p \in Procs, NEW q \in Procs, NEW old \in Passing(q, p)
    PROVE  [old EXCEPT !.via = Append(@, p)] \in Arriving(p)
<1> DEFINE instr == [old EXCEPT !.via = Append(@, p)]
           via == old.via
           N == Len(via)
<1>1. old \in Instrs /\ Climbing(q, old) /\ p \in {old.dest, Parent[q]}
  BY DEF Passing, Leaving
<1>2. via \in Seq(Procs) /\ N \in Nat /\ DOMAIN via = 1..N /\ \A i \in 1..N : via[i] \in Procs
  BY <1>1 DEF Instrs
<1>3. /\ Append(via, p) \in Seq(Procs) /\ Len(Append(via, p)) = N + 1
      /\ DOMAIN Append(via, p) = 1..(N + 1)
      /\ Append(via, p)[N + 1] = p /\ \A i \in 1..N : Append(via, p)[i] = via[i]
  BY <1>2
<1>4. instr \in Instrs /\ instr.via = Append(via, p) /\ instr.dest = old.dest
  BY <1>1, <1>3 DEF Instrs
<1> HIDE DEF instr
<1>5. /\ IsInjective(via)
      /\ \A i \in 1..N : via[i] # old.dest /\ Depth[q] <= Depth[via[i]]
  BY <1>1 DEF Climbing
<1>6. \A i \in 1..(N + 1) : i \in 1..N \/ i = N + 1
  BY <1>2
<1>7. \A i \in 1..N : via[i] # p
  <2>1. CASE p = old.dest
    BY <1>5, <2>1
  <2>2. CASE p = Parent[q]
    <3>1. p # NoKey
      BY HashIs DEF Procs
    <3>2. Depth[p] < Depth[q] /\ Depth[p] \in Nat /\ Depth[q] \in Nat
      BY <2>2, <3>1, DepthIs
    <3> SUFFICES ASSUME NEW i \in 1..N, via[i] = p PROVE FALSE
      OBVIOUS
    <3>3. Depth[q] <= Depth[p]
      BY <1>5
    <3> QED
      BY <3>2, <3>3
  <2> QED
    BY <1>1, <2>1, <2>2
<1> HIDE DEF N, via
<1>8. IsInjective(instr.via)
  <2> SUFFICES ASSUME NEW i \in 1..(N + 1), NEW j \in 1..(N + 1),
                      Append(via, p)[i] = Append(via, p)[j]
               PROVE  i = j
    BY <1>3, <1>4 DEF IsInjective
  <2>1. CASE i \in 1..N /\ j \in 1..N
    BY <1>2, <1>3, <1>5, <2>1 DEF IsInjective
  <2>2. CASE i = N + 1 \/ j = N + 1
    BY <1>3, <1>6, <1>7, <2>2
  <2> QED
    BY <1>6, <2>1, <2>2
<1>9. ASSUME instr.dest # p PROVE Climbing(p, instr)
  <2>1. p = Parent[q] /\ p # NoKey
    BY <1>1, <1>4, <1>9, HashIs DEF Procs
  <2>2. Depth[p] < Depth[q] /\ Depth[p] \in Nat /\ Depth[q] \in Nat
    BY <2>1, DepthIs
  <2>3. ASSUME NEW i \in 1..(N + 1)
        PROVE  Append(via, p)[i] # instr.dest /\ Depth[p] <= Depth[Append(via, p)[i]]
    <3>1. CASE i = N + 1
      BY <1>3, <1>9, <2>2, <3>1
    <3>2. CASE i \in 1..N
      <4>1. Append(via, p)[i] = via[i] /\ via[i] # instr.dest /\ Depth[q] <= Depth[via[i]]
        BY <1>3, <1>4, <1>5, <3>2
      <4>2. Depth[via[i]] \in Nat
        BY <1>2, <3>2, DepthIs
      <4> QED
        BY <2>2, <4>1, <4>2
    <3> QED
      BY <1>6, <3>1, <3>2
  <2> QED
    BY <1>3, <1>4, <1>8, <2>3 DEF Climbing
<1>10. instr \in Arriving(p)
  BY <1>4, <1>8, <1>9 DEF Arriving
<1> QED
  BY <1>10 DEF instr

LEMMA HandedIs ==
    ASSUME NEW p \in Procs, NEW instr \in Arriving(p)
    PROVE  instr \in Instrs /\ (instr.dest # p => instr \in Leaving(p))
BY DEF Arriving, Leaving

(* Where an instruction goes: to its destination or up, by an entry.       *)
LEMMA HopIs ==
    ASSUME NEW p \in Procs, NEW instr \in Leaving(p), NextHop(p, instr) # NoKey
    PROVE  /\ NextHop(p, instr) \in Procs /\ instr \in Instrs
           /\ instr \in Passing(p, NextHop(p, instr))
           /\ Has(table[p], NextHop(p, instr))
<1>1. instr \in Instrs /\ instr.dest \in Procs
  BY DEF Leaving, Instrs
<1>2. NextHop(p, instr) \in {instr.dest, Parent[p]} /\ Has(table[p], NextHop(p, instr))
  BY DEF NextHop
<1>3. NextHop(p, instr) \in Procs
  BY <1>1, <1>2, DepthIs
<1> QED
  BY <1>1, <1>2, <1>3 DEF Passing

-----------------------------------------------------------------------------
(* What is left alone keeps its part of the invariant.                     *)
LEMMA Kept ==
    /\ TableInv /\ UNCHANGED table => TableInv'
    /\ CursorInv /\ UNCHANGED <<table, cursor>>
         /\ (\A p \in Procs : mode'[p] = "running" => mode[p] = "running") => CursorInv'
    /\ RouteInv /\ UNCHANGED <<incoming, outgoing, channel>> => RouteInv'
<1>1. ASSUME TableInv, UNCHANGED table PROVE TableInv'
  BY <1>1 DEF TableInv
<1>2. ASSUME CursorInv, UNCHANGED <<table, cursor>>,
             \A p \in Procs : mode'[p] = "running" => mode[p] = "running"
      PROVE  CursorInv'
  BY <1>2 DEF CursorInv
<1>3. ASSUME RouteInv, UNCHANGED <<incoming, outgoing, channel>> PROVE RouteInv'
  BY <1>3 DEF RouteInv
<1> QED
  BY <1>1, <1>2, <1>3

(* One more instruction in the outgoing queue.                             *)
LEMMA QueuedIs ==
    ASSUME ServerInv, NEW p \in Procs, NEW instr \in Leaving(p),
           outgoing' = [outgoing EXCEPT ![p] = Append(@, instr)]
    PROVE  outgoing' \in [Procs -> Seq(Instrs)] /\ \A q \in Procs : outgoing'[q] \in Seq(Leaving(q))
<1>1. instr \in Instrs
  BY DEF Leaving
<1>2. outgoing \in [Procs -> Seq(Instrs)] /\ \A q \in Procs : outgoing[q] \in Seq(Leaving(q))
  BY DEF ServerInv, TreeTypeOK, RouteInv
<1>3. Append(outgoing[p], instr) \in Seq(Instrs) /\ Append(outgoing[p], instr) \in Seq(Leaving(p))
  <2>1. Append(outgoing[p], instr) \in Seq(Instrs)
    BY <1>1, <1>2
  <2>2. outgoing[p] \in Seq(Leaving(p))
    BY <1>2
  <2> QED
    BY <2>1, <2>2, AppendProperties
<1>4. outgoing' \in [Procs -> Seq(Instrs)]
  BY <1>2, <1>3
<1>5. ASSUME NEW q \in Procs PROVE outgoing'[q] \in Seq(Leaving(q))
  <2>1. CASE q = p
    BY <1>2, <1>3, <2>1
  <2>2. CASE q # p
    BY <1>2, <2>2
  <2> QED
    BY <2>1, <2>2
<1> QED
  BY <1>4, <1>5

LEMMA AddKeeps ==
    ASSUME ServerInv, NEW p \in Procs, Add(p) PROVE ServerInv'
<1>1. PICK kind \in {"work", "exit"}, dest \in Procs \ {p} :
         outgoing' = [outgoing EXCEPT ![p] = Append(@, Instr(sends + 1, kind, p, dest))]
  BY DEF Add
<1>2. sends' \in 0..MaxSends /\ sends + 1 \in 0..MaxSends
  BY DepthIs DEF Add, ServerInv, TreeTypeOK
<1>3. Instr(sends + 1, kind, p, dest) \in Leaving(p)
  BY <1>2, FreshIs
<1>4. /\ outgoing' \in [Procs -> Seq(Instrs)]
      /\ \A q \in Procs : outgoing'[q] \in Seq(Leaving(q))
  BY <1>1, <1>3, QueuedIs
<1>5. UNCHANGED <<mode, table, live, cursor, incoming, channel, listening, handled>>
  BY DEF Add
<1>6. TreeTypeOK'
  BY <1>2, <1>4, <1>5 DEF ServerInv, TreeTypeOK
<1>7. TableInv' /\ CursorInv'
  BY <1>5, Kept DEF ServerInv
<1>8. RouteInv'
  BY <1>4, <1>5 DEF ServerInv, RouteInv
<1> QED
  BY <1>6, <1>7, <1>8 DEF ServerInv

LEMMA SendKeeps ==
    ASSUME ServerInv, NEW p \in Procs, Send(p) PROVE ServerInv'
<1> DEFINE instr == Head(outgoing[p])
           hop == NextHop(p, instr)
<1>1. /\ outgoing[p] # <<>> /\ outgoing \in [Procs -> Seq(Instrs)]
      /\ channel \in [Procs -> [Procs -> Seq(Instrs)]]
      /\ \A q \in Procs : outgoing[q] \in Seq(Leaving(q))
      /\ \A q, r \in Procs : channel[q][r] \in Seq(Passing(q, r))
  BY DEF Send, ServerInv, TreeTypeOK, RouteInv
<1>2. /\ UNCHANGED <<mode, table, live, cursor, incoming, listening, sends, handled>>
      /\ outgoing' = [outgoing EXCEPT ![p] = Tail(@)]
      /\ channel' = IF hop # NoKey /\ live[p][hop] /\ Up(hop)
                    THEN [channel EXCEPT ![p][hop] = Append(@, instr)] ELSE channel
  BY DEF Send
<1>3. instr \in Leaving(p)
  BY <1>1, HeadTailProperties
<1> HIDE DEF instr, hop
<1>4. /\ outgoing' \in [Procs -> Seq(Instrs)]
      /\ \A q \in Procs : outgoing'[q] \in Seq(Leaving(q))
  <2>1. Tail(outgoing[p]) \in Seq(Instrs) /\ Tail(outgoing[p]) \in Seq(Leaving(p))
    <3>1. outgoing[p] \in Seq(Instrs) /\ outgoing[p] \in Seq(Leaving(p)) /\ outgoing[p] # <<>>
      BY <1>1
    <3> QED
      BY <3>1, HeadTailProperties
  <2>2. outgoing' \in [Procs -> Seq(Instrs)]
    BY <1>1, <1>2, <2>1
  <2>3. ASSUME NEW q \in Procs PROVE outgoing'[q] \in Seq(Leaving(q))
    <3>1. CASE q = p
      BY <1>1, <1>2, <2>1, <3>1
    <3>2. CASE q # p
      BY <1>1, <1>2, <3>2
    <3> QED
      BY <3>1, <3>2
  <2> QED
    BY <2>2, <2>3
<1>5. /\ channel' \in [Procs -> [Procs -> Seq(Instrs)]]
      /\ \A q, r \in Procs : channel'[q][r] \in Seq(Passing(q, r))
  <2>1. CASE hop # NoKey /\ live[p][hop] /\ Up(hop)
    <3>1. channel' = [channel EXCEPT ![p][hop] = Append(@, instr)]
      BY <1>2, <2>1
    <3>2. hop \in Procs /\ instr \in Instrs /\ instr \in Passing(p, hop)
      BY <1>3, <2>1, HopIs DEF hop
    <3>3. Append(channel[p][hop], instr) \in Seq(Instrs)
          /\ Append(channel[p][hop], instr) \in Seq(Passing(p, hop))
      <4>1. channel[p][hop] \in Seq(Instrs) /\ channel[p][hop] \in Seq(Passing(p, hop))
        BY <1>1, <3>2
      <4> QED
        BY <3>2, <4>1, AppendProperties
    <3>4. channel' \in [Procs -> [Procs -> Seq(Instrs)]]
      BY <1>1, <3>1, <3>2, <3>3
    <3>5. ASSUME NEW q \in Procs, NEW r \in Procs PROVE channel'[q][r] \in Seq(Passing(q, r))
      <4>1. CASE q = p /\ r = hop
        BY <1>1, <3>1, <3>2, <3>3, <4>1
      <4>2. CASE ~(q = p /\ r = hop)
        <5>1. channel'[q][r] = channel[q][r]
          BY <1>1, <3>1, <3>2, <4>2
        <5> QED
          BY <1>1, <5>1
      <4> QED
        BY <4>1, <4>2
    <3> QED
      BY <3>4, <3>5
  <2>2. CASE ~(hop # NoKey /\ live[p][hop] /\ Up(hop))
    BY <1>1, <1>2, <2>2
  <2> QED
    BY <2>1, <2>2
<1>6. TreeTypeOK'
  BY <1>2, <1>4, <1>5 DEF ServerInv, TreeTypeOK
<1>7. TableInv' /\ CursorInv'
  BY <1>2, Kept DEF ServerInv
<1>8. RouteInv'
  BY <1>2, <1>4, <1>5 DEF ServerInv, RouteInv
<1> QED
  BY <1>6, <1>7, <1>8 DEF ServerInv

LEMMA RecieveKeeps ==
    ASSUME ServerInv, NEW p \in Procs, NEW q \in Procs, Recieve(p, q) PROVE ServerInv'
<1> DEFINE old == Head(channel[q][p])
           instr == [old EXCEPT !.via = Append(@, p)]
<1>1. /\ channel[q][p] # <<>> /\ incoming \in [Procs -> Seq(Instrs)]
      /\ channel \in [Procs -> [Procs -> Seq(Instrs)]]
      /\ listening \in [Procs -> [Procs -> BOOLEAN]]
      /\ \A r \in Procs : incoming[r] \in Seq(Arriving(r))
      /\ \A r, s \in Procs : channel[r][s] \in Seq(Passing(r, s))
  BY DEF Recieve, ServerInv, TreeTypeOK, RouteInv
<1>2. /\ UNCHANGED <<mode, table, live, cursor, outgoing, sends, handled>>
      /\ incoming' = [incoming EXCEPT ![p] = Append(@, instr)]
      /\ channel' = [channel EXCEPT ![q][p] = Tail(@)]
  BY DEF Recieve
<1>3. listening' = [listening EXCEPT ![p][q] = ~(instr.kind = "exit" /\ instr.dest = p)]
  BY DEF Recieve
<1>4. listening' \in [Procs -> [Procs -> BOOLEAN]]
  BY <1>1, <1>3
<1>5. /\ channel[q][p] \in Seq(Instrs) /\ channel[q][p] \in Seq(Passing(q, p))
  BY <1>1
<1>6. old \in Passing(q, p)
  BY <1>1, <1>5, HeadTailProperties
<1> HIDE DEF old
<1>7. instr \in Arriving(p)
  BY <1>6, MovedIs
<1> HIDE DEF instr
<1>8. instr \in Instrs
  BY <1>7, HandedIs
<1>9. /\ incoming' \in [Procs -> Seq(Instrs)]
      /\ \A r \in Procs : incoming'[r] \in Seq(Arriving(r))
  <2>1. Append(incoming[p], instr) \in Seq(Instrs)
        /\ Append(incoming[p], instr) \in Seq(Arriving(p))
    <3>1. incoming[p] \in Seq(Instrs) /\ incoming[p] \in Seq(Arriving(p))
      BY <1>1
    <3> QED
      BY <1>7, <1>8, <3>1, AppendProperties
  <2>2. incoming' \in [Procs -> Seq(Instrs)]
    BY <1>1, <1>2, <2>1
  <2>3. ASSUME NEW r \in Procs PROVE incoming'[r] \in Seq(Arriving(r))
    <3>1. CASE r = p
      BY <1>1, <1>2, <2>1, <3>1
    <3>2. CASE r # p
      BY <1>1, <1>2, <3>2
    <3> QED
      BY <3>1, <3>2
  <2> QED
    BY <2>2, <2>3
<1>10. /\ channel' \in [Procs -> [Procs -> Seq(Instrs)]]
       /\ \A r, s \in Procs : channel'[r][s] \in Seq(Passing(r, s))
  <2>1. Tail(channel[q][p]) \in Seq(Instrs) /\ Tail(channel[q][p]) \in Seq(Passing(q, p))
    BY <1>1, <1>5, HeadTailProperties
  <2>2. channel' \in [Procs -> [Procs -> Seq(Instrs)]]
    BY <1>1, <1>2, <2>1
  <2>3. ASSUME NEW r \in Procs, NEW s \in Procs PROVE channel'[r][s] \in Seq(Passing(r, s))
    <3>1. CASE r = q /\ s = p
      BY <1>1, <1>2, <2>1, <3>1
    <3>2. CASE ~(r = q /\ s = p)
      <4>1. channel'[r][s] = channel[r][s]
        BY <1>1, <1>2, <3>2
      <4> QED
        BY <1>1, <4>1
    <3> QED
      BY <3>1, <3>2
  <2> QED
    BY <2>2, <2>3
<1>11. TreeTypeOK'
  BY <1>2, <1>4, <1>9, <1>10 DEF ServerInv, TreeTypeOK
<1>12. TableInv' /\ CursorInv'
  BY <1>2, Kept DEF ServerInv
<1>13. RouteInv'
  BY <1>2, <1>9, <1>10 DEF ServerInv, RouteInv
<1> QED
  BY <1>11, <1>12, <1>13 DEF ServerInv

LEMMA HandleKeeps ==
    ASSUME ServerInv, NEW p \in Procs, Handle(p) PROVE ServerInv'
<1> DEFINE instr == Head(incoming[p])
<1>1. /\ incoming[p] # <<>> /\ incoming \in [Procs -> Seq(Instrs)]
      /\ outgoing \in [Procs -> Seq(Instrs)] /\ handled \in [Procs -> Seq(Instrs)]
      /\ \A r \in Procs : outgoing[r] \in Seq(Leaving(r)) /\ incoming[r] \in Seq(Arriving(r))
  BY DEF Handle, ServerInv, TreeTypeOK, RouteInv
<1>2. /\ UNCHANGED <<table, live, cursor, channel, listening, sends>>
      /\ incoming' = [incoming EXCEPT ![p] = Tail(@)]
  BY DEF Handle
<1>3. incoming[p] \in Seq(Instrs) /\ incoming[p] \in Seq(Arriving(p))
  BY <1>1
<1>4. instr \in Arriving(p) /\ instr \in Instrs
  <2>1. instr \in Arriving(p)
    BY <1>1, <1>3, HeadTailProperties
  <2> HIDE DEF instr
  <2> QED
    BY <2>1, HandedIs
<1>5. /\ incoming' \in [Procs -> Seq(Instrs)]
      /\ \A r \in Procs : incoming'[r] \in Seq(Arriving(r))
  <2>1. Tail(incoming[p]) \in Seq(Instrs) /\ Tail(incoming[p]) \in Seq(Arriving(p))
    BY <1>1, <1>3, HeadTailProperties
  <2>2. incoming' \in [Procs -> Seq(Instrs)]
    BY <1>1, <1>2, <2>1
  <2>3. ASSUME NEW r \in Procs PROVE incoming'[r] \in Seq(Arriving(r))
    <3>1. CASE r = p
      BY <1>1, <1>2, <2>1, <3>1
    <3>2. CASE r # p
      BY <1>1, <1>2, <3>2
    <3> QED
      BY <3>1, <3>2
  <2> QED
    BY <2>2, <2>3
<1>6. /\ outgoing' \in [Procs -> Seq(Instrs)] /\ handled' \in [Procs -> Seq(Instrs)]
      /\ \A r \in Procs : outgoing'[r] \in Seq(Leaving(r))
  <2>1. CASE instr.dest # p
    <3>1. outgoing' = [outgoing EXCEPT ![p] = Append(@, instr)] /\ handled' = handled
      BY <2>1 DEF Handle
    <3> HIDE DEF instr
    <3>2. instr \in Leaving(p)
      BY <1>4, <2>1, HandedIs
    <3> QED
      BY <1>1, <3>1, <3>2, QueuedIs
  <2>2. CASE instr.dest = p
    <3>1. handled' = [handled EXCEPT ![p] = Append(@, instr)] /\ outgoing' = outgoing
      BY <2>2 DEF Handle
    <3> HIDE DEF instr
    <3> QED
      BY <1>1, <1>4, <3>1
  <2> QED
    BY <2>1, <2>2
<1>7. /\ mode' \in [Procs -> {"running", "draining", "freeing", "sending", "gone", "crashed"}]
      /\ \A r \in Procs : mode'[r] = "running" => mode[r] = "running"
  <2>1. mode \in [Procs -> {"running", "draining", "freeing", "sending", "gone", "crashed"}]
    BY DEF ServerInv, TreeTypeOK
  <2>2. \/ mode' = [mode EXCEPT ![p] = "freeing"]
        \/ mode' = [mode EXCEPT ![p] = "draining"]
        \/ mode' = mode
    BY DEF Handle
  <2> QED
    BY <2>1, <2>2
<1>8. TreeTypeOK'
  BY <1>2, <1>5, <1>6, <1>7 DEF ServerInv, TreeTypeOK
<1>9. TableInv' /\ CursorInv'
  BY <1>2, <1>7, Kept DEF ServerInv
<1>10. RouteInv'
  BY <1>2, <1>5, <1>6 DEF ServerInv, RouteInv
<1> QED
  BY <1>8, <1>9, <1>10 DEF ServerInv

(* A process that ends takes instructions with it and adds none.           *)
LEMMA EndsIs ==
    ASSUME ServerInv, NEW p \in Procs, NEW how \in {"gone", "crashed"}, Ends(p, how)
    PROVE  /\ RouteInv' /\ UNCHANGED <<cursor, listening, sends, handled>>
           /\ mode' \in [Procs -> {"running", "draining", "freeing", "sending", "gone", "crashed"}]
           /\ \A r \in Procs : mode'[r] = "running" => mode[r] = "running"
           /\ incoming' \in [Procs -> Seq(Instrs)] /\ outgoing' \in [Procs -> Seq(Instrs)]
           /\ channel' \in [Procs -> [Procs -> Seq(Instrs)]]
<1>1. /\ mode \in [Procs -> {"running", "draining", "freeing", "sending", "gone", "crashed"}]
      /\ incoming \in [Procs -> Seq(Instrs)] /\ outgoing \in [Procs -> Seq(Instrs)]
      /\ channel \in [Procs -> [Procs -> Seq(Instrs)]] /\ RouteInv
  BY DEF ServerInv, TreeTypeOK
<1>2. /\ mode' = [mode EXCEPT ![p] = how]
      /\ incoming' = [incoming EXCEPT ![p] = <<>>]
      /\ outgoing' = [outgoing EXCEPT ![p] = <<>>]
      /\ channel' = [q \in Procs |-> [channel[q] EXCEPT ![p] = <<>>]]
      /\ UNCHANGED <<cursor, listening, sends, handled>>
  BY DEF Ends
<1>3. /\ mode' \in [Procs -> {"running", "draining", "freeing", "sending", "gone", "crashed"}]
      /\ \A r \in Procs : mode'[r] = "running" => mode[r] = "running"
  BY <1>1, <1>2
<1>4. incoming' \in [Procs -> Seq(Instrs)] /\ outgoing' \in [Procs -> Seq(Instrs)]
  BY <1>1, <1>2
<1>5. channel' \in [Procs -> [Procs -> Seq(Instrs)]]
  BY <1>1, <1>2
<1>6. ASSUME NEW r \in Procs
      PROVE  outgoing'[r] \in Seq(Leaving(r)) /\ incoming'[r] \in Seq(Arriving(r))
  <2>1. CASE r = p
    BY <1>1, <1>2, <2>1
  <2>2. CASE r # p
    BY <1>1, <1>2, <2>2 DEF RouteInv
  <2> QED
    BY <2>1, <2>2
<1>7. ASSUME NEW r \in Procs, NEW s \in Procs PROVE channel'[r][s] \in Seq(Passing(r, s))
  <2>1. CASE s = p
    BY <1>1, <1>2, <2>1
  <2>2. CASE s # p
    BY <1>1, <1>2, <2>2 DEF RouteInv
  <2> QED
    BY <2>1, <2>2
<1>8. RouteInv'
  BY <1>6, <1>7 DEF RouteInv
<1> QED
  BY <1>2, <1>3, <1>4, <1>5, <1>8

LEMMA LeftKeeps ==
    ASSUME ServerInv, NEW p \in Procs, NEW how \in {"gone", "crashed"}, Ends(p, how),
           UNCHANGED <<table, live>>
    PROVE  ServerInv'
<1>1. TreeTypeOK'
  BY EndsIs DEF ServerInv, TreeTypeOK
<1>2. TableInv' /\ CursorInv'
  BY EndsIs, Kept DEF ServerInv
<1>3. RouteInv'
  BY EndsIs
<1> QED
  BY <1>1, <1>2, <1>3 DEF ServerInv

LEMMA QuitKeeps ==
    ASSUME ServerInv, NEW p \in Procs, Quit(p) PROVE ServerInv'
<1>1. /\ mode' = [mode EXCEPT ![p] = "freeing"]
      /\ UNCHANGED <<table, live, cursor, incoming, outgoing, channel, listening, sends, handled>>
  BY DEF Quit
<1>2. mode \in [Procs -> {"running", "draining", "freeing", "sending", "gone", "crashed"}]
  BY DEF ServerInv, TreeTypeOK
<1>3. /\ mode' \in [Procs -> {"running", "draining", "freeing", "sending", "gone", "crashed"}]
      /\ \A r \in Procs : mode'[r] = "running" => mode[r] = "running"
  BY <1>1, <1>2
<1>4. TreeTypeOK'
  BY <1>1, <1>3 DEF ServerInv, TreeTypeOK
<1>5. TableInv' /\ CursorInv' /\ RouteInv'
  BY <1>1, <1>3, Kept DEF ServerInv
<1> QED
  BY <1>4, <1>5 DEF ServerInv

LEMMA ParentGoneKeeps ==
    ASSUME ServerInv, NEW p \in Procs, ParentGone(p) PROVE ServerInv'
<1> DEFINE q == Parent[p]
<1>1. /\ mode[p] = "running" /\ q \in Procs
      /\ live' = [live EXCEPT ![p][q] = FALSE]
  BY DepthIs DEF ParentGone
<1>2. /\ mode \in [Procs -> {"running", "draining", "freeing", "sending", "gone", "crashed"}]
      /\ table \in [Procs -> Tables] /\ live \in [Procs -> [Procs -> BOOLEAN]]
      /\ \A r, s \in Procs : live[r][s] => Has(table[r], s)
  BY DEF ServerInv, TreeTypeOK, Tables, Procs
<1>3. /\ live' \in [Procs -> [Procs -> BOOLEAN]]
      /\ \A r, s \in Procs : live'[r][s] => live[r][s] /\ ~(r = p /\ s = q)
  BY <1>1, <1>2
<1>4. CASE RemoveFollowsNull(table[p], q)
  <2>1. Ends(p, "crashed") /\ UNCHANGED table
    BY <1>4 DEF ParentGone
  <2>2. TreeTypeOK'
    BY <1>2, <1>3, <2>1, EndsIs DEF ServerInv, TreeTypeOK
  <2>3. TableInv' /\ CursorInv'
    BY <2>1, EndsIs, Kept DEF ServerInv
  <2>4. RouteInv'
    BY <2>1, EndsIs
  <2> QED
    BY <2>2, <2>3, <2>4 DEF ServerInv
<1>5. CASE ~RemoveFollowsNull(table[p], q)
  <2>1. /\ mode' = [mode EXCEPT ![p] = "freeing"]
        /\ table' = [table EXCEPT ![p] = RemoveEntry(@, q)]
        /\ UNCHANGED <<cursor, incoming, outgoing, channel, listening, sends, handled>>
    BY <1>5 DEF ParentGone
  <2> HIDE DEF q
  <2>2. /\ mode' \in [Procs -> {"running", "draining", "freeing", "sending", "gone", "crashed"}]
        /\ \A r \in Procs : mode'[r] = "running" => mode[r] = "running"
    BY <1>2, <2>1
  <2> DEFINE t == RemoveEntry(table[p], q)
  <2>3. Hashed(table[p]) /\ table[p] \in Tables
    BY <1>2 DEF ServerInv, TableInv
  <2>4. /\ t \in Tables /\ Hashed(t)
        /\ \A r \in Procs : Has(t, r) => Has(table[p], r)
        /\ \A r \in Procs : r # q /\ Has(table[p], r) => Has(t, r)
    BY <1>1, <2>3, RemoveIs DEF Procs
  <2> HIDE DEF t
  <2>5. table' \in [Procs -> Tables] /\ table'[p] = t /\ \A r \in Procs : r # p => table'[r] = table[r]
    BY <1>2, <2>1, <2>4 DEF t
  <2>6. ASSUME NEW r \in Procs, NEW s \in Procs, live'[r][s] PROVE Has(table'[r], s)
    <3>1. live[r][s] /\ ~(r = p /\ s = q) /\ Has(table[r], s)
      BY <1>2, <1>3, <2>6
    <3>2. CASE r = p
      BY <2>4, <2>5, <3>1, <3>2
    <3>3. CASE r # p
      BY <2>5, <3>1, <3>3
    <3> QED
      BY <3>2, <3>3
  <2>7. TreeTypeOK'
    <3>1. (table \in [Procs -> [Buckets -> Seq(Procs)]])'
      BY <2>5 DEF Tables, Procs
    <3> QED
      BY <1>3, <2>1, <2>2, <2>6, <3>1 DEF ServerInv, TreeTypeOK
  <2>8. TableInv'
    <3> SUFFICES ASSUME NEW r \in Procs
                 PROVE  /\ Hashed(table'[r])
                        /\ \A s \in Procs : Has(table'[r], s) => s \in Neighbours(r)
                        /\ \A s \in Children(r) : Has(table'[r], s)
      BY DEF TableInv
    <3>1. /\ Hashed(table[r])
          /\ \A s \in Procs : Has(table[r], s) => s \in Neighbours(r)
          /\ \A s \in Children(r) : Has(table[r], s)
      BY DEF ServerInv, TableInv
    <3>2. CASE r # p
      BY <2>5, <3>1, <3>2
    <3>3. CASE r = p
      <4>1. \A s \in Children(p) : s \in Procs /\ s # q
        BY NeighboursAre DEF q
      <4> QED
        BY <2>4, <2>5, <3>1, <3>3, <4>1
    <3> QED
      BY <3>2, <3>3
  <2>9. CursorInv'
    <3> SUFFICES ASSUME NEW r \in Procs
                 PROVE  /\ Points(table'[r], cursor'[r])
                        /\ mode'[r] = "running" => cursor'[r].entry = NoKey /\ cursor'[r].i = 0
      BY DEF CursorInv
    <3>1. /\ Points(table[r], cursor[r])
          /\ mode[r] = "running" => cursor[r].entry = NoKey /\ cursor[r].i = 0
      BY DEF ServerInv, CursorInv
    <3>2. CASE r # p
      BY <2>1, <2>2, <2>5, <3>1, <3>2
    <3>3. CASE r = p
      BY <1>1, <2>1, <2>2, <3>1, <3>3 DEF Points
    <3> QED
      BY <3>2, <3>3
  <2>10. RouteInv'
    BY <2>1, Kept DEF ServerInv
  <2> QED
    BY <2>7, <2>8, <2>9, <2>10 DEF ServerInv
<1> QED
  BY <1>4, <1>5

LEMMA TellChildrenKeeps ==
    ASSUME ServerInv, NEW p \in Procs, TellChildren(p) PROVE ServerInv'
<1> DEFINE here == IF cursor[p].i = 0 THEN FirstEntry(table[p]) ELSE cursor[p]
           next == NextEntry(table[p], here)
<1>1. /\ mode[p] = "freeing"
      /\ UNCHANGED <<table, live, incoming, channel, listening, sends, handled>>
  BY DEF TellChildren
<1>2. /\ mode \in [Procs -> {"running", "draining", "freeing", "sending", "gone", "crashed"}]
      /\ cursor \in [Procs -> [entry : Procs \cup {NoKey}, i : 0..Size]]
      /\ outgoing \in [Procs -> Seq(Instrs)] /\ table[p] \in Tables /\ Hashed(table[p])
      /\ Points(table[p], cursor[p])
      /\ \A r \in Procs : outgoing[r] \in Seq(Leaving(r))
  BY DEF ServerInv, TreeTypeOK, RouteInv, TableInv, CursorInv, Tables, Procs
<1>3. Points(table[p], here)
  <2>1. Points(table[p], FirstEntry(table[p]))
    BY <1>2, ScanIs DEF FirstEntry
  <2> QED
    BY <1>2, <2>1
<1>4. CASE InLoop(here)
  <2>1. /\ outgoing' = IF here.entry \in Children(p)
                       THEN [outgoing EXCEPT ![p] = Append(@, Instr(0, "exit", p, here.entry))]
                       ELSE outgoing
        /\ cursor' = [cursor EXCEPT ![p] = next]
        /\ UNCHANGED mode
    BY <1>4 DEF TellChildren
  <2> HIDE DEF here
  <2>2. here.entry # NoKey
    BY <1>4 DEF InLoop
  <2>3. Points(table[p], next)
    BY <1>2, <1>3, <2>2, NextIs
  <2> HIDE DEF next
  <2>4. cursor' \in [Procs -> [entry : Procs \cup {NoKey}, i : 0..Size]]
    BY <1>2, <2>1, <2>3 DEF Points, Cursors, Procs
  <2>5. CursorInv'
    <3> SUFFICES ASSUME NEW r \in Procs
                 PROVE  /\ Points(table'[r], cursor'[r])
                        /\ mode'[r] = "running" => cursor'[r].entry = NoKey /\ cursor'[r].i = 0
      BY DEF CursorInv
    <3>1. CASE r = p
      BY <1>1, <1>2, <2>1, <2>3, <3>1
    <3>2. CASE r # p
      BY <1>1, <1>2, <2>1, <3>2 DEF ServerInv, CursorInv
    <3> QED
      BY <3>1, <3>2
  <2>6. /\ outgoing' \in [Procs -> Seq(Instrs)]
        /\ \A r \in Procs : outgoing'[r] \in Seq(Leaving(r))
    <3>1. CASE here.entry \in Children(p)
      <4>1. here.entry \in Procs \ {p}
        BY <3>1, NeighboursAre
      <4>2. 0 \in 0..MaxSends /\ "exit" \in {"work", "exit"}
        BY DepthIs
      <4>3. Instr(0, "exit", p, here.entry) \in Leaving(p)
        BY <4>1, <4>2, FreshIs
      <4> QED
        BY <2>1, <3>1, <4>3, QueuedIs
    <3>2. CASE here.entry \notin Children(p)
      BY <1>2, <2>1, <3>2
    <3> QED
      BY <3>1, <3>2
  <2>7. TreeTypeOK'
    BY <1>1, <2>1, <2>4, <2>6 DEF ServerInv, TreeTypeOK
  <2>8. TableInv'
    BY <1>1, Kept DEF ServerInv
  <2>9. RouteInv'
    BY <1>1, <2>6 DEF ServerInv, RouteInv
  <2> QED
    BY <2>5, <2>7, <2>8, <2>9 DEF ServerInv
<1>5. CASE ~InLoop(here)
  <2>1. mode' = [mode EXCEPT ![p] = "sending"] /\ UNCHANGED <<outgoing, cursor>>
    BY <1>5 DEF TellChildren
  <2>2. /\ mode' \in [Procs -> {"running", "draining", "freeing", "sending", "gone", "crashed"}]
        /\ \A r \in Procs : mode'[r] = "running" => mode[r] = "running"
    BY <1>2, <2>1
  <2>3. TreeTypeOK'
    BY <1>1, <2>1, <2>2 DEF ServerInv, TreeTypeOK
  <2>4. TableInv' /\ CursorInv' /\ RouteInv'
    BY <1>1, <2>1, <2>2, Kept DEF ServerInv
  <2> QED
    BY <2>3, <2>4 DEF ServerInv
<1> QED
  BY <1>4, <1>5

-----------------------------------------------------------------------------
LEMMA TreeNext == ServerInv /\ [Next]_vars => ServerInv'
<1> SUFFICES ASSUME ServerInv, [Next]_vars PROVE ServerInv'
  OBVIOUS
<1>1. ASSUME NEW p \in Procs, Add(p) PROVE ServerInv'
  BY <1>1, AddKeeps
<1>2. ASSUME NEW p \in Procs, Send(p) PROVE ServerInv'
  BY <1>2, SendKeeps
<1>3. ASSUME NEW p \in Procs, Handle(p) PROVE ServerInv'
  BY <1>3, HandleKeeps
<1>4. ASSUME NEW p \in Procs, TellChildren(p) PROVE ServerInv'
  BY <1>4, TellChildrenKeeps
<1>5. ASSUME NEW p \in Procs, Close(p) PROVE ServerInv'
  BY <1>5, LeftKeeps DEF Close
<1>6. ASSUME NEW p \in Procs, ParentGone(p) PROVE ServerInv'
  BY <1>6, ParentGoneKeeps
<1>7. ASSUME NEW p \in Procs, Quit(p) PROVE ServerInv'
  BY <1>7, QuitKeeps
<1>8. ASSUME NEW p \in Procs, Crash(p) PROVE ServerInv'
  BY <1>8, LeftKeeps DEF Crash
<1>9. ASSUME NEW p \in Procs, NEW q \in Procs, Recieve(p, q) PROVE ServerInv'
  BY <1>9, RecieveKeeps
<1>10. CASE UNCHANGED vars
  BY <1>10, Kept DEF vars, ServerInv, TreeTypeOK
<1> QED
  BY <1>1, <1>2, <1>3, <1>4, <1>5, <1>6, <1>7, <1>8, <1>9, <1>10 DEF Next, Loop, Faults

THEOREM ServerInvariant == Spec => []ServerInv
<1> QED
  BY TreeInit, TreeNext, PTL DEF Spec

(* Types, and no instruction comes back to a process it has been at,       *)
(* whatever the tree, the tables and the order of events                   *)
(* (wimp_server_send_instructions, wimp_server_instr_routed).              *)
THEOREM RoutedOnce == Spec => []TreeInv
<1>1. ServerInv => TreeInv
  <2> SUFFICES ASSUME ServerInv PROVE TreeInv
    OBVIOUS
  <2>1. ASSUME NEW p \in Procs, NEW instr \in InFlight(p) PROVE IsInjective(instr.via)
    <3>1. /\ incoming[p] \in Seq(Arriving(p)) /\ outgoing[p] \in Seq(Leaving(p))
          /\ \A q \in Procs : channel[p][q] \in Seq(Passing(p, q))
      BY DEF ServerInv, RouteInv
    <3>2. CASE instr \in ToSet(incoming[p])
      BY <3>1, <3>2 DEF ToSet, Arriving
    <3>3. CASE instr \in ToSet(outgoing[p])
      BY <3>1, <3>3 DEF ToSet, Leaving, Climbing
    <3>4. ASSUME NEW q \in Procs, instr \in ToSet(channel[p][q]) PROVE IsInjective(instr.via)
      <4>1. instr \in Passing(p, q)
        BY <3>1, <3>4 DEF ToSet
      <4>2. Climbing(p, instr)
        BY <4>1 DEF Passing, Leaving
      <4> QED
        BY <4>2 DEF Climbing
    <3> QED
      BY <2>1, <3>2, <3>3, <3>4 DEF InFlight
  <2> QED
    BY <2>1 DEF ServerInv, TreeInv, NoRoundTrips
<1> QED
  BY <1>1, ServerInvariant, PTL

-----------------------------------------------------------------------------
(* The order of instructions.  Lines is where they are: a sequence for     *)
(* each queue, connection and history.                                     *)
Places ==
    {a \in [kind : {"in", "out", "way", "done"}, at : Procs, to : Procs] :
        a.kind # "way" => a.to = a.at}
InAt(p) == [kind |-> "in", at |-> p, to |-> p]
OutAt(p) == [kind |-> "out", at |-> p, to |-> p]
WayTo(p, q) == [kind |-> "way", at |-> p, to |-> q]
DoneAt(p) == [kind |-> "done", at |-> p, to |-> p]

Lines ==
    [a \in Places |-> IF a.kind = "in" THEN incoming[a.at]
                      ELSE IF a.kind = "out" THEN outgoing[a.at]
                      ELSE IF a.kind = "way" THEN channel[a.at][a.to]
                      ELSE handled[a.at]]

(* The next process on the way to dest.                                    *)
Toward(p, dest) == IF dest \in Neighbours(p) THEN dest ELSE Parent[p]

(* The instruction has come all the way from its sender to this place.     *)
Fits(a, instr) ==
    /\ Len(instr.via) >= 1 /\ instr.via[1] = instr.src /\ instr.via[Len(instr.via)] = a.at
    /\ \A i \in 1..(Len(instr.via) - 1) : instr.via[i + 1] = Toward(instr.via[i], instr.dest)
    /\ IsInjective(instr.via)
    /\ a.kind = "in" => Len(instr.via) >= 2
    /\ a.kind = "way" => a.to = Toward(a.at, instr.dest)
    /\ a.kind \in {"out", "way"} => instr.dest # a.at
    /\ a.kind = "done" => instr.dest = a.at
Placed(L) == \A a \in Places : \A i \in 1..Len(L[a]) : Fits(a, L[a][i])

(* How far an instruction has come: those of one sender to one destination *)
(* that are further are older.                                             *)
Rank(a, instr) ==
    3 * Len(instr.via) + (IF a.kind = "in" THEN 0 ELSE IF a.kind = "way" THEN 2 ELSE 1)
Comparable(x, y) == x.src = y.src /\ x.dest = y.dest /\ x.id # 0 /\ y.id # 0
Ordered(L) ==
    \A a, b \in Places : \A i \in 1..Len(L[a]), j \in 1..Len(L[b]) :
        /\ Comparable(L[a][i], L[b][j])
        /\ Rank(a, L[a][i]) > Rank(b, L[b][j]) \/ (a = b /\ i < j)
        => L[a][i].id < L[b][j].id
Numbered(L, n) == \A a \in Places : \A i \in 1..Len(L[a]) : L[a][i].id <= n

Sorted(L, n) == Placed(L) /\ Ordered(L) /\ Numbered(L, n)

OrderInv == Sorted(Lines, sends)

LEMMA RankIs ==
    ASSUME NEW a \in Places, NEW x \in Instrs
    PROVE  /\ Len(x.via) \in Nat /\ Rank(a, x) \in Nat
           /\ a.kind = "in" => Rank(a, x) = 3 * Len(x.via)
           /\ a.kind \in {"out", "done"} => Rank(a, x) = 3 * Len(x.via) + 1
           /\ a.kind = "way" => Rank(a, x) = 3 * Len(x.via) + 2
           /\ a.kind \in {"in", "out", "way", "done"}
           /\ a.kind # "way" => a.to = a.at
<1>1. x.via \in Seq(Procs)
  BY DEF Instrs
<1>2. Len(x.via) \in Nat
  BY <1>1
<1>3. a.kind \in {"in", "out", "way", "done"} /\ (a.kind # "way" => a.to = a.at)
  BY DEF Places
<1> DEFINE n == Len(x.via)
<1> HIDE DEF n
<1>4. Rank(a, x) = 3 * n + (IF a.kind = "in" THEN 0 ELSE IF a.kind = "way" THEN 2 ELSE 1)
  BY DEF Rank, n
<1>5. n \in Nat
  BY <1>2 DEF n
<1>6. CASE a.kind = "in"
  BY <1>3, <1>4, <1>5, <1>6 DEF n
<1>7. CASE a.kind = "way"
  BY <1>3, <1>4, <1>5, <1>7 DEF n
<1>8. CASE a.kind \in {"out", "done"}
  <2>1. a.kind # "in" /\ a.kind # "way"
    BY <1>8
  <2>2. Rank(a, x) = 3 * n + 1
    BY <1>4, <2>1
  <2>3. Rank(a, x) \in Nat
    BY <1>5, <2>2
  <2> QED
    BY <1>3, <1>8, <2>1, <2>2, <2>3, <1>2 DEF n
<1> QED
  BY <1>3, <1>6, <1>7, <1>8

(* Instructions of one sender to one destination come the same way.        *)
LEMMA SamePath ==
    ASSUME NEW a \in Places, NEW b \in Places, NEW x \in Instrs, NEW y \in Instrs,
           Fits(a, x), Fits(b, y), x.src = y.src, x.dest = y.dest,
           NEW n \in Nat, n >= 1, n <= Len(x.via), n <= Len(y.via)
    PROVE  x.via[n] = y.via[n]
<1> DEFINE N == n - 1
           S == {m \in 0..N : x.via[m + 1] = y.via[m + 1]}
<1>1. N \in Nat /\ N \in 0..N /\ N + 1 = n /\ Len(x.via) \in Nat /\ Len(y.via) \in Nat
  BY RankIs
<1>2. 0 \in S
  <2>1. 0 \in 0..N /\ 0 + 1 = 1
    BY <1>1
  <2>2. x.via[1] = y.via[1]
    BY DEF Fits
  <2> QED
    BY <2>1, <2>2
<1>3. ASSUME NEW m \in 0..(N - 1), m \in S PROVE m + 1 \in S
  <2>1. m + 1 \in 1..(Len(x.via) - 1) /\ m + 1 \in 1..(Len(y.via) - 1) /\ m + 1 \in 0..N
    BY <1>1
  <2>2. x.via[m + 1] = y.via[m + 1]
    BY <1>3
  <2>3. /\ x.via[(m + 1) + 1] = Toward(x.via[m + 1], x.dest)
        /\ y.via[(m + 1) + 1] = Toward(y.via[m + 1], y.dest)
    BY <2>1 DEF Fits
  <2> QED
    BY <2>1, <2>2, <2>3
<1> HIDE DEF S
<1>4. 0..N \subseteq S
  BY <1>1, <1>2, <1>3, Induction
<1>5. N \in S
  BY <1>1, <1>4
<1> QED
  BY <1>1, <1>5 DEF S

(* ... so that one place is one step of the way, and the other way round.  *)
LEMMA SameRank ==
    ASSUME NEW a \in Places, NEW x \in Instrs, NEW y \in Instrs,
           Fits(a, x), Fits(a, y), x.src = y.src, x.dest = y.dest
    PROVE  Rank(a, x) = Rank(a, y)
<1> DEFINE m == Len(x.via)
           n == Len(y.via)
<1>1. /\ m \in Nat /\ m >= 1 /\ x.via[m] = a.at /\ IsInjective(x.via)
      /\ n \in Nat /\ n >= 1 /\ y.via[n] = a.at /\ IsInjective(y.via)
      /\ DOMAIN x.via = 1..m /\ DOMAIN y.via = 1..n
  BY RankIs DEF Fits, Instrs
<1> HIDE DEF m, n
<1>2. CASE m <= n
  <2>1. x.via[m] = y.via[m]
    BY <1>1, <1>2, SamePath DEF m, n
  <2>2. m \in 1..n /\ n \in 1..n
    BY <1>1, <1>2
  <2>3. m = n
    BY <1>1, <2>1, <2>2 DEF IsInjective
  <2> QED
    BY <2>3 DEF Rank, m, n
<1>3. CASE n <= m
  <2>1. x.via[n] = y.via[n]
    BY <1>1, <1>3, SamePath DEF m, n
  <2>2. m \in 1..m /\ n \in 1..m
    BY <1>1, <1>3
  <2>3. m = n
    BY <1>1, <2>1, <2>2 DEF IsInjective
  <2> QED
    BY <2>3 DEF Rank, m, n
<1> QED
  BY <1>1, <1>2, <1>3

LEMMA OnePlace ==
    ASSUME NEW a \in Places, NEW b \in Places, NEW x \in Instrs, NEW y \in Instrs,
           Fits(a, x), Fits(b, y), x.src = y.src, x.dest = y.dest, Rank(a, x) = Rank(b, y)
    PROVE  a = b
<1> DEFINE m == Len(x.via)
           n == Len(y.via)
<1>1. m \in Nat /\ n \in Nat /\ m >= 1 /\ n >= 1 /\ x.via[m] = a.at /\ y.via[n] = b.at
  BY RankIs DEF Fits
<1>2. /\ a.kind \in {"in", "out", "way", "done"} /\ b.kind \in {"in", "out", "way", "done"}
      /\ a.kind = "in" => Rank(a, x) = 3 * m
      /\ a.kind \in {"out", "done"} => Rank(a, x) = 3 * m + 1
      /\ a.kind = "way" => Rank(a, x) = 3 * m + 2
      /\ b.kind = "in" => Rank(b, y) = 3 * n
      /\ b.kind \in {"out", "done"} => Rank(b, y) = 3 * n + 1
      /\ b.kind = "way" => Rank(b, y) = 3 * n + 2
  BY RankIs
<1> HIDE DEF m, n
<1>3. m = n
  BY <1>1, <1>2
<1>4. \/ a.kind = b.kind
      \/ a.kind \in {"out", "done"} /\ b.kind \in {"out", "done"}
  BY <1>1, <1>2
<1>5. a.at = b.at
  BY <1>1, <1>3, SamePath DEF m, n
<1>6. a.kind = b.kind
  <2>1. a.kind = "done" <=> a.kind \in {"out", "done"} /\ x.dest = a.at
    BY DEF Fits
  <2>2. b.kind = "done" <=> b.kind \in {"out", "done"} /\ y.dest = b.at
    BY DEF Fits
  <2> QED
    BY <1>4, <1>5, <2>1, <2>2
<1>7. a.to = b.to
  <2>1. CASE a.kind = "way"
    BY <1>5, <1>6, <2>1 DEF Fits
  <2>2. CASE a.kind # "way"
    BY <1>5, <1>6, <2>2, RankIs
  <2> QED
    BY <2>1, <2>2
<1> QED
  BY <1>5, <1>6, <1>7 DEF Places

(* Sequences that lose elements at their front stay in order.              *)
Suffix(s, t) ==
    \E k \in Nat : \A i \in 1..Len(s) : i + k \in 1..Len(t) /\ s[i] = t[i + k]

LEMMA SuffixIs ==
    ASSUME NEW S, NEW s \in Seq(S)
    PROVE  Suffix(s, s) /\ Suffix(<<>>, s) /\ (s # <<>> => Suffix(Tail(s), s))
<1>1. Suffix(s, s)
  <2>1. 0 \in Nat /\ \A i \in 1..Len(s) : i + 0 \in 1..Len(s) /\ s[i] = s[i + 0]
    OBVIOUS
  <2> QED
    BY <2>1 DEF Suffix
<1>2. Suffix(<<>>, s)
  BY DEF Suffix
<1>3. ASSUME s # <<>> PROVE Suffix(Tail(s), s)
  <2>1. Len(s) \in Nat /\ Len(Tail(s)) = Len(s) - 1
        /\ \A i \in 1..Len(Tail(s)) : Tail(s)[i] = s[i + 1]
    BY <1>3, HeadTailProperties
  <2>2. 1 \in Nat /\ \A i \in 1..Len(Tail(s)) : i + 1 \in 1..Len(s) /\ Tail(s)[i] = s[i + 1]
    BY <2>1
  <2> QED
    BY <2>2 DEF Suffix
<1> QED
  BY <1>1, <1>2, <1>3

LEMMA DropKeeps ==
    ASSUME NEW L \in [Places -> Seq(Instrs)], NEW M \in [Places -> Seq(Instrs)],
           NEW n, Sorted(L, n), \A a \in Places : Suffix(M[a], L[a])
    PROVE  Sorted(M, n)
<1>1. Placed(L) /\ Ordered(L) /\ Numbered(L, n)
  BY DEF Sorted
<1>2. ASSUME NEW a \in Places, NEW i \in 1..Len(M[a])
      PROVE  Fits(a, M[a][i]) /\ M[a][i].id <= n
  <2>1. PICK k \in Nat : \A h \in 1..Len(M[a]) : h + k \in 1..Len(L[a]) /\ M[a][h] = L[a][h + k]
    BY DEF Suffix
  <2>2. i + k \in 1..Len(L[a]) /\ M[a][i] = L[a][i + k]
    BY <2>1
  <2>3. Fits(a, L[a][i + k]) /\ L[a][i + k].id <= n
    BY <1>1, <2>2 DEF Placed, Numbered
  <2> QED
    BY <2>2, <2>3
<1>3. ASSUME NEW a \in Places, NEW b \in Places, NEW i \in 1..Len(M[a]), NEW j \in 1..Len(M[b]),
             Comparable(M[a][i], M[b][j]),
             Rank(a, M[a][i]) > Rank(b, M[b][j]) \/ (a = b /\ i < j)
      PROVE  M[a][i].id < M[b][j].id
  <2>1. PICK k \in Nat : \A h \in 1..Len(M[a]) : h + k \in 1..Len(L[a]) /\ M[a][h] = L[a][h + k]
    BY DEF Suffix
  <2>2. PICK m \in Nat : \A h \in 1..Len(M[b]) : h + m \in 1..Len(L[b]) /\ M[b][h] = L[b][h + m]
    BY DEF Suffix
  <2>3. i + k \in 1..Len(L[a]) /\ M[a][i] = L[a][i + k]
    BY <2>1
  <2>4. CASE Rank(a, M[a][i]) > Rank(b, M[b][j])
    <3>1. j + m \in 1..Len(L[b]) /\ M[b][j] = L[b][j + m]
      BY <2>2
    <3>2. Comparable(L[a][i + k], L[b][j + m]) /\ Rank(a, L[a][i + k]) > Rank(b, L[b][j + m])
      BY <1>3, <2>3, <2>4, <3>1
    <3>3. L[a][i + k].id < L[b][j + m].id
      BY <1>1, <2>3, <3>1, <3>2 DEF Ordered
    <3> QED
      BY <2>3, <3>1, <3>3
  <2>5. CASE a = b /\ i < j
    <3>1. j + k \in 1..Len(L[a]) /\ M[b][j] = L[a][j + k]
      BY <2>1, <2>5
    <3>2. Comparable(L[a][i + k], L[a][j + k]) /\ i + k < j + k
      BY <1>3, <2>3, <2>5, <3>1
    <3>3. L[a][i + k].id < L[a][j + k].id
      BY <1>1, <2>3, <3>1, <3>2 DEF Ordered
    <3> QED
      BY <2>3, <3>1, <3>3
  <2> QED
    BY <1>3, <2>4, <2>5
<1>4. Placed(M) /\ Numbered(M, n)
  BY <1>2 DEF Placed, Numbered
<1>5. Ordered(M)
  BY <1>3 DEF Ordered
<1> QED
  BY <1>4, <1>5 DEF Sorted

(* One that joins a sequence has to be younger than what is as far or      *)
(* further, and older than what is behind it.                              *)
LEMMA JoinKeeps ==
    ASSUME NEW L \in [Places -> Seq(Instrs)], NEW n \in Nat, Sorted(L, n),
           NEW b \in Places, NEW y \in Instrs, Fits(b, y), y.id <= n,
           \A c \in Places : \A j \in 1..Len(L[c]) : Comparable(L[c][j], y) =>
               /\ Rank(c, L[c][j]) >= Rank(b, y) => L[c][j].id < y.id
               /\ Rank(c, L[c][j]) < Rank(b, y) => y.id < L[c][j].id
    PROVE  Sorted([L EXCEPT ![b] = Append(@, y)], n)
<1> DEFINE M == [L EXCEPT ![b] = Append(@, y)]
           N == Len(L[b])
<1>1. Placed(L) /\ Ordered(L) /\ Numbered(L, n)
  BY DEF Sorted
<1>2. /\ L[b] \in Seq(Instrs) /\ N \in Nat
      /\ Append(L[b], y) \in Seq(Instrs) /\ Len(Append(L[b], y)) = N + 1
      /\ Append(L[b], y)[N + 1] = y /\ \A i \in 1..N : Append(L[b], y)[i] = L[b][i]
  BY AppendProperties
<1>3. /\ M[b] = Append(L[b], y) /\ \A a \in Places : a # b => M[a] = L[a]
  OBVIOUS
<1> HIDE DEF M, N
<1>4. ASSUME NEW a \in Places, NEW i \in 1..Len(M[a])
      PROVE  \/ i \in 1..Len(L[a]) /\ M[a][i] = L[a][i]
             \/ a = b /\ i = N + 1 /\ M[a][i] = y
  <2>1. CASE a # b
    BY <1>3, <2>1
  <2>2. CASE a = b
    <3>1. i \in 1..(N + 1)
      BY <1>2, <1>3, <2>2
    <3>2. i \in 1..N \/ i = N + 1
      BY <1>2, <3>1
    <3> QED
      BY <1>2, <1>3, <2>2, <3>2 DEF N
  <2> QED
    BY <2>1, <2>2
<1>5. ASSUME NEW a \in Places, NEW i \in 1..Len(M[a])
      PROVE  Fits(a, M[a][i]) /\ M[a][i].id <= n
  <2>1. CASE i \in 1..Len(L[a]) /\ M[a][i] = L[a][i]
    BY <1>1, <2>1 DEF Placed, Numbered
  <2>2. CASE a = b /\ M[a][i] = y
    BY <2>2
  <2> QED
    BY <1>4, <2>1, <2>2
<1>6. ASSUME NEW a \in Places, NEW c \in Places, NEW i \in 1..Len(M[a]), NEW j \in 1..Len(M[c]),
             Comparable(M[a][i], M[c][j]),
             Rank(a, M[a][i]) > Rank(c, M[c][j]) \/ (a = c /\ i < j)
      PROVE  M[a][i].id < M[c][j].id
  <2>1. CASE i \in 1..Len(L[a]) /\ M[a][i] = L[a][i] /\ j \in 1..Len(L[c]) /\ M[c][j] = L[c][j]
    <3>1. Comparable(L[a][i], L[c][j])
          /\ (Rank(a, L[a][i]) > Rank(c, L[c][j]) \/ (a = c /\ i < j))
      BY <1>6, <2>1
    <3>2. L[a][i].id < L[c][j].id
      BY <1>1, <2>1, <3>1 DEF Ordered
    <3> QED
      BY <2>1, <3>2
  <2>2. CASE i \in 1..Len(L[a]) /\ M[a][i] = L[a][i] /\ c = b /\ j = N + 1 /\ M[c][j] = y
    <3>1. L[a][i] \in Instrs /\ Fits(a, L[a][i])
      <4>1. L[a] \in Seq(Instrs)
        OBVIOUS
      <4> QED
        BY <1>1, <2>2, <4>1 DEF Placed
    <3>2. Rank(a, L[a][i]) \in Nat /\ Rank(b, y) \in Nat
      BY <3>1, RankIs
    <3>3. Comparable(L[a][i], y)
      BY <1>6, <2>2
    <3>4. Rank(a, L[a][i]) >= Rank(b, y)
      <4>1. CASE Rank(a, M[a][i]) > Rank(c, M[c][j])
        BY <2>2, <3>2, <4>1
      <4>2. CASE a = c
        <5>1. Rank(a, L[a][i]) = Rank(a, y)
          BY <2>2, <3>1, <3>3, <4>2, SameRank DEF Comparable
        <5> QED
          BY <2>2, <3>2, <4>2, <5>1
      <4> QED
        BY <1>6, <4>1, <4>2
    <3>5. L[a][i].id < y.id
      BY <2>2, <3>3, <3>4
    <3> QED
      BY <2>2, <3>5
  <2>3. CASE a = b /\ i = N + 1 /\ M[a][i] = y /\ j \in 1..Len(L[c]) /\ M[c][j] = L[c][j]
    <3>1. ~(a = c /\ i < j)
      <4> SUFFICES ASSUME a = c, i < j PROVE FALSE
        OBVIOUS
      <4>1. j \in 1..N
        BY <2>3 DEF N
      <4> QED
        BY <1>2, <2>3, <4>1
    <3>2. L[c][j] \in Instrs
      <4>1. L[c] \in Seq(Instrs)
        OBVIOUS
      <4> QED
        BY <2>3, <4>1
    <3>3. Rank(c, L[c][j]) \in Nat /\ Rank(b, y) \in Nat
      BY <3>2, RankIs
    <3>4. Comparable(L[c][j], y) /\ Rank(c, L[c][j]) < Rank(b, y)
      BY <1>6, <2>3, <3>1, <3>3 DEF Comparable
    <3>5. y.id < L[c][j].id
      BY <2>3, <3>4
    <3> QED
      BY <2>3, <3>5
  <2>4. CASE a = b /\ i = N + 1 /\ M[a][i] = y /\ c = b /\ j = N + 1 /\ M[c][j] = y
    <3>1. Rank(b, y) \in Nat
      BY RankIs
    <3> QED
      BY <1>2, <1>6, <2>4, <3>1
  <2> QED
    BY <1>4, <2>1, <2>2, <2>3, <2>4
<1>7. Placed(M) /\ Numbered(M, n)
  BY <1>5 DEF Placed, Numbered
<1>8. Ordered(M)
  BY <1>6 DEF Ordered
<1> QED
  BY <1>7, <1>8 DEF Sorted, M

(* The first of one sequence becomes the last of the next.                 *)
LEMMA MoveKeeps ==
    ASSUME NEW L \in [Places -> Seq(Instrs)], NEW n \in Nat, Sorted(L, n),
           NEW a \in Places, NEW b \in Places, a # b, L[a] # <<>>,
           NEW x, x = Head(L[a]),
           NEW y \in Instrs, y.src = x.src, y.dest = x.dest, y.id = x.id,
           Fits(b, y), Rank(b, y) = Rank(a, x) + 1
    PROVE  Sorted([[L EXCEPT ![a] = Tail(@)] EXCEPT ![b] = Append(@, y)], n)
<1> DEFINE M == [L EXCEPT ![a] = Tail(@)]
<1>1. Placed(L) /\ Ordered(L) /\ Numbered(L, n)
  BY DEF Sorted
<1>2. L[a] \in Seq(Instrs) /\ Len(L[a]) \in Nat /\ 1 \in 1..Len(L[a]) /\ x = L[a][1] /\ x \in Instrs
  OBVIOUS
<1>3. /\ Tail(L[a]) \in Seq(Instrs) /\ Len(Tail(L[a])) = Len(L[a]) - 1
      /\ \A i \in 1..Len(Tail(L[a])) : Tail(L[a])[i] = L[a][i + 1]
  BY HeadTailProperties
<1>4. M \in [Places -> Seq(Instrs)] /\ M[a] = Tail(L[a]) /\ \A c \in Places : c # a => M[c] = L[c]
  BY <1>3
<1> HIDE DEF M
<1>5. Sorted(M, n)
  <2>1. \A c \in Places : Suffix(M[c], L[c])
    <3> SUFFICES ASSUME NEW c \in Places PROVE Suffix(M[c], L[c])
      OBVIOUS
    <3>1. L[c] \in Seq(Instrs)
      OBVIOUS
    <3>2. Suffix(L[c], L[c]) /\ (L[c] # <<>> => Suffix(Tail(L[c]), L[c]))
      BY <3>1, SuffixIs
    <3>3. CASE c = a
      <4>1. M[c] = Tail(L[c]) /\ L[c] # <<>>
        BY <1>4, <3>3
      <4> QED
        BY <3>2, <4>1
    <3>4. CASE c # a
      <4>1. M[c] = L[c]
        BY <1>4, <3>4
      <4> QED
        BY <3>2, <4>1
    <3> QED
      BY <3>3, <3>4
  <2> QED
    BY <1>4, <2>1, DropKeeps
<1>6. ASSUME NEW c \in Places, NEW j \in 1..Len(M[c]), Comparable(M[c][j], y)
      PROVE  /\ Rank(c, M[c][j]) >= Rank(b, y) => M[c][j].id < y.id
             /\ Rank(c, M[c][j]) < Rank(b, y) => y.id < M[c][j].id
  <2> DEFINE z == M[c][j]
  <2>1. PICK h \in 1..Len(L[c]) : z = L[c][h] /\ (c = a => h > 1)
    <3>1. CASE c = a
      <4>1. j + 1 \in 1..Len(L[c]) /\ j + 1 > 1 /\ z = L[c][j + 1]
        BY <1>2, <1>3, <1>4, <3>1
      <4> QED
        BY <4>1
    <3>2. CASE c # a
      BY <1>4, <3>2
    <3> QED
      BY <3>1, <3>2
  <2> HIDE DEF z
  <2>2. z \in Instrs /\ Fits(c, z) /\ Fits(a, x)
    <3>1. L[c] \in Seq(Instrs)
      OBVIOUS
    <3> QED
      BY <1>1, <1>2, <2>1, <3>1 DEF Placed
  <2>3. Comparable(z, x) /\ Comparable(x, z)
    BY <1>6 DEF Comparable, z
  <2>4. Rank(c, z) \in Nat /\ Rank(a, x) \in Nat
    BY <1>2, <2>2, RankIs
  <2>5. ASSUME Rank(c, z) >= Rank(b, y) PROVE z.id < y.id
    <3>1. Rank(c, z) > Rank(a, x)
      BY <2>4, <2>5
    <3>2. Comparable(L[c][h], L[a][1]) /\ Rank(c, L[c][h]) > Rank(a, L[a][1])
      BY <1>2, <2>1, <2>3, <3>1
    <3>3. L[c][h].id < L[a][1].id
      BY <1>1, <1>2, <2>1, <3>2 DEF Ordered
    <3> QED
      BY <1>2, <2>1, <3>3
  <2>6. ASSUME Rank(c, z) < Rank(b, y) PROVE y.id < z.id
    <3>1. Rank(a, x) > Rank(c, z) \/ (a = c /\ 1 < h)
      <4>1. CASE Rank(a, x) = Rank(c, z)
        <5>1. a = c
          BY <1>2, <2>2, <2>3, <4>1, OnePlace DEF Comparable
        <5> QED
          BY <2>1, <5>1
      <4>2. CASE Rank(a, x) # Rank(c, z)
        BY <2>4, <2>6, <4>2
      <4> QED
        BY <4>1, <4>2
    <3>2. Comparable(L[a][1], L[c][h])
          /\ (Rank(a, L[a][1]) > Rank(c, L[c][h]) \/ (a = c /\ 1 < h))
      BY <1>2, <2>1, <2>3, <3>1
    <3>3. L[a][1].id < L[c][h].id
      BY <1>1, <1>2, <2>1, <3>2 DEF Ordered
    <3> QED
      BY <1>2, <2>1, <3>3
  <2> QED
    BY <2>5, <2>6 DEF z
<1>7. y.id <= n
  BY <1>1, <1>2 DEF Numbered
<1>8. Sorted([M EXCEPT ![b] = Append(@, y)], n)
  BY <1>4, <1>5, <1>6, <1>7, JoinKeeps
<1> QED
  BY <1>8 DEF M

-----------------------------------------------------------------------------
(* Where instructions are in a state.                                      *)
LEMMA PlacesAre ==
    /\ \A p \in Procs : InAt(p) \in Places /\ OutAt(p) \in Places /\ DoneAt(p) \in Places
    /\ \A p, q \in Procs : WayTo(p, q) \in Places
    /\ \A a \in Places : \/ \E p \in Procs : a = InAt(p) \/ a = OutAt(p) \/ a = DoneAt(p)
                         \/ \E p, q \in Procs : a = WayTo(p, q)
<1>1. ASSUME NEW a \in Places
      PROVE  \/ \E p \in Procs : a = InAt(p) \/ a = OutAt(p) \/ a = DoneAt(p)
             \/ \E p, q \in Procs : a = WayTo(p, q)
  <2>1. /\ a.at \in Procs /\ a.to \in Procs
        /\ \/ a = InAt(a.at) \/ a = OutAt(a.at) \/ a = DoneAt(a.at)
           \/ a = WayTo(a.at, a.to)
    BY DEF Places, InAt, OutAt, DoneAt, WayTo
  <2> QED
    BY <2>1
<1> QED
  BY <1>1 DEF Places, InAt, OutAt, DoneAt, WayTo

LEMMA PlacesDiffer ==
    /\ \A p, q \in Procs : /\ InAt(p) # OutAt(q) /\ InAt(p) # DoneAt(q) /\ OutAt(p) # DoneAt(q)
                           /\ InAt(p) = InAt(q) => p = q
                           /\ OutAt(p) = OutAt(q) => p = q
                           /\ DoneAt(p) = DoneAt(q) => p = q
    /\ \A p, q, r \in Procs :
            WayTo(p, q) # InAt(r) /\ WayTo(p, q) # OutAt(r) /\ WayTo(p, q) # DoneAt(r)
    /\ \A p, q, r, s \in Procs : WayTo(p, q) = WayTo(r, s) => p = r /\ q = s
BY DEF InAt, OutAt, DoneAt, WayTo

LinesAre ==
    /\ \A p \in Procs : /\ Lines[InAt(p)] = incoming[p] /\ Lines[OutAt(p)] = outgoing[p]
                        /\ Lines[DoneAt(p)] = handled[p]
    /\ \A p, q \in Procs : Lines[WayTo(p, q)] = channel[p][q]

LEMMA LineIs == LinesAre /\ LinesAre'
<1>1. LinesAre
  BY PlacesAre DEF LinesAre, Lines, InAt, OutAt, DoneAt, WayTo
<1>2. LinesAre'
  BY PlacesAre DEF LinesAre, Lines, InAt, OutAt, DoneAt, WayTo
<1> QED
  BY <1>1, <1>2

(* Two ways to say the same of every place.                                *)
Alike(L, M) ==
    /\ \A p \in Procs : L[InAt(p)] = M[InAt(p)] /\ L[OutAt(p)] = M[OutAt(p)]
                        /\ L[DoneAt(p)] = M[DoneAt(p)]
    /\ \A p, q \in Procs : L[WayTo(p, q)] = M[WayTo(p, q)]

LEMMA AlikeIs ==
    ASSUME NEW M, M = [a \in Places |-> M[a]], Alike(Lines', M)
    PROVE  Lines' = M
<1>1. ASSUME NEW a \in Places PROVE Lines'[a] = M[a]
  <2>1. ASSUME NEW p \in Procs, a = InAt(p) \/ a = OutAt(p) \/ a = DoneAt(p)
        PROVE  Lines'[a] = M[a]
    BY <2>1 DEF Alike
  <2>2. ASSUME NEW p \in Procs, NEW q \in Procs, a = WayTo(p, q) PROVE Lines'[a] = M[a]
    BY <2>2 DEF Alike
  <2> QED
    BY <2>1, <2>2, PlacesAre
<1>2. Lines' = [a \in Places |-> Lines'[a]]
  BY DEF Lines
<1> QED
  BY <1>1, <1>2

LinesOK == Lines \in [Places -> Seq(Instrs)]

LEMMA LinesType == TreeTypeOK => LinesOK
<1> SUFFICES ASSUME TreeTypeOK PROVE LinesOK
  OBVIOUS
<1>1. /\ incoming \in [Procs -> Seq(Instrs)] /\ outgoing \in [Procs -> Seq(Instrs)]
      /\ channel \in [Procs -> [Procs -> Seq(Instrs)]] /\ handled \in [Procs -> Seq(Instrs)]
  BY DEF TreeTypeOK
<1>2. ASSUME NEW a \in Places PROVE Lines[a] \in Seq(Instrs)
  <2>1. ASSUME NEW p \in Procs, a = InAt(p) \/ a = OutAt(p) \/ a = DoneAt(p)
        PROVE  Lines[a] \in Seq(Instrs)
    BY <1>1, <2>1, LineIs DEF LinesAre
  <2>2. ASSUME NEW p \in Procs, NEW q \in Procs, a = WayTo(p, q) PROVE Lines[a] \in Seq(Instrs)
    BY <1>1, <2>2, LineIs DEF LinesAre
  <2> QED
    BY <2>1, <2>2, PlacesAre
<1>3. Lines = [a \in Places |-> Lines[a]]
  BY DEF Lines
<1> QED
  BY <1>2, <1>3 DEF LinesOK

LEMMA HeadFits ==
    ASSUME NEW L \in [Places -> Seq(Instrs)], NEW n, Sorted(L, n),
           NEW a \in Places, L[a] # <<>>
    PROVE  Head(L[a]) \in Instrs /\ Fits(a, Head(L[a]))
<1>1. L[a] \in Seq(Instrs) /\ 1 \in 1..Len(L[a]) /\ Head(L[a]) = L[a][1]
  OBVIOUS
<1> QED
  BY <1>1 DEF Sorted, Placed

(* Nothing moves.                                                          *)
LEMMA SameLines ==
    ASSUME OrderInv, UNCHANGED <<incoming, outgoing, channel, handled, sends>>
    PROVE  OrderInv'
<1>1. Lines' = Lines
  BY DEF Lines
<1> QED
  BY <1>1 DEF OrderInv

LEMMA OrderInit == Init => OrderInv
<1> SUFFICES ASSUME Init PROVE OrderInv
  OBVIOUS
<1>1. \A a \in Places : Lines[a] = <<>>
  <2> SUFFICES ASSUME NEW a \in Places PROVE Lines[a] = <<>>
    OBVIOUS
  <2>1. ASSUME NEW p \in Procs, a = InAt(p) \/ a = OutAt(p) \/ a = DoneAt(p)
        PROVE  Lines[a] = <<>>
    BY <2>1, LineIs DEF LinesAre, Init
  <2>2. ASSUME NEW p \in Procs, NEW q \in Procs, a = WayTo(p, q) PROVE Lines[a] = <<>>
    BY <2>2, LineIs DEF LinesAre, Init
  <2> QED
    BY <2>1, <2>2, PlacesAre
<1>2. \A a \in Places : \A i \in 1..Len(Lines[a]) : FALSE
  BY <1>1
<1> QED
  BY <1>2 DEF OrderInv, Sorted, Placed, Ordered, Numbered

LEMMA LinesTypeNext == TreeTypeOK' => LinesOK'
BY LinesType, PTL

(* Which way an instruction goes does not depend on the state.             *)
LEMMA HopToward ==
    ASSUME ServerInv, NEW p \in Procs, NEW instr \in Instrs, NextHop(p, instr) # NoKey
    PROVE  NextHop(p, instr) = Toward(p, instr.dest)
<1> DEFINE dest == instr.dest
<1>1. dest \in Procs
  BY DEF Instrs
<1>2. /\ \A q \in Procs : Has(table[p], q) => q \in Neighbours(p)
      /\ \A q \in Children(p) : Has(table[p], q)
  BY DEF ServerInv, TableInv
<1>3. CASE Has(table[p], dest)
  BY <1>1, <1>2, <1>3 DEF NextHop, Toward
<1>4. CASE ~Has(table[p], dest)
  <2>1. NextHop(p, instr) = Parent[p] /\ Has(table[p], Parent[p])
    BY <1>4 DEF NextHop
  <2>2. dest \notin Children(p) /\ dest # Parent[p]
    BY <1>2, <1>4, <2>1
  <2>3. dest \notin Neighbours(p)
    BY <2>2 DEF Neighbours
  <2> QED
    BY <2>1, <2>3 DEF Toward
<1> QED
  BY <1>3, <1>4

LEMMA FreshFits ==
    ASSUME NEW p \in Procs, NEW id \in 0..MaxSends, NEW kind \in {"work", "exit"},
           NEW dest \in Procs \ {p}, NEW y, y = Instr(id, kind, p, dest)
    PROVE  /\ y \in Instrs /\ y.id = id /\ y.src = p /\ y.dest = dest
           /\ Fits(OutAt(p), y) /\ Rank(OutAt(p), y) = 4
<1>1. Len(<<p>>) = 1 /\ <<p>>[1] = p
  OBVIOUS
<1>2. y.id = id /\ y.src = p /\ y.dest = dest /\ y.via = <<p>>
  BY DEF Instr
<1>3. y \in Leaving(p)
  BY FreshIs
<1>4. y \in Instrs /\ IsInjective(y.via)
  BY <1>3 DEF Leaving, Climbing
<1>5. /\ OutAt(p).kind = "out" /\ OutAt(p).at = p
      /\ "out" # "in" /\ "out" # "way" /\ "out" # "done" /\ "out" \in {"out", "way"}
  BY DEF OutAt
<1>6. \A i \in 1..(1 - 1) : FALSE
  OBVIOUS
<1>7. Fits(OutAt(p), y)
  BY <1>1, <1>2, <1>4, <1>5, <1>6 DEF Fits
<1>8. Rank(OutAt(p), y) = 4
  BY <1>1, <1>2, <1>5 DEF Rank
<1> QED
  BY <1>2, <1>4, <1>7, <1>8

LEMMA QueuedLines ==
    ASSUME ServerInv, NEW p \in Procs, NEW y,
           outgoing' = [outgoing EXCEPT ![p] = Append(@, y)],
           UNCHANGED <<incoming, channel, handled>>
    PROVE  Lines' = [Lines EXCEPT ![OutAt(p)] = Append(@, y)]
<1> DEFINE M == [Lines EXCEPT ![OutAt(p)] = Append(@, y)]
<1>1. Lines = [a \in Places |-> Lines[a]] /\ OutAt(p) \in Places /\ outgoing[p] = Lines[OutAt(p)]
  BY PlacesAre, LineIs DEF Lines, LinesAre
<1>2. /\ M = [a \in Places |-> M[a]] /\ M[OutAt(p)] = Append(outgoing[p], y)
      /\ \A a \in Places : a # OutAt(p) => M[a] = Lines[a]
  BY <1>1
<1> HIDE DEF M
<1>3. outgoing'[p] = Append(outgoing[p], y) /\ \A q \in Procs : q # p => outgoing'[q] = outgoing[q]
  BY DEF ServerInv, TreeTypeOK
<1>4. ASSUME NEW q \in Procs PROVE Lines'[OutAt(q)] = M[OutAt(q)]
  <2>1. CASE q = p
    BY <1>2, <1>3, <2>1, LineIs DEF LinesAre
  <2>2. CASE q # p
    BY <1>2, <1>3, <2>2, LineIs, PlacesAre, PlacesDiffer DEF LinesAre
  <2> QED
    BY <2>1, <2>2
<1>5. ASSUME NEW q \in Procs PROVE Lines'[InAt(q)] = M[InAt(q)] /\ Lines'[DoneAt(q)] = M[DoneAt(q)]
  BY <1>2, LineIs, PlacesAre, PlacesDiffer DEF LinesAre
<1>6. ASSUME NEW q \in Procs, NEW r \in Procs PROVE Lines'[WayTo(q, r)] = M[WayTo(q, r)]
  <2>1. WayTo(q, r) \in Places /\ WayTo(q, r) # OutAt(p)
    BY PlacesAre, PlacesDiffer
  <2>2. M[WayTo(q, r)] = Lines[WayTo(q, r)]
    BY <1>2, <2>1
  <2>3. Lines[WayTo(q, r)] = channel[q][r] /\ Lines'[WayTo(q, r)] = channel'[q][r]
    BY LineIs DEF LinesAre
  <2> QED
    BY <2>2, <2>3
<1>7. Alike(Lines', M)
  BY <1>4, <1>5, <1>6 DEF Alike
<1> QED
  BY <1>2, <1>7, AlikeIs DEF M

LEMMA AddOrders ==
    ASSUME ServerInv, OrderInv, NEW p \in Procs, Add(p) PROVE OrderInv'
<1>1. PICK kind \in {"work", "exit"}, dest \in Procs \ {p} :
         outgoing' = [outgoing EXCEPT ![p] = Append(@, Instr(sends + 1, kind, p, dest))]
  BY DEF Add
<1>2. PICK y : y = Instr(sends + 1, kind, p, dest)
  OBVIOUS
<1>3. sends \in Nat /\ sends' = sends + 1 /\ sends + 1 \in 0..MaxSends /\ sends + 1 \in Nat
  BY DepthIs DEF Add, ServerInv, TreeTypeOK
<1>4. /\ y \in Instrs /\ y.id = sends + 1 /\ y.src = p /\ y.dest = dest
      /\ Fits(OutAt(p), y) /\ Rank(OutAt(p), y) = 4
  BY <1>2, <1>3, FreshFits
<1>5. Lines' = [Lines EXCEPT ![OutAt(p)] = Append(@, y)]
  <2>1. UNCHANGED <<incoming, channel, handled>>
    BY DEF Add
  <2>2. outgoing' = [outgoing EXCEPT ![p] = Append(@, y)]
    BY <1>1, <1>2
  <2> QED
    BY <2>1, <2>2, QueuedLines
<1>6. Lines \in [Places -> Seq(Instrs)] /\ OutAt(p) \in Places
  BY LinesType, PlacesAre DEF ServerInv, LinesOK
<1>7. ASSUME NEW c \in Places, NEW j \in 1..Len(Lines[c])
      PROVE  /\ Lines[c][j] \in Instrs /\ Fits(c, Lines[c][j])
             /\ Lines[c][j].id \in Nat /\ Lines[c][j].id <= sends
  <2>1. Lines[c] \in Seq(Instrs)
    BY <1>6
  <2>2. Lines[c][j] \in Instrs
    BY <2>1
  <2> QED
    BY <2>2, DepthIs DEF OrderInv, Sorted, Placed, Numbered, Instrs
<1>8. Sorted(Lines, sends + 1)
  <2>1. Numbered(Lines, sends + 1)
    BY <1>3, <1>7 DEF Numbered
  <2> QED
    BY <2>1 DEF OrderInv, Sorted
<1>9. ASSUME NEW c \in Places, NEW j \in 1..Len(Lines[c])
      PROVE  Lines[c][j].id < y.id /\ ~(Rank(c, Lines[c][j]) < Rank(OutAt(p), y))
  <2> DEFINE z == Lines[c][j]
             n == Len(z.via)
  <2>1. z \in Instrs /\ Fits(c, z) /\ z.id \in Nat /\ z.id <= sends
    BY <1>7
  <2> HIDE DEF z
  <2>2. /\ n \in Nat /\ n >= 1 /\ (c.kind = "in" => n >= 2)
        /\ c.kind = "in" => Rank(c, z) = 3 * n
        /\ c.kind \in {"out", "done"} => Rank(c, z) = 3 * n + 1
        /\ c.kind = "way" => Rank(c, z) = 3 * n + 2
        /\ c.kind \in {"in", "out", "way", "done"}
    BY <2>1, RankIs DEF Fits
  <2> HIDE DEF n
  <2>3. ~(Rank(c, z) < 4)
    BY <2>2
  <2> QED
    BY <1>3, <1>4, <2>1, <2>3 DEF z
<1>10. y.id <= sends + 1
  BY <1>3, <1>4
<1>11. Sorted([Lines EXCEPT ![OutAt(p)] = Append(@, y)], sends + 1)
  BY <1>3, <1>4, <1>6, <1>8, <1>9, <1>10, JoinKeeps
<1> QED
  BY <1>3, <1>5, <1>11 DEF OrderInv

LEMMA TellChildrenOrders ==
    ASSUME ServerInv, OrderInv, NEW p \in Procs, TellChildren(p) PROVE OrderInv'
<1> DEFINE here == IF cursor[p].i = 0 THEN FirstEntry(table[p]) ELSE cursor[p]
<1>1. CASE outgoing' = outgoing
  BY <1>1, SameLines DEF TellChildren
<1>2. CASE outgoing' # outgoing
  <2>1. PICK dest \in Children(p) :
           outgoing' = [outgoing EXCEPT ![p] = Append(@, Instr(0, "exit", p, dest))]
    BY <1>2 DEF TellChildren
  <2>2. PICK y : y = Instr(0, "exit", p, dest)
    OBVIOUS
  <2>3. dest \in Procs \ {p} /\ 0 \in 0..MaxSends /\ "exit" \in {"work", "exit"}
    BY NeighboursAre, DepthIs
  <2>4. y \in Instrs /\ y.id = 0 /\ Fits(OutAt(p), y)
    BY <2>2, <2>3, FreshFits
  <2>5. UNCHANGED <<incoming, channel, handled, sends>>
    BY DEF TellChildren
  <2>6. Lines' = [Lines EXCEPT ![OutAt(p)] = Append(@, y)]
    BY <2>1, <2>2, <2>5, QueuedLines
  <2>7. Lines \in [Places -> Seq(Instrs)] /\ OutAt(p) \in Places
    BY LinesType, PlacesAre DEF ServerInv, LinesOK
  <2>8. \A z : ~Comparable(z, y)
    BY <2>4 DEF Comparable
  <2>9. sends \in Nat /\ y.id <= sends
    BY <2>4, DepthIs DEF ServerInv, TreeTypeOK
  <2>10. Sorted(Lines, sends)
    BY DEF OrderInv
  <2>11. Sorted([Lines EXCEPT ![OutAt(p)] = Append(@, y)], sends)
    BY <2>4, <2>7, <2>8, <2>9, <2>10, JoinKeeps
  <2> QED
    BY <2>5, <2>6, <2>11 DEF OrderInv
<1> QED
  BY <1>1, <1>2

LEMMA MoveOrders ==
    ASSUME ServerInv, OrderInv, sends' = sends,
           NEW a \in Places, NEW b \in Places, a # b, Lines[a] # <<>>,
           NEW x, x = Head(Lines[a]),
           NEW y \in Instrs, y.src = x.src, y.dest = x.dest, y.id = x.id,
           Fits(b, y), Rank(b, y) = Rank(a, x) + 1,
           Lines'[a] = Tail(Lines[a]), Lines'[b] = Append(Lines[b], y),
           \A c \in Places : c # a /\ c # b => Lines'[c] = Lines[c]
    PROVE  OrderInv'
<1> DEFINE M == [[Lines EXCEPT ![a] = Tail(@)] EXCEPT ![b] = Append(@, y)]
<1>1. Lines \in [Places -> Seq(Instrs)]
  BY LinesType DEF ServerInv, LinesOK
<1>2. Lines' = [c \in Places |-> Lines'[c]]
  BY DEF Lines
<1>3. M = [c \in Places |-> M[c]]
  BY <1>1
<1>4. ASSUME NEW c \in Places PROVE Lines'[c] = M[c]
  <2>1. CASE c = a
    BY <1>1, <2>1
  <2>2. CASE c = b
    BY <1>1, <2>2
  <2>3. CASE c # a /\ c # b
    BY <1>1, <2>3
  <2> QED
    BY <2>1, <2>2, <2>3
<1> HIDE DEF M
<1>5. Lines' = M
  BY <1>2, <1>3, <1>4
<1>6. sends \in Nat
  BY DepthIs DEF ServerInv, TreeTypeOK
<1>7. Sorted(M, sends)
  BY <1>1, <1>6, MoveKeeps DEF OrderInv, M
<1> QED
  BY <1>5, <1>7 DEF OrderInv

LEMMA DropOrders ==
    ASSUME ServerInv, ServerInv', OrderInv, sends' = sends,
           \A a \in Places : Lines'[a] = Lines[a] \/ Lines'[a] = <<>>
                             \/ (Lines[a] # <<>> /\ Lines'[a] = Tail(Lines[a]))
    PROVE  OrderInv'
<1>1. Lines \in [Places -> Seq(Instrs)] /\ Lines' \in [Places -> Seq(Instrs)]
  BY LinesType, LinesTypeNext DEF ServerInv, LinesOK
<1>2. ASSUME NEW a \in Places PROVE Suffix(Lines'[a], Lines[a])
  <2>1. Lines[a] \in Seq(Instrs)
    BY <1>1
  <2>2. /\ Suffix(Lines[a], Lines[a]) /\ Suffix(<<>>, Lines[a])
        /\ (Lines[a] # <<>> => Suffix(Tail(Lines[a]), Lines[a]))
    BY <2>1, SuffixIs
  <2>3. CASE Lines'[a] = Lines[a]
    BY <2>2, <2>3
  <2>4. CASE Lines'[a] = <<>>
    BY <2>2, <2>4
  <2>5. CASE Lines[a] # <<>> /\ Lines'[a] = Tail(Lines[a])
    BY <2>2, <2>5
  <2> QED
    BY <2>3, <2>4, <2>5
<1>3. Sorted(Lines', sends)
  BY <1>1, <1>2, DropKeeps DEF OrderInv
<1> QED
  BY <1>3 DEF OrderInv

LEMMA SendOrders ==
    ASSUME ServerInv, ServerInv', OrderInv, NEW p \in Procs, Send(p) PROVE OrderInv'
<1> DEFINE x == Head(outgoing[p])
           hop == NextHop(p, x)
           a == OutAt(p)
<1>1. /\ UNCHANGED <<incoming, handled, sends>> /\ outgoing[p] # <<>>
      /\ outgoing' = [outgoing EXCEPT ![p] = Tail(@)]
      /\ channel' = IF hop # NoKey /\ live[p][hop] /\ Up(hop)
                    THEN [channel EXCEPT ![p][hop] = Append(@, x)] ELSE channel
  BY DEF Send
<1>2. /\ outgoing \in [Procs -> Seq(Instrs)] /\ channel \in [Procs -> [Procs -> Seq(Instrs)]]
      /\ Lines \in [Places -> Seq(Instrs)]
  BY LinesType DEF ServerInv, TreeTypeOK, LinesOK
<1>3. a \in Places /\ Lines[a] # <<>> /\ x = Head(Lines[a]) /\ a.kind = "out" /\ a.at = p
  BY <1>1, LineIs, PlacesAre DEF LinesAre, OutAt
<1>4. x \in Instrs /\ Fits(a, x)
  BY <1>2, <1>3, HeadFits DEF OrderInv
<1>5. /\ Lines'[a] = Tail(Lines[a])
      /\ \A q \in Procs : q # p => Lines'[OutAt(q)] = Lines[OutAt(q)]
      /\ \A q \in Procs : Lines'[InAt(q)] = Lines[InAt(q)] /\ Lines'[DoneAt(q)] = Lines[DoneAt(q)]
  BY <1>1, <1>2, LineIs DEF LinesAre
<1> HIDE DEF x, hop
<1>6. CASE hop # NoKey /\ live[p][hop] /\ Up(hop)
  <2> DEFINE b == WayTo(p, hop)
  <2>1. hop \in Procs
    <3>1. x \in Leaving(p)
      <4>1. outgoing[p] \in Seq(Leaving(p))
        BY DEF ServerInv, RouteInv
      <4> QED
        BY <1>1, <4>1, HeadTailProperties DEF x
    <3> QED
      BY <1>6, <3>1, HopIs DEF hop
  <2>2. hop = Toward(p, x.dest)
    BY <1>4, <1>6, HopToward DEF hop
  <2>3. b \in Places /\ b # a /\ b.kind = "way" /\ b.at = p /\ b.to = hop
    BY <2>1, PlacesAre, PlacesDiffer DEF WayTo
  <2> HIDE DEF a, b
  <2>4. Fits(b, x) /\ Rank(b, x) = Rank(a, x) + 1
    <3>1. Fits(b, x)
      BY <1>3, <1>4, <2>2, <2>3 DEF Fits
    <3>2. Rank(a, x) = 3 * Len(x.via) + 1 /\ Rank(b, x) = 3 * Len(x.via) + 2 /\ Len(x.via) \in Nat
      BY <1>3, <1>4, <2>3, RankIs
    <3> QED
      BY <3>1, <3>2
  <2>5. channel' = [channel EXCEPT ![p][hop] = Append(@, x)]
    BY <1>1, <1>6
  <2>6. Lines'[b] = Append(Lines[b], x)
    <3>1. channel'[p][hop] = Append(channel[p][hop], x)
      BY <1>2, <2>1, <2>5
    <3>2. Lines[b] = channel[p][hop] /\ Lines'[b] = channel'[p][hop]
      BY <2>1, LineIs DEF LinesAre, b
    <3> QED
      BY <3>1, <3>2
  <2>7. ASSUME NEW c \in Places, c # a, c # b PROVE Lines'[c] = Lines[c]
    <3>1. ASSUME NEW q \in Procs, c = InAt(q) \/ c = OutAt(q) \/ c = DoneAt(q)
          PROVE  Lines'[c] = Lines[c]
      BY <1>5, <2>7, <3>1 DEF a
    <3>2. ASSUME NEW q \in Procs, NEW r \in Procs, c = WayTo(q, r) PROVE Lines'[c] = Lines[c]
      <4>1. ~(q = p /\ r = hop)
        BY <2>7, <3>2 DEF b
      <4>2. channel'[q][r] = channel[q][r]
        BY <1>2, <2>1, <2>5, <4>1
      <4> QED
        BY <3>2, <4>2, LineIs DEF LinesAre
    <3> QED
      BY <3>1, <3>2, PlacesAre
  <2> QED
    BY <1>1, <1>3, <1>4, <1>5, <2>3, <2>4, <2>6, <2>7, MoveOrders
<1>7. CASE ~(hop # NoKey /\ live[p][hop] /\ Up(hop))
  <2>1. channel' = channel
    BY <1>1, <1>7
  <2>2. ASSUME NEW c \in Places
        PROVE  Lines'[c] = Lines[c] \/ (Lines[c] # <<>> /\ Lines'[c] = Tail(Lines[c]))
    <3>1. ASSUME NEW q \in Procs, c = InAt(q) \/ c = OutAt(q) \/ c = DoneAt(q)
          PROVE  Lines'[c] = Lines[c] \/ c = a
      BY <1>5, <3>1
    <3>2. ASSUME NEW q \in Procs, NEW r \in Procs, c = WayTo(q, r) PROVE Lines'[c] = Lines[c]
      BY <2>1, <3>2, LineIs DEF LinesAre
    <3>3. CASE c = a
      BY <1>3, <1>5, <3>3
    <3> QED
      BY <3>1, <3>2, <3>3, PlacesAre
  <2>3. \A c \in Places : Lines'[c] = Lines[c] \/ Lines'[c] = <<>>
                            \/ (Lines[c] # <<>> /\ Lines'[c] = Tail(Lines[c]))
    BY <2>2
  <2>4. sends' = sends
    BY <1>1
  <2> QED
    BY <2>3, <2>4, DropOrders
<1> QED
  BY <1>6, <1>7

LEMMA RecieveOrders ==
    ASSUME ServerInv, OrderInv, NEW p \in Procs, NEW q \in Procs, Recieve(p, q)
    PROVE  OrderInv'
<1> DEFINE x == Head(channel[q][p])
           y == [x EXCEPT !.via = Append(@, p)]
           a == WayTo(q, p)
           b == InAt(p)
<1>1. /\ UNCHANGED <<outgoing, handled, sends>> /\ channel[q][p] # <<>>
      /\ incoming' = [incoming EXCEPT ![p] = Append(@, y)]
      /\ channel' = [channel EXCEPT ![q][p] = Tail(@)]
  BY DEF Recieve
<1>2. /\ incoming \in [Procs -> Seq(Instrs)] /\ channel \in [Procs -> [Procs -> Seq(Instrs)]]
      /\ Lines \in [Places -> Seq(Instrs)]
  BY LinesType DEF ServerInv, TreeTypeOK, LinesOK
<1>3. /\ a \in Places /\ b \in Places /\ a # b /\ Lines[a] # <<>> /\ x = Head(Lines[a])
      /\ a.kind = "way" /\ a.at = q /\ a.to = p /\ b.kind = "in" /\ b.at = p
  BY <1>1, LineIs, PlacesAre, PlacesDiffer DEF LinesAre, WayTo, InAt
<1>4. x \in Instrs /\ Fits(a, x)
  BY <1>2, <1>3, HeadFits DEF OrderInv
<1>5. y \in Instrs /\ IsInjective(y.via)
  <2>1. x \in Passing(q, p)
    <3>1. channel[q][p] \in Seq(Passing(q, p))
      BY DEF ServerInv, RouteInv
    <3> QED
      BY <1>1, <3>1, HeadTailProperties
  <2> HIDE DEF x
  <2>2. y \in Arriving(p)
    BY <2>1, MovedIs
  <2> QED
    BY <2>2 DEF Arriving
<1>6. Lines'[a] = Tail(Lines[a]) /\ Lines'[b] = Append(Lines[b], y)
  <2>1. channel'[q][p] = Tail(channel[q][p])
    BY <1>1, <1>2
  <2> HIDE DEF y
  <2>2. incoming'[p] = Append(incoming[p], y)
    BY <1>1, <1>2
  <2> QED
    BY <2>1, <2>2, LineIs DEF LinesAre
<1>7. /\ \A r \in Procs : r # p => Lines'[InAt(r)] = Lines[InAt(r)]
      /\ \A r \in Procs : Lines'[OutAt(r)] = Lines[OutAt(r)] /\ Lines'[DoneAt(r)] = Lines[DoneAt(r)]
  BY <1>1, <1>2, LineIs DEF LinesAre
<1>8. ASSUME NEW c \in Places, c # a, c # b PROVE Lines'[c] = Lines[c]
  <2>1. ASSUME NEW r \in Procs, c = InAt(r) \/ c = OutAt(r) \/ c = DoneAt(r)
        PROVE  Lines'[c] = Lines[c]
    BY <1>7, <1>8, <2>1
  <2>2. ASSUME NEW r \in Procs, NEW s \in Procs, c = WayTo(r, s) PROVE Lines'[c] = Lines[c]
    <3>1. ~(r = q /\ s = p)
      BY <1>8, <2>2
    <3>2. channel'[r][s] = channel[r][s]
      BY <1>1, <1>2, <3>1
    <3> QED
      BY <2>2, <3>2, LineIs DEF LinesAre
  <2> QED
    BY <2>1, <2>2, PlacesAre
<1> HIDE DEF x, a, b
<1>9. /\ y.src = x.src /\ y.dest = x.dest /\ y.id = x.id /\ y.via = Append(x.via, p)
      /\ x.via \in Seq(Procs)
  BY <1>4 DEF Instrs
<1> HIDE DEF y
<1> DEFINE n == Len(x.via)
<1>10. /\ n \in Nat /\ n >= 1 /\ Len(y.via) = n + 1 /\ y.via[n + 1] = p
       /\ \A i \in 1..n : y.via[i] = x.via[i]
  BY <1>4, <1>9, AppendProperties DEF Fits
<1>11. /\ x.via[1] = x.src /\ x.via[n] = q /\ p = Toward(q, x.dest)
       /\ \A i \in 1..(n - 1) : x.via[i + 1] = Toward(x.via[i], x.dest)
  BY <1>3, <1>4 DEF Fits
<1>12. Rank(a, x) = 3 * n + 2 /\ Rank(b, y) = 3 * Len(y.via)
  BY <1>3, <1>4, <1>5, RankIs
<1> HIDE DEF n
<1>13. Rank(b, y) = Rank(a, x) + 1
  BY <1>10, <1>12
<1>14. ASSUME NEW i \in 1..((n + 1) - 1) PROVE y.via[i + 1] = Toward(y.via[i], y.dest)
  <2>1. i \in 1..n
    BY <1>10
  <2>2. CASE i = n
    BY <1>9, <1>10, <1>11, <2>1, <2>2
  <2>3. CASE i # n
    <3>1. i \in 1..(n - 1) /\ i + 1 \in 1..n
      BY <1>10, <2>1, <2>3
    <3> QED
      BY <1>9, <1>10, <1>11, <2>1, <3>1
  <2> QED
    BY <2>2, <2>3
<1>15. n + 1 >= 1 /\ n + 1 >= 2 /\ 1 \in 1..n
  BY <1>10
<1>16. Fits(b, y)
  BY <1>3, <1>5, <1>9, <1>10, <1>11, <1>14, <1>15 DEF Fits
<1>17. sends' = sends
  BY <1>1
<1> QED
  BY <1>3, <1>5, <1>6, <1>8, <1>9, <1>13, <1>16, <1>17, MoveOrders

LEMMA HandleOrders ==
    ASSUME ServerInv, OrderInv, NEW p \in Procs, Handle(p) PROVE OrderInv'
<1> DEFINE x == Head(incoming[p])
           a == InAt(p)
           b == IF x.dest # p THEN OutAt(p) ELSE DoneAt(p)
<1>1. /\ UNCHANGED <<channel, sends>> /\ incoming[p] # <<>>
      /\ incoming' = [incoming EXCEPT ![p] = Tail(@)]
      /\ x.dest # p => outgoing' = [outgoing EXCEPT ![p] = Append(@, x)] /\ handled' = handled
      /\ x.dest = p => handled' = [handled EXCEPT ![p] = Append(@, x)] /\ outgoing' = outgoing
  BY DEF Handle
<1>2. /\ incoming \in [Procs -> Seq(Instrs)] /\ outgoing \in [Procs -> Seq(Instrs)]
      /\ handled \in [Procs -> Seq(Instrs)] /\ Lines \in [Places -> Seq(Instrs)]
  BY LinesType DEF ServerInv, TreeTypeOK, LinesOK
<1>3. /\ a \in Places /\ b \in Places /\ a # b /\ Lines[a] # <<>> /\ x = Head(Lines[a])
      /\ a.kind = "in" /\ a.at = p
  BY <1>1, LineIs, PlacesAre, PlacesDiffer DEF LinesAre, InAt
<1>4. x \in Instrs /\ Fits(a, x)
  BY <1>2, <1>3, HeadFits DEF OrderInv
<1>5. /\ b.at = p
      /\ x.dest # p => b.kind = "out"
      /\ x.dest = p => b.kind = "done"
  BY DEF OutAt, DoneAt
<1>6. Fits(b, x) /\ Rank(b, x) = Rank(a, x) + 1
  <2> HIDE DEF x, a, b
  <2>1. Fits(b, x)
    BY <1>3, <1>4, <1>5 DEF Fits
  <2>2. Len(x.via) \in Nat /\ Rank(a, x) = 3 * Len(x.via) /\ Rank(b, x) = 3 * Len(x.via) + 1
    BY <1>3, <1>4, <1>5, RankIs
  <2> QED
    BY <2>1, <2>2
<1>7. sends' = sends
  BY <1>1
<1>8. /\ Lines'[a] = Tail(Lines[a])
      /\ \A q \in Procs : q # p => Lines'[InAt(q)] = Lines[InAt(q)]
      /\ \A q, r \in Procs : Lines'[WayTo(q, r)] = Lines[WayTo(q, r)]
  BY <1>1, <1>2, LineIs DEF LinesAre
<1> HIDE DEF x
<1>9. Lines'[b] = Append(Lines[b], x)
  BY <1>1, <1>2, LineIs DEF LinesAre
<1>10. \A q \in Procs : /\ OutAt(q) # b => Lines'[OutAt(q)] = Lines[OutAt(q)]
                        /\ DoneAt(q) # b => Lines'[DoneAt(q)] = Lines[DoneAt(q)]
  BY <1>1, <1>2, LineIs DEF LinesAre
<1>11. ASSUME NEW c \in Places, c # a, c # b PROVE Lines'[c] = Lines[c]
  <2> HIDE DEF b
  <2>1. ASSUME NEW q \in Procs, c = InAt(q) \/ c = OutAt(q) \/ c = DoneAt(q)
        PROVE  Lines'[c] = Lines[c]
    BY <1>8, <1>10, <1>11, <2>1
  <2>2. ASSUME NEW q \in Procs, NEW r \in Procs, c = WayTo(q, r) PROVE Lines'[c] = Lines[c]
    BY <1>8, <2>2
  <2> QED
    BY <2>1, <2>2, PlacesAre
<1> HIDE DEF a, b
<1> QED
  BY <1>3, <1>4, <1>6, <1>7, <1>8, <1>9, <1>11, MoveOrders

LEMMA EndsOrders ==
    ASSUME ServerInv, ServerInv', OrderInv, NEW p \in Procs, NEW how, Ends(p, how)
    PROVE  OrderInv'
<1>1. /\ incoming' = [incoming EXCEPT ![p] = <<>>] /\ outgoing' = [outgoing EXCEPT ![p] = <<>>]
      /\ channel' = [q \in Procs |-> [channel[q] EXCEPT ![p] = <<>>]]
      /\ handled' = handled /\ sends' = sends
  BY DEF Ends
<1>2. /\ incoming \in [Procs -> Seq(Instrs)] /\ outgoing \in [Procs -> Seq(Instrs)]
      /\ channel \in [Procs -> [Procs -> Seq(Instrs)]]
  BY DEF ServerInv, TreeTypeOK
<1>3. ASSUME NEW c \in Places PROVE Lines'[c] = Lines[c] \/ Lines'[c] = <<>>
  <2>1. ASSUME NEW q \in Procs, c = InAt(q) \/ c = OutAt(q) \/ c = DoneAt(q)
        PROVE  Lines'[c] = Lines[c] \/ Lines'[c] = <<>>
    <3>1. /\ incoming'[q] = incoming[q] \/ incoming'[q] = <<>>
          /\ outgoing'[q] = outgoing[q] \/ outgoing'[q] = <<>>
      BY <1>1, <1>2
    <3> QED
      BY <1>1, <2>1, <3>1, LineIs DEF LinesAre
  <2>2. ASSUME NEW q \in Procs, NEW r \in Procs, c = WayTo(q, r)
        PROVE  Lines'[c] = Lines[c] \/ Lines'[c] = <<>>
    <3>1. channel'[q][r] = channel[q][r] \/ channel'[q][r] = <<>>
      BY <1>1, <1>2
    <3> QED
      BY <2>2, <3>1, LineIs DEF LinesAre
  <2> QED
    BY <2>1, <2>2, PlacesAre
<1>4. \A c \in Places : Lines'[c] = Lines[c] \/ Lines'[c] = <<>>
                        \/ (Lines[c] # <<>> /\ Lines'[c] = Tail(Lines[c]))
  BY <1>3
<1> QED
  BY <1>1, <1>4, DropOrders

LEMMA OrderNext == ServerInv /\ ServerInv' /\ OrderInv /\ [Next]_vars => OrderInv'
<1> SUFFICES ASSUME ServerInv, ServerInv', OrderInv, [Next]_vars PROVE OrderInv'
  OBVIOUS
<1>1. ASSUME NEW p \in Procs, Add(p) PROVE OrderInv'
  BY <1>1, AddOrders
<1>2. ASSUME NEW p \in Procs, Send(p) PROVE OrderInv'
  BY <1>2, SendOrders
<1>3. ASSUME NEW p \in Procs, Handle(p) PROVE OrderInv'
  BY <1>3, HandleOrders
<1>4. ASSUME NEW p \in Procs, TellChildren(p) PROVE OrderInv'
  BY <1>4, TellChildrenOrders
<1>5. ASSUME NEW p \in Procs, Close(p) PROVE OrderInv'
  BY <1>5, EndsOrders DEF Close
<1>6. ASSUME NEW p \in Procs, ParentGone(p) PROVE OrderInv'
  <2>1. Ends(p, "crashed") \/ UNCHANGED <<incoming, outgoing, channel, handled, sends>>
    BY <1>6 DEF ParentGone
  <2> QED
    BY <2>1, EndsOrders, SameLines
<1>7. ASSUME NEW p \in Procs, Quit(p) PROVE OrderInv'
  BY <1>7, SameLines DEF Quit
<1>8. ASSUME NEW p \in Procs, Crash(p) PROVE OrderInv'
  BY <1>8, EndsOrders DEF Crash
<1>9. ASSUME NEW p \in Procs, NEW q \in Procs, Recieve(p, q) PROVE OrderInv'
  BY <1>9, RecieveOrders
<1>10. CASE UNCHANGED vars
  BY <1>10, SameLines DEF vars
<1> QED
  BY <1>1, <1>2, <1>3, <1>4, <1>5, <1>6, <1>7, <1>8, <1>9, <1>10 DEF Next, Loop, Faults

(* Instructions of one process to another are handled in the order in      *)
(* which they were sent, through whatever processes they go and whoever    *)
(* leaves meanwhile (wimp_server_send_instructions, the main loop).        *)
THEOREM SentOrderKept == Spec => []HandledInSendOrder
<1>1. Spec => []OrderInv
  BY OrderInit, OrderNext, ServerInvariant, PTL DEF Spec
<1>2. ServerInv /\ OrderInv => HandledInSendOrder
  <2> SUFFICES ASSUME ServerInv, OrderInv, NEW p \in Procs,
                      NEW i \in DOMAIN handled[p], NEW j \in DOMAIN handled[p], i < j,
                      handled[p][i].src = handled[p][j].src, handled[p][i].id # 0,
                      handled[p][j].id # 0
               PROVE  handled[p][i].id < handled[p][j].id
    BY DEF HandledInSendOrder
  <2>1. DoneAt(p) \in Places /\ Lines[DoneAt(p)] = handled[p] /\ DoneAt(p).kind = "done"
    BY PlacesAre, LineIs DEF LinesAre, DoneAt
  <2>2. handled[p] \in Seq(Instrs) /\ i \in 1..Len(handled[p]) /\ j \in 1..Len(handled[p])
    BY DEF ServerInv, TreeTypeOK
  <2>3. Fits(DoneAt(p), handled[p][i]) /\ Fits(DoneAt(p), handled[p][j])
    BY <2>1, <2>2 DEF OrderInv, Sorted, Placed
  <2>4. Comparable(handled[p][i], handled[p][j])
    BY <2>1, <2>3 DEF Fits, Comparable
  <2> QED
    BY <2>1, <2>2, <2>4 DEF OrderInv, Sorted, Ordered
<1> QED
  BY <1>1, <1>2, ServerInvariant, PTL
-----------------------------------------------------------------------------
(* Leaving.  wimp_server_free has yet to come to a name when its loop      *)
(* stands before it: in a later bucket, or further down the chain.         *)
Further(chain, entry, c) ==
    \E j, k \in DOMAIN chain : j <= k /\ chain[j] = entry /\ chain[k] = c
Upcoming(t, cur, c) ==
    \/ cur.i = 0
    \/ cur.entry # NoKey /\ Hash[c] >= cur.i
    \/ cur.entry # NoKey /\ Hash[c] + 1 = cur.i /\ Further(t[Hash[c]], cur.entry, c)

(* A child is told, or there is nobody to be told.                         *)
ToldBy(p, c) == ToSet(outgoing[p]) \cup ToSet(channel[p][c]) \cup ToSet(incoming[c])
Told(p, c) ==
    \/ mode[c] # "running"
    \/ ~listening[c][p]
    \/ \E instr \in ToldBy(p, c) : instr.kind = "exit" /\ instr.dest = c

(* The loop over the table runs from its beginning, one entry after the    *)
(* other, and what is behind it has been told.                             *)
ToldInv ==
    \A p \in Procs :
        /\ mode[p] \in {"running", "draining"} => cursor[p].i = 0
        /\ cursor[p].entry # NoKey => cursor[p].i = Hash[cursor[p].entry] + 1
        /\ \A c \in Children(p) :
            /\ live[p][c]
            /\ \/ mode[p] = "sending"
               \/ mode[p] = "freeing" /\ ~Upcoming(table[p], cursor[p], c)
               => Told(p, c)

(* A name is looked at before it is behind the iterator.                   *)
LEMMA ScanFinds ==
    ASSUME NEW t \in Tables, Hashed(t), NEW i \in Nat
    PROVE  /\ Scan(t, i).i # 0
           /\ Scan(t, i).entry # NoKey => Scan(t, i).i = Hash[Scan(t, i).entry] + 1
           /\ \A c \in Keys : Has(t, c) /\ Hash[c] >= i => Upcoming(t, Scan(t, i), c)
<1> DEFINE found == {b \in Buckets : b >= i /\ t[b] # <<>>}
           b == Min(found)
<1>1. ASSUME NEW c \in Keys, Has(t, c), Hash[c] >= i
      PROVE  /\ Hash[c] \in found /\ t[Hash[c]] \in Seq(Keys)
             /\ \E k \in DOMAIN t[Hash[c]] : t[Hash[c]][k] = c
  <2>1. t[Hash[c]] \in Seq(Keys) /\ Hash[c] \in Buckets
    BY ChainIs
  <2>2. \E k \in DOMAIN t[Hash[c]] : t[Hash[c]][k] = c
    BY <1>1 DEF Has, Chain
  <2>3. t[Hash[c]] # <<>>
    BY <2>2
  <2> QED
    BY <1>1, <2>1, <2>2, <2>3
<1>2. CASE found = {}
  <2>1. Scan(t, i) = [entry |-> NoKey, i |-> Size]
    BY <1>2 DEF Scan
  <2>2. Scan(t, i).entry = NoKey /\ Scan(t, i).i = Size /\ Size # 0
    BY <2>1, HashIs
  <2> QED
    BY <1>1, <1>2, <2>2
<1>3. CASE found # {}
  <2>1. Scan(t, i) = [entry |-> Head(t[b]), i |-> b + 1]
    BY <1>3 DEF Scan
  <2>2. found \subseteq Nat
    BY HashIs
  <2>3. b \in found /\ \A x \in found : b <= x
    <3> HIDE DEF found
    <3>1. \E x \in found : \A y \in found : x <= y
      BY <1>3, <2>2, LeastElement
    <3> QED
      BY <3>1 DEF Min
  <2>4. b \in Buckets /\ t[b] # <<>> /\ t[b] \in Seq(Keys) /\ b \in Nat
    BY <2>3, HashIs DEF Tables
  <2> HIDE DEF b
  <2>5. Head(t[b]) \in Keys /\ Head(t[b]) \in ToSet(t[b]) /\ Head(t[b]) = t[b][1]
        /\ 1 \in DOMAIN t[b]
    BY <2>4, WithoutFirst, HeadTailProperties, EmptySeq
  <2>6. Hash[Head(t[b])] = b
    BY <2>4, <2>5 DEF Hashed
  <2>7. /\ Scan(t, i).entry = Head(t[b]) /\ Scan(t, i).i = b + 1
        /\ Scan(t, i).entry # NoKey /\ b + 1 # 0
    BY <2>1, <2>4, <2>5, HashIs
  <2>8. ASSUME NEW c \in Keys, Has(t, c), Hash[c] >= i PROVE Upcoming(t, Scan(t, i), c)
    <3>1. b <= Hash[c] /\ Hash[c] \in Nat
      BY <1>1, <2>2, <2>3, <2>8
    <3>2. CASE b = Hash[c]
      <4>1. PICK k \in DOMAIN t[Hash[c]] : t[Hash[c]][k] = c
        BY <1>1, <2>8
      <4>2. 1 <= k
        BY <1>1, <2>8
      <4>3. Further(t[Hash[c]], Head(t[b]), c)
        BY <2>5, <3>2, <4>1, <4>2 DEF Further
      <4> QED
        BY <2>7, <3>2, <4>3 DEF Upcoming
    <3>3. CASE b # Hash[c]
      <4>1. Hash[c] >= b + 1
        BY <2>4, <3>1, <3>3
      <4> QED
        BY <2>7, <4>1 DEF Upcoming
    <3> QED
      BY <3>2, <3>3
  <2> QED
    BY <2>6, <2>7, <2>8
<1> QED
  BY <1>2, <1>3

LEMMA NextFinds ==
    ASSUME NEW t \in Tables, Hashed(t), NEW cur \in Cursors, cur.entry # NoKey,
           Has(t, cur.entry), cur.i = Hash[cur.entry] + 1
    PROVE  LET next == NextEntry(t, cur)
           IN  /\ next.i # 0
               /\ next.entry # NoKey => next.i = Hash[next.entry] + 1
               /\ \A c \in Keys :
                    Has(t, c) /\ Upcoming(t, cur, c) => c = cur.entry \/ Upcoming(t, next, c)
<1> DEFINE e == cur.entry
           chain == t[Hash[e]]
           at == CHOOSE i \in DOMAIN chain : chain[i] = e
           next == NextEntry(t, cur)
<1>1. e \in Keys /\ cur.i \in Nat /\ Hash[e] \in Nat /\ cur.i # 0
  BY HashIs DEF Cursors
<1>2. chain \in Seq(Keys) /\ Chain(t, e) = chain /\ IsInjective(chain)
      /\ \A q \in ToSet(chain) : Hash[q] = Hash[e]
  BY <1>1, ChainIs DEF Hashed
<1>3. at \in DOMAIN chain /\ chain[at] = e
  <2>1. \E i \in DOMAIN chain : chain[i] = e
    BY <1>1, <1>2 DEF Has
  <2> QED
    BY <2>1
<1>4. next = IF at < Len(chain) THEN [cur EXCEPT !.entry = chain[at + 1]]
             ELSE Scan(t, cur.i)
  BY <1>2 DEF NextEntry
<1> HIDE DEF at, next
<1>5. ASSUME NEW c \in Keys, Hash[c] + 1 = cur.i, Further(t[Hash[c]], e, c)
      PROVE  Hash[c] = Hash[e] /\ \E k \in DOMAIN chain : at <= k /\ chain[k] = c
  <2>1. Hash[c] = Hash[e]
    BY <1>1, <1>5, HashIs
  <2>2. PICK j \in DOMAIN chain, k \in DOMAIN chain : j <= k /\ chain[j] = e /\ chain[k] = c
    BY <1>5, <2>1 DEF Further
  <2>3. j = at
    BY <1>2, <1>3, <2>2 DEF IsInjective
  <2> QED
    BY <2>1, <2>2, <2>3
<1>6. CASE at < Len(chain)
  <2> DEFINE q == chain[at + 1]
  <2>1. at + 1 \in DOMAIN chain /\ q \in Keys /\ at \in Nat
    BY <1>2, <1>3, <1>6
  <2>2. Hash[q] = Hash[e]
    BY <1>2, <2>1 DEF ToSet
  <2> HIDE DEF q
  <2>3. next = [cur EXCEPT !.entry = q]
    BY <1>4, <1>6 DEF q
  <2>4. next.entry = q /\ next.i = cur.i /\ q # NoKey
    BY <2>1, <2>3, HashIs DEF Cursors
  <2>5. ASSUME NEW c \in Keys, Upcoming(t, cur, c), c # e PROVE Upcoming(t, next, c)
    <3>1. CASE Hash[c] >= cur.i
      BY <2>4, <3>1 DEF Upcoming
    <3>2. CASE Hash[c] + 1 = cur.i /\ Further(t[Hash[c]], e, c)
      <4>1. PICK k \in DOMAIN chain : at <= k /\ chain[k] = c
        BY <1>5, <3>2
      <4>2. k \in Nat /\ at # k
        BY <1>2, <1>3, <2>5, <4>1
      <4>3. at + 1 <= k
        BY <2>1, <4>1, <4>2
      <4>4. t[Hash[c]] = chain
        BY <1>5, <3>2
      <4>5. Further(t[Hash[c]], q, c)
        BY <2>1, <4>1, <4>3, <4>4 DEF Further, q
      <4> QED
        BY <2>4, <3>2, <4>5 DEF Upcoming
    <3> QED
      BY <1>1, <2>5, <3>1, <3>2 DEF Upcoming
  <2> QED
    BY <1>1, <2>2, <2>4, <2>5 DEF next
<1>7. CASE ~(at < Len(chain))
  <2>1. next = Scan(t, cur.i)
    BY <1>4, <1>7
  <2>2. /\ next.i # 0
        /\ next.entry # NoKey => next.i = Hash[next.entry] + 1
        /\ \A c \in Keys : Has(t, c) /\ Hash[c] >= cur.i => Upcoming(t, next, c)
    BY <1>1, <2>1, ScanFinds
  <2>3. ASSUME NEW c \in Keys, Has(t, c), Upcoming(t, cur, c), c # e
        PROVE  Upcoming(t, next, c)
    <3>1. CASE Hash[c] >= cur.i
      BY <2>2, <2>3, <3>1
    <3>2. CASE Hash[c] + 1 = cur.i /\ Further(t[Hash[c]], e, c)
      <4>1. PICK k \in DOMAIN chain : at <= k /\ chain[k] = c
        BY <1>5, <3>2
      <4>2. k = at
        BY <1>2, <1>3, <1>7, <4>1
      <4> QED
        BY <1>3, <2>3, <4>1, <4>2
    <3> QED
      BY <1>1, <2>3, <3>1, <3>2 DEF Upcoming
  <2> QED
    BY <2>2, <2>3 DEF next
<1> QED
  BY <1>6, <1>7

-----------------------------------------------------------------------------
(* What a step of anybody does to the mode, the table and the iterator of  *)
(* a process: it leaves its main loop once, and only TellChildren moves    *)
(* the iterator.                                                           *)
InMainLoop(m) == m \in {"running", "draining"}
Leaves(m) == m \in {"freeing", "sending"}

Moves(p) ==
    /\ mode'[p] = "running" => mode[p] = "running"
    /\ InMainLoop(mode'[p]) => InMainLoop(mode[p])
    /\ Leaves(mode'[p]) => InMainLoop(mode[p]) \/ Leaves(mode[p])
    /\ InMainLoop(mode[p]) => mode'[p] # "sending" /\ cursor'[p] = cursor[p]
    /\ Leaves(mode[p]) /\ ~TellChildren(p) =>
        /\ table'[p] = table[p] /\ cursor'[p] = cursor[p]
        /\ Leaves(mode'[p]) => mode'[p] = mode[p]
    /\ mode[p] = "sending" /\ mode'[p] = "gone" => outgoing[p] = <<>>
    /\ cursor'[p] = cursor[p] \/ TellChildren(p)
    /\ \A c \in Children(p) : live'[p][c] = live[p][c]
    /\ \A q \in Procs : listening'[p][q] => listening[p][q]

LEMMA ModesStay ==
    ASSUME TreeTypeOK, NEW p \in Procs, UNCHANGED <<table, cursor, live, listening>>,
           mode'[p] = mode[p]
    PROVE  Moves(p)
BY DEF Moves, Leaves, InMainLoop, TreeTypeOK

LEMMA EndsMoves ==
    ASSUME TreeTypeOK, NEW p \in Procs, NEW r \in Procs, NEW how \in {"gone", "crashed"},
           Ends(r, how), how = "gone" => outgoing[r] = <<>>, UNCHANGED table,
           \A c \in Children(p) : live'[p][c] = live[p][c]
    PROVE  Moves(p)
<1>1. /\ mode' = [mode EXCEPT ![r] = how] /\ UNCHANGED <<cursor, listening>>
      /\ mode \in [Procs -> {"running", "draining", "freeing", "sending", "gone", "crashed"}]
  BY DEF Ends, TreeTypeOK
<1>2. CASE r = p
  <2>1. mode'[p] = how
    BY <1>1, <1>2
  <2> QED
    BY <1>1, <1>2, <2>1 DEF Moves, Leaves, InMainLoop
<1>3. CASE r # p
  <2>1. mode'[p] = mode[p]
    BY <1>1, <1>3
  <2> QED
    BY <1>1, <2>1 DEF Moves, Leaves, InMainLoop
<1> QED
  BY <1>2, <1>3

LEMMA HandleMoves ==
    ASSUME TreeTypeOK, NEW p \in Procs, NEW r \in Procs, Handle(r) PROVE Moves(p)
<1>1. /\ mode \in [Procs -> {"running", "draining", "freeing", "sending", "gone", "crashed"}]
      /\ UNCHANGED <<table, live, cursor, listening>> /\ mode[r] \in {"running", "draining"}
  BY DEF Handle, TreeTypeOK
<1>2. mode' = mode \/ mode' = [mode EXCEPT ![r] = "freeing"] \/ mode' = [mode EXCEPT ![r] = "draining"]
  BY DEF Handle
<1>4. CASE mode'[p] = mode[p]
  BY <1>1, <1>4, ModesStay
<1>5. CASE mode'[p] # mode[p]
  <2>1. r = p /\ mode'[p] \in {"freeing", "draining"}
    BY <1>1, <1>2, <1>5
  <2> QED
    BY <1>1, <2>1 DEF Moves, Leaves, InMainLoop
<1> QED
  BY <1>4, <1>5

LEMMA ParentGoneMoves ==
    ASSUME TreeTypeOK, NEW p \in Procs, NEW r \in Procs, ParentGone(r) PROVE Moves(p)
<1>1. /\ mode \in [Procs -> {"running", "draining", "freeing", "sending", "gone", "crashed"}]
      /\ live \in [Procs -> [Procs -> BOOLEAN]] /\ table \in [Procs -> [Buckets -> Seq(Procs)]]
      /\ live' = [live EXCEPT ![r][Parent[r]] = FALSE] /\ mode[r] = "running"
  BY DEF ParentGone, TreeTypeOK
<1>2. ASSUME NEW c \in Children(p) PROVE live'[p][c] = live[p][c]
  <2>1. ~(r = p /\ Parent[r] = c) /\ c \in Procs
    BY NeighboursAre DEF Children
  <2> QED
    BY <1>1, <2>1
<1>3. CASE RemoveFollowsNull(table[r], Parent[r])
  <2>1. Ends(r, "crashed") /\ UNCHANGED table
    BY <1>3 DEF ParentGone
  <2> QED
    BY <1>2, <2>1, EndsMoves
<1>4. CASE ~RemoveFollowsNull(table[r], Parent[r])
  <2>1. /\ mode' = [mode EXCEPT ![r] = "freeing"]
        /\ table' = [table EXCEPT ![r] = RemoveEntry(@, Parent[r])]
        /\ UNCHANGED <<cursor, listening>>
    BY <1>4 DEF ParentGone
  <2>2. CASE r = p
    <3>1. mode'[p] = "freeing" /\ mode[p] = "running"
      BY <1>1, <2>1, <2>2
    <3> QED
      BY <1>2, <2>1, <3>1 DEF Moves, Leaves, InMainLoop
  <2>3. CASE r # p
    <3>1. mode'[p] = mode[p] /\ table'[p] = table[p]
      BY <1>1, <2>1, <2>3
    <3> QED
      BY <1>1, <1>2, <2>1, <3>1 DEF Moves, Leaves, InMainLoop
  <2> QED
    BY <2>2, <2>3
<1> QED
  BY <1>3, <1>4

LEMMA RecieveMoves ==
    ASSUME TreeTypeOK, NEW p \in Procs, NEW r \in Procs, NEW q \in Procs, Recieve(r, q)
    PROVE  Moves(p)
<1>1. /\ UNCHANGED <<mode, table, live, cursor>> /\ listening[r][q]
      /\ \E b \in BOOLEAN : listening' = [listening EXCEPT ![r][q] = b]
      /\ listening \in [Procs -> [Procs -> BOOLEAN]]
  BY DEF Recieve, TreeTypeOK
<1>2. ASSUME NEW s \in Procs, listening'[p][s] PROVE listening[p][s]
  BY <1>1, <1>2
<1> QED
  BY <1>1, <1>2 DEF Moves, Leaves, InMainLoop

LEMMA TellChildrenMoves ==
    ASSUME TreeTypeOK, NEW p \in Procs, NEW r \in Procs, TellChildren(r) PROVE Moves(p)
<1>1. /\ mode \in [Procs -> {"running", "draining", "freeing", "sending", "gone", "crashed"}]
      /\ cursor \in [Procs -> [entry : Procs \cup {NoKey}, i : 0..Size]]
      /\ mode[r] = "freeing" /\ UNCHANGED <<table, live, listening>>
      /\ mode' = mode \/ mode' = [mode EXCEPT ![r] = "sending"]
      /\ cursor' = cursor \/ \E x : cursor' = [cursor EXCEPT ![r] = x]
  BY DEF TellChildren, TreeTypeOK
<1>2. CASE r = p
  <2>1. mode'[p] \in {"freeing", "sending"} /\ mode[p] = "freeing"
    BY <1>1, <1>2
  <2> QED
    BY <1>1, <1>2, <2>1 DEF Moves, Leaves, InMainLoop
<1>3. CASE r # p
  <2>1. mode'[p] = mode[p] /\ cursor'[p] = cursor[p]
    BY <1>1, <1>3
  <2> QED
    BY <1>1, <2>1 DEF Moves, Leaves, InMainLoop
<1> QED
  BY <1>2, <1>3

LEMMA AllMove == TreeTypeOK /\ [Next]_vars => \A p \in Procs : Moves(p)
<1> SUFFICES ASSUME TreeTypeOK, [Next]_vars, NEW p \in Procs PROVE Moves(p)
  OBVIOUS
<1>1. ASSUME NEW r \in Procs, Add(r) PROVE Moves(p)
  BY <1>1, ModesStay DEF Add
<1>2. ASSUME NEW r \in Procs, Send(r) PROVE Moves(p)
  BY <1>2, ModesStay DEF Send
<1>3. ASSUME NEW r \in Procs, Handle(r) PROVE Moves(p)
  BY <1>3, HandleMoves
<1>4. ASSUME NEW r \in Procs, TellChildren(r) PROVE Moves(p)
  BY <1>4, TellChildrenMoves
<1>5. ASSUME NEW r \in Procs, Close(r) PROVE Moves(p)
  BY <1>5, EndsMoves DEF Close
<1>6. ASSUME NEW r \in Procs, ParentGone(r) PROVE Moves(p)
  BY <1>6, ParentGoneMoves
<1>7. ASSUME NEW r \in Procs, Quit(r) PROVE Moves(p)
  <2>1. /\ UNCHANGED <<table, live, cursor, listening>> /\ mode[r] = "running"
        /\ mode' = [mode EXCEPT ![r] = "freeing"]
        /\ mode \in [Procs -> {"running", "draining", "freeing", "sending", "gone", "crashed"}]
    BY <1>7 DEF Quit, TreeTypeOK
  <2>2. CASE mode'[p] = mode[p]
    BY <2>1, <2>2, ModesStay
  <2>3. CASE mode'[p] # mode[p]
    <3>1. p = r /\ mode'[p] = "freeing"
      BY <2>1, <2>3
    <3> QED
      BY <2>1, <3>1 DEF Moves, Leaves, InMainLoop
  <2> QED
    BY <2>2, <2>3
<1>8. ASSUME NEW r \in Procs, Crash(r) PROVE Moves(p)
  BY <1>8, EndsMoves DEF Crash
<1>9. ASSUME NEW r \in Procs, NEW q \in Procs, Recieve(r, q) PROVE Moves(p)
  BY <1>9, RecieveMoves
<1>10. CASE UNCHANGED vars
  BY <1>10, ModesStay DEF vars
<1> QED
  BY <1>1, <1>2, <1>3, <1>4, <1>5, <1>6, <1>7, <1>8, <1>9, <1>10 DEF Next, Loop, Faults

(* A child that has been told stays told, wherever the exit has come to.   *)
ExitFor(instr, c) == instr.kind = "exit" /\ instr.dest = c

LEMMA TailOrHead ==
    ASSUME NEW S, NEW s \in Seq(S), s # <<>>, NEW x \in ToSet(s)
    PROVE  x = Head(s) \/ x \in ToSet(Tail(s))
BY WithoutFirst

LEMMA Appended ==
    ASSUME NEW S, NEW s \in Seq(S), NEW x \in S
    PROVE  ToSet(s) \subseteq ToSet(Append(s, x)) /\ x \in ToSet(Append(s, x))
<1>1. /\ Append(s, x) \in Seq(S) /\ DOMAIN Append(s, x) = 1..(Len(s) + 1)
      /\ Len(s) \in Nat /\ DOMAIN s = 1..Len(s) /\ Append(s, x)[Len(s) + 1] = x
      /\ \A i \in 1..Len(s) : Append(s, x)[i] = s[i]
  OBVIOUS
<1>2. Len(s) + 1 \in 1..(Len(s) + 1) /\ \A i \in 1..Len(s) : i \in 1..(Len(s) + 1)
  BY <1>1
<1> QED
  BY <1>1, <1>2 DEF ToSet

LEMMA ToldStays ==
    ASSUME NEW p \in Procs, NEW c \in Children(p), Moves(c), Told(p, c),
           \A x \in ToldBy(p, c) : ExitFor(x, c) =>
                \/ mode'[c] # "running"
                \/ \E y \in ToldBy(p, c)' : ExitFor(y, c)
    PROVE  Told(p, c)'
<1>1. c \in Procs
  BY DEF Children
<1> QED
  BY <1>1 DEF Told, Moves, ExitFor

LEMMA SendTells ==
    ASSUME ServerInv, NEW p \in Procs, NEW c \in Children(p), live[p][c], mode[c] = "running",
           NEW r \in Procs, Send(r), NEW x \in ToldBy(p, c), ExitFor(x, c)
    PROVE  x \in ToldBy(p, c)'
<1> DEFINE z == Head(outgoing[r])
           hop == NextHop(r, z)
<1>1. /\ UNCHANGED incoming /\ outgoing[r] # <<>>
      /\ outgoing' = [outgoing EXCEPT ![r] = Tail(@)]
      /\ channel' = IF hop # NoKey /\ live[r][hop] /\ Up(hop)
                    THEN [channel EXCEPT ![r][hop] = Append(@, z)] ELSE channel
  BY DEF Send
<1>2. /\ outgoing \in [Procs -> Seq(Instrs)] /\ channel \in [Procs -> [Procs -> Seq(Instrs)]]
      /\ c \in Procs /\ z \in Instrs /\ outgoing[r] \in Seq(Instrs)
  BY <1>1, HeadTailProperties DEF ServerInv, TreeTypeOK, Children
<1>3. ToSet(channel[p][c]) \subseteq ToSet(channel'[p][c])
  <2> HIDE DEF z, hop
  <2>1. CASE channel' = channel
    BY <2>1
  <2>2. CASE channel' = [channel EXCEPT ![r][hop] = Append(@, z)]
    <3>1. channel'[p][c] = channel[p][c] \/ channel'[p][c] = Append(channel[p][c], z)
      BY <1>2, <2>2
    <3>2. channel[p][c] \in Seq(Instrs) /\ z \in Instrs
      BY <1>2
    <3> QED
      BY <3>1, <3>2, Appended
  <2> QED
    BY <1>1, <2>1, <2>2
<1>4. CASE x \in ToSet(channel[p][c]) \cup ToSet(incoming[c])
  BY <1>1, <1>3, <1>4 DEF ToldBy
<1>5. CASE x \in ToSet(outgoing[p])
  <2>1. CASE r # p
    <3>1. outgoing'[p] = outgoing[p]
      BY <1>1, <1>2, <2>1
    <3> QED
      BY <1>5, <3>1 DEF ToldBy
  <2>2. CASE r = p /\ x \in ToSet(Tail(outgoing[p]))
    <3>1. outgoing'[p] = Tail(outgoing[p])
      BY <1>1, <1>2, <2>2
    <3> QED
      BY <2>2, <3>1 DEF ToldBy
  <2>3. CASE r = p /\ x = z
    <3>1. Has(table[p], c)
      BY <1>2 DEF ServerInv, TableInv
    <3>2. hop = c /\ c # NoKey
      BY <1>2, <2>3, <3>1, HashIs DEF NextHop, ExitFor, Procs
    <3>3. Up(c)
      BY DEF Up
    <3> HIDE DEF z, hop
    <3>4. channel' = [channel EXCEPT ![p][c] = Append(@, x)]
      BY <1>1, <2>3, <3>2, <3>3
    <3>5. channel'[p][c] = Append(channel[p][c], x)
      BY <1>2, <3>4
    <3>6. x \in ToSet(channel'[p][c])
      BY <1>2, <2>3, <3>5, Appended
    <3> QED
      BY <3>6 DEF ToldBy
  <2> QED
    BY <1>1, <1>2, <1>5, <2>1, <2>2, <2>3, TailOrHead
<1> QED
  BY <1>4, <1>5 DEF ToldBy

LEMMA RecieveTells ==
    ASSUME ServerInv, NEW p \in Procs, NEW c \in Children(p),
           NEW r \in Procs, NEW q \in Procs, Recieve(r, q), NEW x \in ToldBy(p, c), ExitFor(x, c)
    PROVE  \E y \in ToldBy(p, c)' : ExitFor(y, c)
<1> DEFINE z == Head(channel[q][r])
           moved == [z EXCEPT !.via = Append(@, r)]
<1>1. /\ UNCHANGED outgoing /\ channel[q][r] # <<>>
      /\ incoming' = [incoming EXCEPT ![r] = Append(@, moved)]
      /\ channel' = [channel EXCEPT ![q][r] = Tail(@)]
  BY DEF Recieve
<1>2. /\ incoming \in [Procs -> Seq(Instrs)] /\ channel \in [Procs -> [Procs -> Seq(Instrs)]]
      /\ c \in Procs /\ z \in Instrs /\ channel[q][r] \in Seq(Instrs)
  BY <1>1, HeadTailProperties DEF ServerInv, TreeTypeOK, Children
<1>3. moved \in Instrs /\ moved.kind = z.kind /\ moved.dest = z.dest
  <2> HIDE DEF z
  <2>1. z.via \in Seq(Procs)
    BY <1>2 DEF Instrs
  <2>2. Append(z.via, r) \in Seq(Procs)
    BY <2>1
  <2> QED
    BY <1>2, <2>2 DEF Instrs
<1> HIDE DEF moved
<1>4. ToSet(incoming[c]) \subseteq ToSet(incoming'[c])
  <2>1. incoming'[c] = incoming[c] \/ incoming'[c] = Append(incoming[c], moved)
    BY <1>1, <1>2
  <2> QED
    BY <1>2, <1>3, <2>1, Appended
<1>5. CASE x \in ToSet(outgoing[p]) \cup ToSet(incoming[c])
  BY <1>1, <1>4, <1>5 DEF ToldBy
<1>6. CASE x \in ToSet(channel[p][c])
  <2>1. CASE ~(q = p /\ r = c)
    <3>1. channel'[p][c] = channel[p][c]
      BY <1>1, <1>2, <2>1
    <3> QED
      BY <1>6, <3>1 DEF ToldBy
  <2>2. CASE q = p /\ r = c /\ x \in ToSet(Tail(channel[p][c]))
    <3>1. channel'[p][c] = Tail(channel[p][c])
      BY <1>1, <1>2, <2>2
    <3> QED
      BY <2>2, <3>1 DEF ToldBy
  <2>3. CASE q = p /\ r = c /\ x = z
    <3>1. incoming'[c] = Append(incoming[c], moved)
      BY <1>1, <1>2, <2>3
    <3>2. moved \in ToSet(incoming'[c])
      BY <1>2, <1>3, <3>1, Appended
    <3>3. ExitFor(moved, c)
      BY <1>3, <2>3 DEF ExitFor
    <3> QED
      BY <3>2, <3>3 DEF ToldBy
  <2> QED
    BY <1>1, <1>2, <1>6, <2>1, <2>2, <2>3, TailOrHead
<1> QED
  BY <1>5, <1>6 DEF ToldBy

LEMMA HandleTells ==
    ASSUME ServerInv, NEW p \in Procs, NEW c \in Children(p),
           NEW r \in Procs, Handle(r), NEW x \in ToldBy(p, c), ExitFor(x, c)
    PROVE  mode'[c] # "running" \/ x \in ToldBy(p, c)'
<1> DEFINE z == Head(incoming[r])
<1>1. /\ UNCHANGED channel /\ incoming[r] # <<>>
      /\ incoming' = [incoming EXCEPT ![r] = Tail(@)]
      /\ outgoing' = outgoing \/ outgoing' = [outgoing EXCEPT ![r] = Append(@, z)]
      /\ (z.kind = "exit" /\ z.dest = r) =>
            mode' = [mode EXCEPT ![r] = IF Len(incoming[r]) = 1 THEN "freeing" ELSE "draining"]
  BY DEF Handle
<1>2. /\ incoming \in [Procs -> Seq(Instrs)] /\ outgoing \in [Procs -> Seq(Instrs)]
      /\ mode \in [Procs -> {"running", "draining", "freeing", "sending", "gone", "crashed"}]
      /\ c \in Procs /\ z \in Instrs /\ incoming[r] \in Seq(Instrs)
  BY <1>1, HeadTailProperties DEF ServerInv, TreeTypeOK, Children
<1> HIDE DEF z
<1>3. ToSet(outgoing[p]) \subseteq ToSet(outgoing'[p])
  <2>1. outgoing'[p] = outgoing[p] \/ outgoing'[p] = Append(outgoing[p], z)
    BY <1>1, <1>2
  <2> QED
    BY <1>2, <2>1, Appended
<1>4. CASE x \in ToSet(outgoing[p]) \cup ToSet(channel[p][c])
  BY <1>1, <1>3, <1>4 DEF ToldBy
<1>5. CASE x \in ToSet(incoming[c])
  <2>1. CASE r # c
    <3>1. incoming'[c] = incoming[c]
      BY <1>1, <1>2, <2>1
    <3> QED
      BY <1>5, <3>1 DEF ToldBy
  <2>2. CASE r = c /\ x \in ToSet(Tail(incoming[c]))
    <3>1. incoming'[c] = Tail(incoming[c])
      BY <1>1, <1>2, <2>2
    <3> QED
      BY <2>2, <3>1 DEF ToldBy
  <2>3. CASE r = c /\ x = z
    BY <1>1, <1>2, <2>3 DEF ExitFor
  <2> QED
    BY <1>1, <1>2, <1>5, <2>1, <2>2, <2>3, TailOrHead DEF z
<1> QED
  BY <1>4, <1>5 DEF ToldBy

LEMMA EndsTells ==
    ASSUME ServerInv, NEW p \in Procs, NEW c \in Children(p), NEW r \in Procs, r # p,
           NEW how \in {"gone", "crashed"}, Ends(r, how), NEW x \in ToldBy(p, c)
    PROVE  mode'[c] # "running" \/ x \in ToldBy(p, c)'
<1>1. /\ mode' = [mode EXCEPT ![r] = how]
      /\ incoming' = [incoming EXCEPT ![r] = <<>>] /\ outgoing' = [outgoing EXCEPT ![r] = <<>>]
      /\ channel' = [q \in Procs |-> [channel[q] EXCEPT ![r] = <<>>]]
  BY DEF Ends
<1>2. /\ mode \in [Procs -> {"running", "draining", "freeing", "sending", "gone", "crashed"}]
      /\ incoming \in [Procs -> Seq(Instrs)] /\ outgoing \in [Procs -> Seq(Instrs)]
      /\ channel \in [Procs -> [Procs -> Seq(Instrs)]] /\ c \in Procs
  BY DEF ServerInv, TreeTypeOK, Children
<1>3. CASE r = c
  BY <1>1, <1>2, <1>3
<1>4. CASE r # c
  <2>1. incoming'[c] = incoming[c] /\ outgoing'[p] = outgoing[p] /\ channel'[p][c] = channel[p][c]
    BY <1>1, <1>2, <1>4
  <2> QED
    BY <2>1 DEF ToldBy
<1> QED
  BY <1>3, <1>4

LEMMA TellingTells ==
    ASSUME ServerInv, NEW p \in Procs, NEW c \in Children(p), NEW r \in Procs,
           UNCHANGED <<incoming, channel>>,
           outgoing' = outgoing \/ \E x \in Instrs : outgoing' = [outgoing EXCEPT ![r] = Append(@, x)]
    PROVE  ToldBy(p, c) \subseteq ToldBy(p, c)'
<1>1. outgoing \in [Procs -> Seq(Instrs)]
  BY DEF ServerInv, TreeTypeOK
<1>2. outgoing'[p] = outgoing[p] \/ \E x \in Instrs : outgoing'[p] = Append(outgoing[p], x)
  BY <1>1
<1>3. ToSet(outgoing[p]) \subseteq ToSet(outgoing'[p])
  BY <1>1, <1>2, Appended
<1> QED
  BY <1>3 DEF ToldBy

LEMMA ToldKept ==
    ASSUME ServerInv, [Next]_vars, NEW p \in Procs, NEW c \in Children(p), live[p][c],
           Leaves(mode'[p]), Told(p, c)
    PROVE  Told(p, c)'
<1>1. Moves(c) /\ Moves(p) /\ c \in Procs
  BY AllMove DEF ServerInv, Children
<1>2. CASE mode[c] # "running"
  <2>1. mode'[c] # "running"
    BY <1>1, <1>2 DEF Moves
  <2> QED
    BY <2>1 DEF Told
<1>3. ASSUME mode[c] = "running", NEW x \in ToldBy(p, c), ExitFor(x, c)
      PROVE  mode'[c] # "running" \/ \E y \in ToldBy(p, c)' : ExitFor(y, c)
  <2>1. ASSUME NEW r \in Procs, Add(r) PROVE x \in ToldBy(p, c)'
    <3>1. UNCHANGED <<incoming, channel>>
      BY <2>1 DEF Add
    <3>2. \E y \in Instrs : outgoing' = [outgoing EXCEPT ![r] = Append(@, y)]
      <4>1. PICK kind \in {"work", "exit"}, dest \in Procs \ {r} :
                outgoing' = [outgoing EXCEPT ![r] = Append(@, Instr(sends + 1, kind, r, dest))]
        BY <2>1 DEF Add
      <4>2. sends + 1 \in 0..MaxSends
        BY <2>1, DepthIs DEF Add, ServerInv, TreeTypeOK
      <4>3. Instr(sends + 1, kind, r, dest) \in Instrs
        BY <4>2, FreshIs DEF Leaving
      <4> QED
        BY <4>1, <4>3
    <3> QED
      BY <1>3, <3>1, <3>2, TellingTells
  <2>2. ASSUME NEW r \in Procs, Send(r) PROVE x \in ToldBy(p, c)'
    BY <1>3, <2>2, SendTells
  <2>3. ASSUME NEW r \in Procs, Handle(r) PROVE mode'[c] # "running" \/ x \in ToldBy(p, c)'
    BY <1>3, <2>3, HandleTells
  <2>4. ASSUME NEW r \in Procs, TellChildren(r) PROVE x \in ToldBy(p, c)'
    <3>1. UNCHANGED <<incoming, channel>>
      BY <2>4 DEF TellChildren
    <3>2. outgoing' = outgoing \/ \E y \in Instrs : outgoing' = [outgoing EXCEPT ![r] = Append(@, y)]
      <4>1. CASE outgoing' = outgoing
        BY <4>1
      <4>2. CASE outgoing' # outgoing
        <5>1. PICK k \in Children(r) : outgoing' = [outgoing EXCEPT ![r] = Append(@, Instr(0, "exit", r, k))]
          BY <2>4, <4>2 DEF TellChildren
        <5>2. k \in Procs \ {r} /\ 0 \in 0..MaxSends /\ "exit" \in {"work", "exit"}
          BY DepthIs, NeighboursAre
        <5>3. Instr(0, "exit", r, k) \in Instrs
          BY <5>2, FreshIs DEF Leaving
        <5> QED
          BY <5>1, <5>3
      <4> QED
        BY <4>1, <4>2
    <3> QED
      BY <1>3, <3>1, <3>2, TellingTells
  <2>5. ASSUME NEW r \in Procs, NEW how \in {"gone", "crashed"}, Ends(r, how)
        PROVE  mode'[c] # "running" \/ x \in ToldBy(p, c)'
    <3>1. r # p
      BY <2>5 DEF Ends, Leaves, ServerInv, TreeTypeOK
    <3> QED
      BY <1>3, <2>5, <3>1, EndsTells
  <2>6. ASSUME UNCHANGED <<incoming, outgoing, channel>> PROVE x \in ToldBy(p, c)'
    BY <1>3, <2>6 DEF ToldBy
  <2>7. ASSUME NEW r \in Procs, NEW q \in Procs, Recieve(r, q)
        PROVE  \E y \in ToldBy(p, c)' : ExitFor(y, c)
    BY <1>3, <2>7, RecieveTells
  <2>8. ASSUME NEW r \in Procs, ParentGone(r)
        PROVE  Ends(r, "crashed") \/ UNCHANGED <<incoming, outgoing, channel>>
    BY <2>8 DEF ParentGone
  <2>9. ASSUME NEW r \in Procs, Quit(r) PROVE UNCHANGED <<incoming, outgoing, channel>>
    BY <2>9 DEF Quit
  <2>10. ASSUME NEW r \in Procs, Close(r) \/ Crash(r)
         PROVE  \E how \in {"gone", "crashed"} : Ends(r, how)
    BY <2>10 DEF Close, Crash
  <2>11. CASE UNCHANGED vars
    BY <2>6, <2>11, <1>3 DEF vars
  <2>12. CASE \E r \in Procs : Close(r) \/ Crash(r) \/ ParentGone(r) \/ Quit(r)
    BY <1>3, <2>5, <2>6, <2>8, <2>9, <2>10, <2>12
  <2>13. CASE \E r \in Procs : Add(r) \/ Send(r) \/ Handle(r) \/ TellChildren(r)
    BY <1>3, <2>1, <2>2, <2>3, <2>4, <2>13
  <2>14. CASE \E r, q \in Procs : Recieve(r, q)
    BY <2>7, <2>14
  <2>15. \/ \E r \in Procs : Close(r) \/ Crash(r) \/ ParentGone(r) \/ Quit(r)
         \/ \E r \in Procs : Add(r) \/ Send(r) \/ Handle(r) \/ TellChildren(r)
         \/ \E r, q \in Procs : Recieve(r, q)
         \/ UNCHANGED vars
    BY DEF Next, Loop, Faults
  <2> QED
    BY <2>11, <2>12, <2>13, <2>14, <2>15
<1>4. CASE mode[c] = "running"
  BY <1>1, <1>3, <1>4, ToldStays
<1> QED
  BY <1>2, <1>4

(* One round of the loop over the table.                                   *)
NoChildInLastBucket == \A q \in Procs : Parent[q] # NoKey => Hash[q] # Size - 1

LEMMA RoundTells ==
    ASSUME NoChildInLastBucket, ServerInv, ServerInv', ToldInv, [Next]_vars,
           NEW p \in Procs, TellChildren(p)
    PROVE  /\ cursor'[p].entry # NoKey => cursor'[p].i = Hash[cursor'[p].entry] + 1
           /\ \A c \in Children(p) :
                \/ mode'[p] = "sending"
                \/ mode'[p] = "freeing" /\ ~Upcoming(table'[p], cursor'[p], c)
                => Told(p, c)'
<1> DEFINE here == IF cursor[p].i = 0 THEN FirstEntry(table[p]) ELSE cursor[p]
           next == NextEntry(table[p], here)
<1>1. /\ table[p] \in Tables /\ Hashed(table[p]) /\ Points(table[p], cursor[p])
      /\ cursor \in [Procs -> [entry : Procs \cup {NoKey}, i : 0..Size]]
      /\ mode \in [Procs -> {"running", "draining", "freeing", "sending", "gone", "crashed"}]
      /\ outgoing \in [Procs -> Seq(Instrs)]
      /\ \A c \in Children(p) : c \in Procs /\ c \in Keys /\ Has(table[p], c)
  BY DEF ServerInv, TreeTypeOK, TableInv, CursorInv, Tables, Procs, Children
<1>2. mode[p] = "freeing" /\ table' = table /\ UNCHANGED <<live, channel, incoming, listening>>
  BY DEF TellChildren
<1>3. /\ Points(table[p], here) /\ here.i # 0
      /\ here.entry # NoKey => here.i = Hash[here.entry] + 1
      /\ \A c \in Children(p) : Upcoming(table[p], here, c) \/ Told(p, c)
  <2>1. CASE cursor[p].i = 0
    <3>1. here = Scan(table[p], 0)
      BY <2>1 DEF FirstEntry
    <3>2. /\ here.i # 0
          /\ here.entry # NoKey => here.i = Hash[here.entry] + 1
          /\ \A c \in Keys : Has(table[p], c) /\ Hash[c] >= 0 => Upcoming(table[p], here, c)
          /\ Points(table[p], here)
      <4> HIDE DEF here
      <4> QED
        BY <1>1, <3>1, ScanFinds, ScanIs
    <3> HIDE DEF here
    <3>3. ASSUME NEW c \in Children(p) PROVE Upcoming(table[p], here, c)
      <4>1. c \in Keys /\ Has(table[p], c) /\ Hash[c] >= 0
        BY <1>1, HashIs
      <4> QED
        BY <3>2, <4>1
    <3> QED
      BY <3>2, <3>3
  <2>2. CASE cursor[p].i # 0
    <3>1. here = cursor[p]
      BY <2>2
    <3>2. \A c \in Children(p) : ~Upcoming(table[p], cursor[p], c) => Told(p, c)
      BY <1>2 DEF ToldInv
    <3>3. cursor[p].entry # NoKey => cursor[p].i = Hash[cursor[p].entry] + 1
      BY DEF ToldInv
    <3> QED
      BY <1>1, <2>2, <3>1, <3>2, <3>3
  <2> QED
    BY <2>1, <2>2
<1>4. CASE InLoop(here)
  <2>1. /\ outgoing' = IF here.entry \in Children(p)
                       THEN [outgoing EXCEPT ![p] = Append(@, Instr(0, "exit", p, here.entry))]
                       ELSE outgoing
        /\ cursor' = [cursor EXCEPT ![p] = next]
        /\ UNCHANGED mode
    BY <1>4 DEF TellChildren
  <2> HIDE DEF here
  <2>2. here \in Cursors /\ here.entry # NoKey /\ Has(table[p], here.entry)
    BY <1>3, <1>4 DEF InLoop, Points
  <2>3. /\ next.i # 0
        /\ next.entry # NoKey => next.i = Hash[next.entry] + 1
        /\ \A c \in Keys : Has(table[p], c) /\ Upcoming(table[p], here, c)
                => c = here.entry \/ Upcoming(table[p], next, c)
    BY <1>1, <1>3, <2>2, NextFinds
  <2> HIDE DEF next
  <2>4. cursor'[p] = next /\ mode'[p] = "freeing"
    BY <1>1, <1>2, <2>1
  <2>5. ASSUME NEW c \in Children(p), ~Upcoming(table[p], next, c) PROVE Told(p, c)'
    <3>1. CASE Told(p, c)
      <4>1. live[p][c] /\ Leaves(mode'[p])
        BY <2>4 DEF ToldInv, Leaves
      <4> QED
        BY <3>1, <4>1, ToldKept
    <3>2. CASE c = here.entry
      <4> DEFINE x == Instr(0, "exit", p, c)
      <4>1. x.kind = "exit" /\ x.dest = c
        BY DEF Instr
      <4>2. x \in Instrs
        <5>1. c \in Procs \ {p} /\ 0 \in 0..MaxSends /\ "exit" \in {"work", "exit"}
          BY DepthIs, NeighboursAre
        <5> QED
          BY <5>1, FreshIs DEF Leaving
      <4> HIDE DEF x
      <4>3. outgoing'[p] = Append(outgoing[p], x)
        BY <1>1, <2>1, <3>2 DEF x
      <4>4. x \in ToSet(outgoing'[p])
        BY <1>1, <4>2, <4>3, Appended
      <4> QED
        BY <4>1, <4>4 DEF Told, ToldBy
    <3> QED
      BY <1>1, <1>3, <2>3, <2>5, <3>1, <3>2
  <2>6. ASSUME NEW c \in Children(p),
               \/ mode'[p] = "sending"
               \/ mode'[p] = "freeing" /\ ~Upcoming(table'[p], cursor'[p], c)
        PROVE  Told(p, c)'
    <3>1. table'[p] = table[p]
      BY <1>2
    <3>2. ~Upcoming(table[p], next, c)
      BY <2>4, <2>6, <3>1
    <3> QED
      BY <2>5, <3>2
  <2> QED
    BY <2>3, <2>4, <2>6
<1>5. CASE ~InLoop(here)
  <2>1. mode' = [mode EXCEPT ![p] = "sending"] /\ UNCHANGED <<outgoing, cursor>>
    BY <1>5 DEF TellChildren
  <2> HIDE DEF here
  <2>2. mode'[p] = "sending" /\ cursor'[p] = cursor[p]
    BY <1>1, <2>1
  <2>3. ASSUME NEW c \in Children(p) PROVE ~Upcoming(table[p], here, c)
    <3>1. CASE here.entry = NoKey
      BY <1>3, <3>1 DEF Upcoming
    <3>2. CASE here.entry # NoKey /\ ~(here.i < Size)
      <4>1. here.entry \in Keys /\ here.i \in Nat /\ here.i = Size
        BY <1>3, <3>2, HashIs DEF Points, Cursors
      <4>2. c \in Keys /\ Parent[c] # NoKey
        BY <1>1, HashIs DEF Children, Procs
      <4>3. Hash[c] \in Nat /\ Hash[c] < Size /\ Hash[c] # Size - 1
        BY <4>2, HashIs DEF NoChildInLastBucket, Procs
      <4> QED
        BY <1>3, <4>1, <4>3, HashIs DEF Upcoming
    <3> QED
      BY <1>5, <3>1, <3>2 DEF InLoop
  <2>4. ASSUME NEW c \in Children(p) PROVE Told(p, c)'
    <3>1. live[p][c] /\ Leaves(mode'[p])
      BY <2>2 DEF ToldInv, Leaves
    <3> QED
      BY <1>3, <2>3, <3>1, ToldKept
  <2>5. cursor[p].entry # NoKey => cursor[p].i = Hash[cursor[p].entry] + 1
    BY DEF ToldInv
  <2> QED
    BY <2>2, <2>4, <2>5
<1> QED
  BY <1>4, <1>5

LEMMA ToldInit == Init => ToldInv
<1> SUFFICES ASSUME Init, NEW p \in Procs
             PROVE  /\ mode[p] = "running" /\ cursor[p].i = 0 /\ cursor[p].entry = NoKey
                    /\ \A c \in Children(p) : live[p][c]
  BY DEF ToldInv
<1>1. ASSUME NEW c \in Children(p) PROVE live[p][c]
  <2>1. c \in Procs /\ c \in Neighbours(p)
    BY NeighboursAre DEF Children
  <2> QED
    BY <2>1 DEF Init
<1> QED
  BY <1>1 DEF Init

LEMMA ToldNext ==
    ASSUME NoChildInLastBucket
    PROVE  ServerInv /\ ServerInv' /\ ToldInv /\ [Next]_vars => ToldInv'
<1> SUFFICES ASSUME ServerInv, ServerInv', ToldInv, [Next]_vars, NEW p \in Procs
             PROVE  /\ mode'[p] \in {"running", "draining"} => cursor'[p].i = 0
                    /\ cursor'[p].entry # NoKey => cursor'[p].i = Hash[cursor'[p].entry] + 1
                    /\ \A c \in Children(p) :
                        /\ live'[p][c]
                        /\ \/ mode'[p] = "sending"
                           \/ mode'[p] = "freeing" /\ ~Upcoming(table'[p], cursor'[p], c)
                           => Told(p, c)'
  BY DEF ToldInv
<1>1. Moves(p)
  BY AllMove DEF ServerInv
<1>2. mode'[p] \in {"running", "draining"} => cursor'[p].i = 0
  BY <1>1 DEF Moves, InMainLoop, ToldInv
<1>3. \A c \in Children(p) : live'[p][c]
  BY <1>1 DEF Moves, ToldInv
<1>4. CASE TellChildren(p)
  BY <1>2, <1>3, <1>4, RoundTells
<1>5. CASE ~TellChildren(p)
  <2>1. cursor'[p].entry # NoKey => cursor'[p].i = Hash[cursor'[p].entry] + 1
    BY <1>1, <1>5 DEF Moves, ToldInv
  <2>2. ASSUME NEW c \in Children(p),
               \/ mode'[p] = "sending"
               \/ mode'[p] = "freeing" /\ ~Upcoming(table'[p], cursor'[p], c)
        PROVE  Told(p, c)'
    <3>1. Leaves(mode'[p])
      BY <2>2 DEF Leaves
    <3>2. CASE InMainLoop(mode[p])
      <4>1. cursor'[p].i = 0 /\ mode'[p] # "sending"
        BY <1>1, <3>2 DEF Moves, ToldInv, InMainLoop
      <4> QED
        BY <2>2, <4>1 DEF Upcoming
    <3>3. CASE Leaves(mode[p])
      <4>1. mode'[p] = mode[p] /\ table'[p] = table[p] /\ cursor'[p] = cursor[p]
        BY <1>1, <1>5, <3>1, <3>3 DEF Moves
      <4>2. Told(p, c) /\ live[p][c]
        BY <2>2, <4>1 DEF ToldInv
      <4> QED
        BY <3>1, <4>2, ToldKept
    <3> QED
      BY <1>1, <3>1, <3>2, <3>3 DEF Moves
  <2> QED
    BY <1>2, <1>3, <2>1, <2>2
<1> QED
  BY <1>4, <1>5

(* A server that is freed has told every child by the time it is closed,   *)
(* if no child's name is in the last bucket of the hash table, which the   *)
(* loop of wimp_server_free (wimp_server.c 450-460) does not look at.      *)
THEOREM ChildrenTold ==
    ASSUME NoChildInLastBucket PROVE Spec => ChildrenToldToExit
<1>1. Spec => []ToldInv
  <2>1. ServerInv /\ ServerInv' /\ ToldInv /\ [Next]_vars => ToldInv'
    BY ToldNext
  <2> QED
    BY <2>1, ToldInit, ServerInvariant, PTL DEF Spec
<1>2. ServerInv /\ ToldInv /\ [Next]_vars =>
        [\A p \in Procs : mode[p] = "sending" /\ mode'[p] = "gone" =>
            \A c \in Children(p) :
                \/ mode[c] # "running"
                \/ ~listening[c][p]
                \/ \E instr \in ToSet(channel[p][c]) \cup ToSet(incoming[c]) :
                      instr.kind = "exit" /\ instr.dest = c]_vars
  <2> SUFFICES ASSUME ServerInv, ToldInv, [Next]_vars, NEW p \in Procs,
                      mode[p] = "sending", mode'[p] = "gone", NEW c \in Children(p),
                      mode[c] = "running", listening[c][p]
               PROVE  \E instr \in ToSet(channel[p][c]) \cup ToSet(incoming[c]) :
                          instr.kind = "exit" /\ instr.dest = c
    OBVIOUS
  <2>1. outgoing[p] = <<>>
    BY AllMove DEF Moves, ServerInv
  <2>2. ToSet(outgoing[p]) = {}
    BY <2>1 DEF ToSet
  <2>3. Told(p, c)
    BY DEF ToldInv
  <2> QED
    BY <2>2, <2>3 DEF Told, ToldBy
<1> QED
  BY <1>1, <1>2, ServerInvariant, PTL DEF Spec, ChildrenToldToExit
================================================================================
