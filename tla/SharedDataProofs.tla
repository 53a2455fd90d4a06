--------------------------- MODULE SharedDataProofs ---------------------------
(***************************************************************************)
(* The shared data space, for any number of processes, names, slots and    *)
(* reservations: the invariants of SharedData.                             *)
(***************************************************************************)
EXTENDS SharedData, FiniteSetTheorems, TLAPS

(* What a process that has a slot's segment open relies on: the slot stays *)
(* in use under the one name, the only slot of that name, whatever         *)
(* segment the name is given later.                                        *)
SlotsInv ==
    /\ \A s \in Slots : share_counter[s] # 0 =>
        /\ name[s] \in Names
        /\ segment[name[s]] # NoSeg
        /\ segment[name[s]].name = name[s]
        /\ segment[name[s]].gen <= reserves
    /\ \A s, t \in Slots :
        share_counter[s] # 0 /\ share_counter[t] # 0 /\ name[s] = name[t] => s = t

(* The private caches: nothing in them after unlinking, and a remembered   *)
(* slot is in use under the name it is remembered for, and open unless the *)
(* segment has been missed.                                                *)
CachesInv ==
    /\ \A p \in Procs : ~linked[p] =>
        /\ \A s \in Slots : cache[p][s] = NoSeg
        /\ \A n \in Names : cachemap[p][n] = Outside
    /\ \A p \in Procs, n \in Names :
        cachemap[p][n] # Outside =>
            /\ cache[p][cachemap[p][n]] # NoSeg \/ segment[n] \in missed
            /\ name[cachemap[p][n]] = n

LinkInv ==
    /\ DataTypeOK
    /\ SlotsInv
    /\ CachesInv
    /\ CounterCoversLinks
    /\ EveryoneSharesOneSegment

(* An access is linked to its slot, and inside it has the lock of the      *)
(* segment, which no other access has, if it has the segment open.         *)
AccessInv ==
    /\ \A p \in Procs : at[p] # "outside" =>
        /\ linked[p]
        /\ using[p] \in Slots
        /\ \E n \in Names : cachemap[p][n] = using[p]
    /\ \A p \in Procs :
        at[p] = "inside" /\ cache[p][using[p]] # NoSeg => cache[p][using[p]] \in locked
    /\ \A p, q \in Procs :
        /\ at[p] = "inside" /\ at[q] = "inside"
        /\ cache[p][using[p]] = cache[q][using[q]] /\ cache[p][using[p]] # NoSeg
        => p = q

(* The arena's pointer has passed everything handed out in a segment.      *)
Passed(seg, pointer) ==
    \A a \in allocated : a.seg = seg => a.start + a.bytes <= pointer

(* The arena of a segment that nobody missed is in the hands of the one    *)
(* access that is inside or else in the table.                             *)
ArenaInv ==
    /\ IsFiniteSet(allocated)
    /\ \A a \in allocated : a.seg.gen <= reserves
    /\ \A p \in Procs : at[p] = "inside" =>
        /\ WithinCapacity(arena[p])
        /\ \/ SegmentAt(using[p]) \in missed
           \/ Passed(SegmentAt(using[p]), arena[p].pointer)
    /\ \A s \in Slots : share_counter[s] # 0 =>
        \/ SegmentAt(s) \in missed
        \/ Passed(SegmentAt(s), data_arena[s].pointer)
        \/ \E p \in Procs : at[p] = "inside" /\ using[p] = s

DataInv == LinkInv /\ AccessInv /\ ArenaInv /\ AllocationsDisjoint
-----------------------------------------------------------------------------
LEMMA LinkersFinite ==
    ASSUME NEW S \in SUBSET Procs
    PROVE  IsFiniteSet(S) /\ Cardinality(S) \in Nat
BY DataAssumption, FS_Subset, FS_CardinalityType

(* A slot that somebody is linked to is in use, under that name.           *)
LEMMA LinkedSlot ==
    ASSUME LinkInv, NEW p \in Procs, NEW n \in Names, NEW s \in Slots, cachemap[p][n] = s
    PROVE  /\ share_counter[s] \in Nat \ {0}
           /\ name[s] = n
           /\ segment[n] \in Segments /\ segment[n] # NoSeg
           /\ SegmentAt(s) = segment[n]
           /\ s \in SlotsOf(n)
           /\ cache[p][s] = segment[n] \/ (cache[p][s] = NoSeg /\ segment[n] \in missed)
<1>1. Linkers(s) # {} /\ Linkers(s) \in SUBSET Procs
  BY DEF Linkers
<1>2. Cardinality(Linkers(s)) \in Nat \ {0}
  BY <1>1, LinkersFinite, FS_EmptySet
<1>3. share_counter[s] \in Nat \ {0}
  BY <1>2 DEF LinkInv, CounterCoversLinks, DataTypeOK
<1>4. name[s] = n
  BY DEF LinkInv, CachesInv, Slots, Outside
<1>5. segment[n] \in Segments /\ segment[n] # NoSeg
  BY <1>3, <1>4 DEF LinkInv, SlotsInv, DataTypeOK
<1>6. cache[p][s] = segment[n] \/ (cache[p][s] = NoSeg /\ segment[n] \in missed)
  BY <1>4 DEF LinkInv, CachesInv, EveryoneSharesOneSegment, Slots, Outside
<1> QED
  BY <1>3, <1>4, <1>5, <1>6 DEF SlotsOf, SegmentAt

(* A slot that somebody has open is in use, under the name of the segment. *)
LEMMA HeldSlot ==
    ASSUME LinkInv, NEW p \in Procs, NEW s \in Slots, cache[p][s] # NoSeg
    PROVE  /\ share_counter[s] \in Nat \ {0}
           /\ name[s] \in Names
           /\ cachemap[p][name[s]] = s
           /\ cache[p][s] = segment[name[s]]
           /\ cache[p][s] \in Segments
           /\ s \in SlotsOf(name[s])
<1>1. cache[p][s] \in Segments
  BY DEF LinkInv, DataTypeOK
<1>2. name[s] \in Names /\ cachemap[p][name[s]] = s /\ cache[p][s] = segment[name[s]]
  BY <1>1 DEF LinkInv, EveryoneSharesOneSegment, Segments
<1> QED
  BY <1>1, <1>2, LinkedSlot

LEMMA LastLinker ==
    ASSUME LinkInv, NEW s \in Slots, share_counter[s] = 1,
           NEW p \in Linkers(s), NEW q \in Linkers(s)
    PROVE  p = q
<1>1. Linkers(s) \in SUBSET Procs
  BY DEF Linkers
<1>2. Cardinality(Linkers(s)) <= 1
  BY DEF LinkInv, CounterCoversLinks
<1>3. /\ IsFiniteSet(Linkers(s))
      /\ Cardinality(Linkers(s)) \in Nat
      /\ Cardinality(Linkers(s) \ {p}) \in Nat
      /\ Cardinality(Linkers(s) \ {p}) = Cardinality(Linkers(s)) - 1
  BY <1>1, LinkersFinite, FS_RemoveElement
<1>4. Linkers(s) \ {p} = {}
  BY <1>1, <1>2, <1>3, LinkersFinite, FS_EmptySet
<1> QED
  BY <1>4

(* Where fewer are linked and the counter is the same, it still counts     *)
(* them all.                                                               *)
LEMMA StillCovers ==
    ASSUME LinkInv, NEW s \in Slots,
           share_counter'[s] = share_counter[s],
           Linkers(s)' \subseteq Linkers(s)
    PROVE  share_counter'[s] >= Cardinality(Linkers(s)')
<1>1. Linkers(s) \in SUBSET Procs /\ Linkers(s)' \in SUBSET Procs
  BY DEF Linkers
<1>2. Cardinality(Linkers(s)') <= Cardinality(Linkers(s))
  BY <1>1, LinkersFinite, FS_Subset
<1>3. share_counter[s] >= Cardinality(Linkers(s)) /\ share_counter[s] \in Nat
  BY DEF LinkInv, CounterCoversLinks, DataTypeOK
<1> QED
  BY <1>1, <1>2, <1>3, LinkersFinite

LEMMA DataInitInv == Init => DataInv
<1> SUFFICES ASSUME Init PROVE DataInv
  OBVIOUS
<1> USE DataAssumption DEF Init
<1>1. DataTypeOK
  <2>1. NoArena \in Arenas /\ WithinCapacity(NoArena)
    BY DEF Arenas, NoArena, WithinCapacity
  <2>2. data_arena \in [Slots -> Arenas] /\ \A s \in Slots : WithinCapacity(data_arena[s])
    BY <2>1
  <2>3. linked \in [Procs -> BOOLEAN] /\ arena \in [Procs -> Arenas]
    BY <2>1
  <2>4. stuck \in BOOLEAN /\ refused \in [Procs -> Requests \cup {0}]
    OBVIOUS
  <2>5. /\ share_counter \in [Slots -> Nat] /\ size \in [Slots -> Nat]
        /\ name \in [Slots -> Names \cup {NoName}]
        /\ segment \in [Names -> Segments \cup {NoSeg}]
    OBVIOUS
  <2>6. /\ cache \in [Procs -> [Slots -> Segments \cup {NoSeg}]]
        /\ cachemap \in [Procs -> [Names -> Slots \cup {Outside}]]
        /\ at \in [Procs -> {"outside", "waiting", "inside"}]
        /\ using \in [Procs -> Slots \cup {Outside}]
    OBVIOUS
  <2>7. /\ locked \subseteq Segments /\ missed \subseteq Segments /\ reserves \in 0..MaxReserves
        /\ allocated \subseteq [seg : Segments, start : Nat, bytes : Requests, nth : Nat]
    OBVIOUS
  <2> HIDE DEF Init
  <2> QED
    BY <2>2, <2>3, <2>4, <2>5, <2>6, <2>7 DEF DataTypeOK
<1>2. CounterCoversLinks
  <2>1. \A s \in Slots : Linkers(s) = {} /\ share_counter[s] = 0
    BY DEF Linkers, Slots, Outside
  <2> HIDE DEF Init
  <2>2. \A s \in Slots : share_counter[s] >= Cardinality(Linkers(s))
    BY <2>1, FS_EmptySet
  <2> QED
    BY <2>2 DEF CounterCoversLinks
<1>3. LinkInv
  BY <1>1, <1>2 DEF LinkInv, SlotsInv, CachesInv, EveryoneSharesOneSegment
<1>4. AccessInv
  BY DEF AccessInv
<1>5. ArenaInv
  BY FS_EmptySet DEF ArenaInv
<1>6. AllocationsDisjoint
  BY DEF AllocationsDisjoint
<1> QED
  BY <1>3, <1>4, <1>5, <1>6 DEF DataInv

-----------------------------------------------------------------------------
(* Linking to the table and unlinking from it leave the caches empty.      *)
LEMMA EmptyCachesInv ==
    ASSUME LinkInv, NEW p \in Procs, LinkToProcess(p) \/ UnlinkFromProcess(p)
    PROVE  LinkInv'
<1> DEFINE l == linked'[p]
<1>0. /\ UNCHANGED <<tableVars, accessVars, faultVars, segment, reserves>>
      /\ l \in BOOLEAN
      /\ linked' = [linked EXCEPT ![p] = l]
      /\ cache' = [cache EXCEPT ![p] = [s \in Slots |-> NoSeg]]
      /\ cachemap' = [cachemap EXCEPT ![p] = [n \in Names |-> Outside]]
  BY DEF LinkToProcess, UnlinkFromProcess, LinkInv, DataTypeOK
<1> HIDE DEF l
<1> USE <1>0 DEF tableVars, accessVars, faultVars
<1>1. DataTypeOK'
  BY DEF LinkInv, DataTypeOK, Outside
<1>2. \A s \in Slots : cache'[p][s] = NoSeg
  BY DEF LinkInv, DataTypeOK
<1>3. \A q \in Procs \ {p} : cache'[q] = cache[q] /\ cachemap'[q] = cachemap[q]
  BY DEF LinkInv, DataTypeOK
<1>4. \A n \in Names : cachemap'[p][n] = Outside
  BY DEF LinkInv, DataTypeOK
<1>5. SlotsInv'
  BY DEF LinkInv, SlotsInv
<1>6. CachesInv'
  BY <1>2, <1>3, <1>4 DEF LinkInv, DataTypeOK, CachesInv
<1>7. CounterCoversLinks'
  <2>1. \A s \in Slots : Linkers(s)' \subseteq Linkers(s)
    BY <1>3, <1>4 DEF Linkers, Slots, Outside
  <2> QED
    BY <2>1, StillCovers DEF CounterCoversLinks
<1>8. EveryoneSharesOneSegment'
  BY <1>2, <1>3 DEF LinkInv, EveryoneSharesOneSegment
<1> QED
  BY <1>1, <1>5, <1>6, <1>7, <1>8 DEF LinkInv

(* An arena of no capacity has handed nothing out; any other stays as it is. *)
LEMMA ArenaInitType ==
    ASSUME NEW a \in Arenas, WithinCapacity(a), NEW capacity \in Nat
    PROVE  ArenaInit(a, capacity) \in Arenas /\ WithinCapacity(ArenaInit(a, capacity))
<1>1. CASE a.capacity # 0
  BY <1>1 DEF ArenaInit
<1>2. CASE a.capacity = 0
  <2>1. a.pointer = 0
    BY <1>2 DEF Arenas, WithinCapacity
  <2>2. ArenaInit(a, capacity) = [a EXCEPT !.capacity = capacity]
    BY <1>2 DEF ArenaInit
  <2> QED
    BY <2>1, <2>2 DEF Arenas, WithinCapacity
<1> QED
  BY <1>1, <1>2

LEMMA ReserveInv ==
    ASSUME LinkInv, NEW p \in Procs, NEW n \in Names, NEW bytes \in Sizes, Reserve(p, n, bytes)
    PROVE  LinkInv'
<1> DEFINE seg == [name |-> n, gen |-> reserves + 1, size |-> bytes]
<1>1. PICK s \in First(FreeSlots) :
        /\ name' = [name EXCEPT ![s] = n]
        /\ segment' = [segment EXCEPT ![n] = seg]
        /\ data_arena' = [data_arena EXCEPT ![s] = ArenaInit(@, bytes)]
        /\ cache' = [cache EXCEPT ![p][s] = seg]
        /\ cachemap' = [cachemap EXCEPT ![p][n] = s]
        /\ share_counter' = [share_counter EXCEPT ![s] = @ + 1]
        /\ size' = [size EXCEPT ![s] = bytes]
  BY DEF Reserve
<1>2. s \in Slots /\ share_counter[s] = 0
  BY DEF First, FreeSlots
<1>3. /\ UNCHANGED <<linked, accessVars, faultVars>>
      /\ Idle(p)
      /\ SlotsOf(n) = {}
      /\ reserves < MaxReserves /\ reserves' = reserves + 1
  BY DEF Reserve, AtTable
<1>4. seg \in Segments /\ seg.name = n /\ seg # NoSeg
  BY <1>3, DataAssumption, NoSegAssumption DEF Segments, LinkInv, DataTypeOK
<1>5. \A q \in Procs : cache[q][s] = NoSeg /\ \A m \in Names : cachemap[q][m] # s
  BY <1>2, HeldSlot, LinkedSlot
<1> HIDE DEF seg
<1>6. DataTypeOK'
  <2>1. ArenaInit(data_arena[s], bytes) \in Arenas /\ WithinCapacity(ArenaInit(data_arena[s], bytes))
    BY <1>2, ArenaInitType, DataAssumption DEF LinkInv, DataTypeOK
  <2> QED
    BY <1>1, <1>2, <1>3, <1>4, <2>1, DataAssumption DEF LinkInv, DataTypeOK, accessVars, faultVars
<1>7. \A q \in Procs, t \in Slots :
        cache'[q][t] = IF q = p /\ t = s THEN seg ELSE cache[q][t]
  BY <1>1, <1>2 DEF LinkInv, DataTypeOK
<1>8. \A q \in Procs, m \in Names :
        cachemap'[q][m] = IF q = p /\ m = n THEN s ELSE cachemap[q][m]
  BY <1>1, <1>2 DEF LinkInv, DataTypeOK
<1>9. \A t \in Slots : t # s =>
        /\ share_counter'[t] = share_counter[t]
        /\ name'[t] = name[t]
        /\ share_counter[t] # 0 => name[t] # n /\ segment'[name[t]] = segment[name[t]]
  BY <1>1, <1>2, <1>3 DEF LinkInv, DataTypeOK, SlotsInv, SlotsOf
<1>10. share_counter'[s] = 1 /\ name'[s] = n /\ segment'[n] = seg
  BY <1>1, <1>2 DEF LinkInv, DataTypeOK
<1>11. SlotsInv'
  <2>1. seg.gen = reserves' /\ reserves \in Nat /\ reserves' \in Nat /\ reserves <= reserves'
    BY <1>3, DataAssumption DEF seg, LinkInv, DataTypeOK
  <2>2. ASSUME NEW t \in Slots, share_counter'[t] # 0
        PROVE  /\ name'[t] \in Names
               /\ segment'[name'[t]] # NoSeg
               /\ segment'[name'[t]].name = name'[t]
               /\ segment'[name'[t]].gen <= reserves'
    <3>1. CASE t = s
      BY <1>4, <1>10, <2>1, <3>1
    <3>2. CASE t # s
      <4>1. segment[name[t]] \in Segments /\ segment[name[t]].gen \in Nat /\ segment[name[t]].gen <= reserves
        BY <1>9, <2>2, <3>2 DEF LinkInv, SlotsInv, DataTypeOK, Segments
      <4> QED
        BY <1>9, <2>1, <2>2, <3>2, <4>1 DEF LinkInv, SlotsInv
    <3> QED
      BY <3>1, <3>2
  <2>3. \A t, u \in Slots :
          share_counter'[t] # 0 /\ share_counter'[u] # 0 /\ name'[t] = name'[u] => t = u
    BY <1>9, <1>10 DEF LinkInv, SlotsInv
  <2> QED
    BY <2>2, <2>3 DEF SlotsInv
<1>12. CachesInv'
  <2>1. ASSUME NEW q \in Procs, ~linked'[q]
        PROVE  /\ \A t \in Slots : cache'[q][t] = NoSeg
               /\ \A m \in Names : cachemap'[q][m] = Outside
    BY <1>3, <1>7, <1>8, <2>1 DEF LinkInv, CachesInv, Idle
  <2>2. ASSUME NEW q \in Procs, NEW m \in Names, cachemap'[q][m] # Outside
        PROVE  /\ cache'[q][cachemap'[q][m]] # NoSeg \/ segment'[m] \in missed'
               /\ name'[cachemap'[q][m]] = m
    <3>1. CASE q = p /\ m = n
      BY <1>2, <1>4, <1>7, <1>8, <1>10, <3>1
    <3>2. CASE ~(q = p /\ m = n)
      <4>1. cachemap'[q][m] = cachemap[q][m] /\ cachemap[q][m] \in Slots
        BY <1>8, <2>2, <3>2 DEF LinkInv, DataTypeOK
      <4>2. /\ cache[q][cachemap[q][m]] # NoSeg \/ segment[m] \in missed
            /\ name[cachemap[q][m]] = m /\ share_counter[cachemap[q][m]] # 0
        BY <2>2, <4>1, LinkedSlot DEF LinkInv, CachesInv
      <4>3. cachemap[q][m] # s
        BY <1>2, <4>2
      <4>4. name'[cachemap[q][m]] = m /\ segment'[m] = segment[m]
        BY <1>9, <4>1, <4>2, <4>3
      <4> QED
        BY <1>3, <1>7, <4>1, <4>2, <4>3, <4>4 DEF faultVars
    <3> QED
      BY <3>1, <3>2
  <2> QED
    BY <2>1, <2>2 DEF CachesInv
<1>13. CounterCoversLinks'
  <2>1. Linkers(s)' = {p}
    BY <1>5, <1>8 DEF Linkers
  <2>2. share_counter'[s] >= Cardinality(Linkers(s)')
    BY <1>10, <2>1, FS_Singleton
  <2>3. \A t \in Slots : t # s => Linkers(t)' \subseteq Linkers(t)
    BY <1>8 DEF Linkers
  <2>4. \A t \in Slots : share_counter'[t] >= Cardinality(Linkers(t)')
    BY <1>9, <2>2, <2>3, StillCovers
  <2> QED
    BY <2>4 DEF CounterCoversLinks
<1>14. EveryoneSharesOneSegment'
  <2> SUFFICES ASSUME NEW q \in Procs, NEW t \in Slots, cache'[q][t] # NoSeg
               PROVE  /\ name'[t] = cache'[q][t].name
                      /\ segment'[name'[t]] = cache'[q][t]
                      /\ cachemap'[q][name'[t]] = t
    BY DEF EveryoneSharesOneSegment
  <2>1. CASE t = s
    BY <1>2, <1>4, <1>5, <1>7, <1>8, <1>10, <2>1
  <2>2. CASE t # s
    <3>1. cache'[q][t] = cache[q][t] /\ cache[q][t] # NoSeg
      BY <1>7, <2>2
    <3>2. share_counter[t] # 0 /\ name[t] \in Names
      BY <3>1, HeldSlot
    <3> QED
      BY <1>8, <1>9, <2>2, <3>1, <3>2 DEF LinkInv, EveryoneSharesOneSegment
  <2> QED
    BY <2>1, <2>2
<1> QED
  BY <1>6, <1>11, <1>12, <1>13, <1>14 DEF LinkInv

LEMMA ReserveFailsInv ==
    ASSUME LinkInv, NEW p \in Procs, NEW n \in Names, ReserveFails(p, n)
    PROVE  LinkInv'
<1>1. PICK s \in First(FreeSlots) : name' = [name EXCEPT ![s] = n]
  BY DEF ReserveFails
<1>2. s \in Slots /\ share_counter[s] = 0
  BY DEF First, FreeSlots
<1>3. /\ segment' = [segment EXCEPT ![n] = NoSeg]
      /\ SlotsOf(n) = {}
      /\ UNCHANGED <<share_counter, size, data_arena, localVars, accessVars, faultVars, reserves>>
  BY DEF ReserveFails
<1>5. DataTypeOK'
  BY <1>1, <1>2, <1>3 DEF LinkInv, DataTypeOK, localVars, accessVars, faultVars
<1>6. \A t \in Slots : share_counter[t] # 0 =>
        /\ name'[t] = name[t]
        /\ segment'[name[t]] = segment[name[t]]
  BY <1>1, <1>2, <1>3 DEF LinkInv, DataTypeOK, SlotsInv, SlotsOf
<1>7. SlotsInv'
  BY <1>3, <1>6 DEF LinkInv, SlotsInv
<1>8. CachesInv'
  <2>1. ASSUME NEW q \in Procs, NEW m \in Names, cachemap[q][m] # Outside
        PROVE  /\ cachemap[q][m] \in Slots
               /\ name'[cachemap[q][m]] = m /\ segment'[m] = segment[m]
    BY <1>6, <2>1, LinkedSlot DEF LinkInv, DataTypeOK
  <2> QED
    BY <1>3, <2>1 DEF LinkInv, CachesInv, localVars, faultVars
<1>9. CounterCoversLinks'
  BY <1>3 DEF LinkInv, CounterCoversLinks, Linkers, localVars
<1>10. EveryoneSharesOneSegment'
  <2>1. \A q \in Procs, t \in Slots : cache[q][t] # NoSeg => share_counter[t] # 0
    BY HeldSlot
  <2> QED
    BY <1>3, <1>6, <2>1 DEF LinkInv, EveryoneSharesOneSegment, localVars
<1> QED
  BY <1>5, <1>7, <1>8, <1>9, <1>10 DEF LinkInv

LEMMA LinkToDataInv ==
    ASSUME LinkInv, NEW p \in Procs, NEW n \in Names,
           LinkToData(p, n) \/ LinkToDataUnopened(p, n)
    PROVE  LinkInv'
<1>1. PICK s \in First(SlotsOf(n)) :
        /\ cache[p][s] = NoSeg
        /\ cache' = [cache EXCEPT ![p][s] = segment[n]] \/ (cache' = cache /\ segment[n] \in missed')
        /\ share_counter' = [share_counter EXCEPT ![s] = @ + 1]
        /\ cachemap' = [cachemap EXCEPT ![p][n] = s]
  BY DEF LinkToData, LinkToDataUnopened
<1>2. s \in Slots /\ share_counter[s] \in Nat \ {0} /\ name[s] = n
  BY DEF First, SlotsOf, LinkInv, DataTypeOK
<1>3. Idle(p) /\ UNCHANGED <<size, name, data_arena, linked, accessVars, stuck, segment, reserves>>
  BY DEF LinkToData, LinkToDataUnopened, AtTable, faultVars
<1>4. segment[n] \in Segments /\ segment[n] # NoSeg /\ segment[n].name = n
  BY <1>2 DEF LinkInv, DataTypeOK, SlotsInv
<1>m. missed' = missed \/ missed' = missed \cup {segment[n]}
  BY DEF LinkToData, LinkToDataUnopened, faultVars
<1>5. DataTypeOK'
  <2>1. cache' \in [Procs -> [Slots -> Segments \cup {NoSeg}]]
    <3>1. cache \in [Procs -> [Slots -> Segments \cup {NoSeg}]]
      BY DEF LinkInv, DataTypeOK
    <3>2. CASE cache' = [cache EXCEPT ![p][s] = segment[n]]
      BY <1>2, <1>4, <3>1, <3>2
    <3>3. CASE cache' = cache
      BY <3>1, <3>3
    <3> QED
      BY <1>1, <3>2, <3>3
  <2>2. share_counter' \in [Slots -> Nat]
    BY <1>1, <1>2 DEF LinkInv, DataTypeOK
  <2>3. cachemap' \in [Procs -> [Names -> Slots \cup {Outside}]]
    BY <1>1, <1>2 DEF LinkInv, DataTypeOK
  <2>4. missed' \subseteq Segments
    BY <1>4, <1>m DEF LinkInv, DataTypeOK
  <2> QED
    BY <1>3, <2>1, <2>2, <2>3, <2>4 DEF LinkInv, DataTypeOK, accessVars
<1>6. \A q \in Procs, t \in Slots :
        IF q = p /\ t = s
        THEN cache'[q][t] = segment[n] \/ (cache'[q][t] = NoSeg /\ segment[n] \in missed')
        ELSE cache'[q][t] = cache[q][t]
  BY <1>1, <1>2 DEF LinkInv, DataTypeOK
<1>7. \A q \in Procs, m \in Names :
        cachemap'[q][m] = IF q = p /\ m = n THEN s ELSE cachemap[q][m]
  BY <1>1, <1>2 DEF LinkInv, DataTypeOK
<1>8. \A t \in Slots : share_counter'[t] = IF t = s THEN share_counter[t] + 1 ELSE share_counter[t]
  BY <1>1, <1>2 DEF LinkInv, DataTypeOK
<1>9. \A t \in Slots : share_counter'[t] # 0 <=> share_counter[t] # 0
  BY <1>2, <1>8
<1>10. SlotsInv'
  BY <1>3, <1>9 DEF LinkInv, SlotsInv
<1>11. CachesInv'
  <2>1. ASSUME NEW q \in Procs, ~linked'[q]
        PROVE  /\ \A t \in Slots : cache'[q][t] = NoSeg
               /\ \A m \in Names : cachemap'[q][m] = Outside
    BY <1>3, <1>6, <1>7, <2>1 DEF LinkInv, CachesInv, Idle
  <2>2. ASSUME NEW q \in Procs, NEW m \in Names, cachemap'[q][m] # Outside
        PROVE  /\ cache'[q][cachemap'[q][m]] # NoSeg \/ segment'[m] \in missed'
               /\ name'[cachemap'[q][m]] = m
    <3>1. CASE q = p /\ m = n
      BY <1>2, <1>3, <1>4, <1>6, <1>7, <3>1
    <3>2. CASE ~(q = p /\ m = n)
      <4>1. cachemap'[q][m] = cachemap[q][m] /\ cachemap[q][m] \in Slots
        BY <1>7, <2>2, <3>2 DEF LinkInv, DataTypeOK
      <4>2. /\ cache[q][cachemap[q][m]] # NoSeg \/ segment[m] \in missed
            /\ name[cachemap[q][m]] = m
        BY <2>2, <4>1 DEF LinkInv, CachesInv
      <4>3. CASE q = p /\ cachemap[q][m] = s
        BY <1>2, <3>2, <4>2, <4>3
      <4>4. CASE ~(q = p /\ cachemap[q][m] = s)
        BY <1>3, <1>6, <1>m, <4>1, <4>2, <4>4
      <4> QED
        BY <4>3, <4>4
    <3> QED
      BY <3>1, <3>2
  <2> QED
    BY <2>1, <2>2 DEF CachesInv
<1>12. CounterCoversLinks'
  <2>1. Linkers(s)' \subseteq Linkers(s) \cup {p} /\ Linkers(s) \in SUBSET Procs
        /\ Linkers(s)' \in SUBSET Procs /\ Linkers(s) \cup {p} \in SUBSET Procs
    BY <1>7 DEF Linkers
  <2>2. /\ Cardinality(Linkers(s) \cup {p}) <= Cardinality(Linkers(s)) + 1
        /\ Cardinality(Linkers(s)) \in Nat /\ Cardinality(Linkers(s) \cup {p}) \in Nat
    BY <2>1, LinkersFinite, FS_AddElement
  <2>3. Cardinality(Linkers(s)') <= Cardinality(Linkers(s) \cup {p}) /\ Cardinality(Linkers(s)') \in Nat
    BY <2>1, LinkersFinite, FS_Subset
  <2>4. share_counter[s] >= Cardinality(Linkers(s))
    BY <1>2 DEF LinkInv, CounterCoversLinks
  <2>5. share_counter'[s] >= Cardinality(Linkers(s)')
    BY <1>2, <1>8, <2>2, <2>3, <2>4
  <2>6. \A t \in Slots : t # s => Linkers(t)' \subseteq Linkers(t)
    BY <1>7 DEF Linkers
  <2>7. \A t \in Slots : share_counter'[t] >= Cardinality(Linkers(t)')
    BY <1>8, <2>5, <2>6, StillCovers
  <2> QED
    BY <2>7 DEF CounterCoversLinks
<1>13. EveryoneSharesOneSegment'
  <2> SUFFICES ASSUME NEW q \in Procs, NEW t \in Slots, cache'[q][t] # NoSeg
               PROVE  /\ name'[t] = cache'[q][t].name
                      /\ segment'[name'[t]] = cache'[q][t]
                      /\ cachemap'[q][name'[t]] = t
    BY DEF EveryoneSharesOneSegment
  <2>1. CASE q = p /\ t = s
    BY <1>2, <1>3, <1>4, <1>6, <1>7, <2>1
  <2>2. CASE ~(q = p /\ t = s)
    <3>1. cache'[q][t] = cache[q][t] /\ cache[q][t] # NoSeg
      BY <1>6, <2>2
    <3>2. share_counter[t] # 0 /\ name[t] \in Names
      BY <3>1, HeldSlot
    <3>3. q = p => name[t] # n
      BY <1>2, <2>2, <3>2 DEF LinkInv, SlotsInv
    <3> QED
      BY <1>3, <1>7, <3>1, <3>2, <3>3 DEF LinkInv, EveryoneSharesOneSegment
  <2> QED
    BY <2>1, <2>2
<1> QED
  BY <1>5, <1>10, <1>11, <1>12, <1>13 DEF LinkInv

LEMMA UnlinkFromDataInv ==
    ASSUME LinkInv, NEW p \in Procs, NEW n \in Names, UnlinkFromData(p, n)
    PROVE  LinkInv'
<1>1. PICK s \in First(SlotsOf(n)) :
        /\ cachemap[p][n] = s
        /\ share_counter' = [share_counter EXCEPT ![s] = @ - 1]
        /\ cache' = [cache EXCEPT ![p][s] = NoSeg]
        /\ IF share_counter[s] = 1
           THEN /\ size' = [size EXCEPT ![s] = 0]
                /\ name' = [name EXCEPT ![s] = NoName]
                /\ data_arena' = [data_arena EXCEPT ![s] = ArenaInit(@, 0)]
           ELSE UNCHANGED <<size, name, data_arena>>
  BY DEF UnlinkFromData
<1>2. /\ s \in Slots /\ share_counter[s] \in Nat \ {0} /\ name[s] = n
      /\ p \in Linkers(s)
  BY <1>1 DEF First, SlotsOf, LinkInv, DataTypeOK, Linkers
<1>3. /\ Idle(p)
      /\ cachemap' = [cachemap EXCEPT ![p][n] = Outside]
      /\ UNCHANGED <<linked, accessVars, faultVars, segment, reserves>>
  BY DEF UnlinkFromData, AtTable
<1>4. DataTypeOK'
  <2>1. ArenaInit(data_arena[s], 0) \in Arenas /\ WithinCapacity(ArenaInit(data_arena[s], 0))
    BY <1>2, ArenaInitType DEF LinkInv, DataTypeOK
  <2>2. share_counter' \in [Slots -> Nat]
    <3>1. share_counter \in [Slots -> Nat] /\ share_counter[s] - 1 \in Nat
      BY <1>2 DEF LinkInv, DataTypeOK
    <3>2. share_counter' = [share_counter EXCEPT ![s] = @ - 1]
      BY <1>1
    <3> QED
      BY <3>1, <3>2
  <2>3. /\ size' \in [Slots -> Nat]
        /\ name' \in [Slots -> Names \cup {NoName}]
        /\ data_arena' \in [Slots -> Arenas]
        /\ \A t \in Slots : WithinCapacity(data_arena'[t])
    <3>1. CASE share_counter[s] = 1
      <4>1. /\ size' = [size EXCEPT ![s] = 0]
            /\ name' = [name EXCEPT ![s] = NoName]
            /\ data_arena' = [data_arena EXCEPT ![s] = ArenaInit(@, 0)]
        BY <1>1, <3>1
      <4> QED
        BY <1>2, <2>1, <4>1 DEF LinkInv, DataTypeOK
    <3>2. CASE share_counter[s] # 1
      BY <1>1, <3>2 DEF LinkInv, DataTypeOK
    <3> QED
      BY <3>1, <3>2
  <2> QED
    BY <1>1, <1>2, <1>3, <2>2, <2>3 DEF LinkInv, DataTypeOK, accessVars, faultVars
<1>5. \A q \in Procs, t \in Slots :
        cache'[q][t] = IF q = p /\ t = s THEN NoSeg ELSE cache[q][t]
  BY <1>1, <1>2 DEF LinkInv, DataTypeOK
<1>6. \A q \in Procs, m \in Names :
        cachemap'[q][m] = IF q = p /\ m = n THEN Outside ELSE cachemap[q][m]
  BY <1>2, <1>3 DEF LinkInv, DataTypeOK
<1>7. \A t \in Slots : share_counter'[t] = IF t = s THEN share_counter[t] - 1 ELSE share_counter[t]
  BY <1>1, <1>2 DEF LinkInv, DataTypeOK
<1>8. \A t \in Slots : share_counter'[t] # 0 => share_counter[t] # 0 /\ name'[t] = name[t]
  BY <1>1, <1>2, <1>7 DEF LinkInv, DataTypeOK
<1>9. \A q \in Procs, m \in Names :
        cachemap'[q][m] # Outside =>
            /\ cachemap'[q][m] = cachemap[q][m] /\ cachemap[q][m] \in Slots
            /\ ~(q = p /\ cachemap[q][m] = s)
            /\ share_counter'[cachemap[q][m]] # 0
  <2> SUFFICES ASSUME NEW q \in Procs, NEW m \in Names, cachemap'[q][m] # Outside
               PROVE  /\ cachemap'[q][m] = cachemap[q][m] /\ cachemap[q][m] \in Slots
                      /\ ~(q = p /\ cachemap[q][m] = s)
                      /\ share_counter'[cachemap[q][m]] # 0
    OBVIOUS
  <2>1. /\ cachemap'[q][m] = cachemap[q][m] /\ ~(q = p /\ m = n)
        /\ cachemap[q][m] \in Slots
    BY <1>6 DEF LinkInv, DataTypeOK
  <2>2. share_counter[cachemap[q][m]] \in Nat \ {0} /\ name[cachemap[q][m]] = m
    BY <2>1, LinkedSlot
  <2>3. ~(q = p /\ cachemap[q][m] = s)
    BY <1>2, <2>1, <2>2
  <2>4. cachemap[q][m] = s => q \in Linkers(s)
    BY DEF Linkers
  <2>5. cachemap[q][m] = s => share_counter[s] # 1
    BY <1>2, <2>3, <2>4, LastLinker
  <2> QED
    BY <1>2, <1>7, <2>1, <2>2, <2>3, <2>5
<1>10. SlotsInv'
  BY <1>3, <1>8 DEF LinkInv, SlotsInv
<1>11. CachesInv'
  <2>1. ASSUME NEW q \in Procs, ~linked'[q]
        PROVE  /\ \A t \in Slots : cache'[q][t] = NoSeg
               /\ \A m \in Names : cachemap'[q][m] = Outside
    BY <1>3, <1>5, <1>6, <2>1 DEF LinkInv, CachesInv
  <2>2. ASSUME NEW q \in Procs, NEW m \in Names, cachemap'[q][m] # Outside
        PROVE  /\ cache'[q][cachemap'[q][m]] # NoSeg \/ segment'[m] \in missed'
               /\ name'[cachemap'[q][m]] = m
    <3>1. /\ cachemap'[q][m] = cachemap[q][m] /\ cachemap[q][m] \in Slots
          /\ ~(q = p /\ cachemap[q][m] = s)
          /\ share_counter'[cachemap[q][m]] # 0
      BY <1>9, <2>2
    <3>2. /\ cache[q][cachemap[q][m]] # NoSeg \/ segment[m] \in missed
          /\ name[cachemap[q][m]] = m
      BY <2>2, <3>1 DEF LinkInv, CachesInv
    <3>3. cache'[q][cachemap[q][m]] = cache[q][cachemap[q][m]]
      BY <1>5, <3>1
    <3>4. name'[cachemap[q][m]] = m
      BY <1>8, <3>1, <3>2
    <3> QED
      BY <1>3, <3>1, <3>2, <3>3, <3>4 DEF faultVars
  <2> QED
    BY <2>1, <2>2 DEF CachesInv
<1>12. CounterCoversLinks'
  <2>1. Linkers(s)' \subseteq Linkers(s) \ {p} /\ Linkers(s) \in SUBSET Procs
        /\ Linkers(s) \ {p} \in SUBSET Procs /\ Linkers(s)' \in SUBSET Procs
    BY <1>2, <1>9 DEF Linkers, Slots, Outside
  <2>2. /\ Cardinality(Linkers(s) \ {p}) = Cardinality(Linkers(s)) - 1
        /\ Cardinality(Linkers(s)) \in Nat
    BY <1>2, <2>1, LinkersFinite, FS_RemoveElement
  <2>3. Cardinality(Linkers(s)') <= Cardinality(Linkers(s) \ {p}) /\ Cardinality(Linkers(s)') \in Nat
    BY <2>1, LinkersFinite, FS_Subset
  <2>4. share_counter[s] >= Cardinality(Linkers(s))
    BY <1>2 DEF LinkInv, CounterCoversLinks
  <2>5. share_counter'[s] >= Cardinality(Linkers(s)')
    BY <1>2, <1>7, <2>2, <2>3, <2>4
  <2>6. \A t \in Slots : t # s => Linkers(t)' \subseteq Linkers(t)
    BY <1>6 DEF Linkers, Slots, Outside
  <2>7. \A t \in Slots : share_counter'[t] >= Cardinality(Linkers(t)')
    BY <1>7, <2>5, <2>6, StillCovers
  <2> QED
    BY <2>7 DEF CounterCoversLinks
<1>13. EveryoneSharesOneSegment'
  <2> SUFFICES ASSUME NEW q \in Procs, NEW t \in Slots, cache'[q][t] # NoSeg
               PROVE  /\ name'[t] = cache'[q][t].name
                      /\ segment'[name'[t]] = cache'[q][t]
                      /\ cachemap'[q][name'[t]] = t
    BY DEF EveryoneSharesOneSegment
  <2>1. cache'[q][t] = cache[q][t] /\ cache[q][t] # NoSeg /\ ~(q = p /\ t = s)
    BY <1>5
  <2>2. share_counter[t] # 0 /\ name[t] \in Names /\ cachemap[q][name[t]] = t
    BY <2>1, HeldSlot
  <2>3. q = p => name[t] # n
    BY <1>2, <2>1, <2>2 DEF LinkInv, SlotsInv
  <2>4. cachemap'[q][name[t]] = t /\ t # Outside
    BY <1>6, <2>2, <2>3 DEF Slots, Outside
  <2>5. name'[t] = name[t]
    BY <1>8, <1>9, <2>2, <2>4
  <2> QED
    BY <1>3, <2>1, <2>2, <2>4, <2>5 DEF LinkInv, EveryoneSharesOneSegment
<1> QED
  BY <1>4, <1>10, <1>11, <1>12, <1>13 DEF LinkInv

(* A process that ends in the middle of unlinking leaves nothing behind    *)
(* but the lock of the table.                                              *)
LEMMA UnlinkCrashInv ==
    ASSUME LinkInv, NEW p \in Procs, NEW n \in Names, UnlinkFromDataCrashes(p, n)
    PROVE  LinkInv'
<1>1. PICK s \in First(SlotsOf(n)) :
        /\ cachemap[p][n] = s
        /\ share_counter' = [share_counter EXCEPT ![s] = @ - 1]
  BY DEF UnlinkFromDataCrashes
<1>2. /\ s \in Slots /\ share_counter[s] \in Nat \ {0}
      /\ p \in Linkers(s)
  BY <1>1 DEF First, SlotsOf, LinkInv, DataTypeOK, Linkers
<1>3. /\ stuck' = TRUE
      /\ linked' = [linked EXCEPT ![p] = FALSE]
      /\ cache' = [cache EXCEPT ![p] = [t \in Slots |-> NoSeg]]
      /\ cachemap' = [cachemap EXCEPT ![p] = [m \in Names |-> Outside]]
      /\ UNCHANGED <<size, name, data_arena, accessVars, missed, segment, reserves>>
  BY DEF UnlinkFromDataCrashes
<1>4. DataTypeOK'
  <2>1. share_counter' \in [Slots -> Nat]
    <3>1. share_counter \in [Slots -> Nat] /\ share_counter[s] - 1 \in Nat
      BY <1>2 DEF LinkInv, DataTypeOK
    <3> QED
      BY <1>1, <3>1
  <2> QED
    BY <1>3, <2>1 DEF LinkInv, DataTypeOK, accessVars, Outside
<1>5. \A q \in Procs, t \in Slots : cache'[q][t] = IF q = p THEN NoSeg ELSE cache[q][t]
  BY <1>3 DEF LinkInv, DataTypeOK
<1>6. \A q \in Procs, m \in Names : cachemap'[q][m] = IF q = p THEN Outside ELSE cachemap[q][m]
  BY <1>3 DEF LinkInv, DataTypeOK
<1>7. \A t \in Slots : share_counter'[t] = IF t = s THEN share_counter[t] - 1 ELSE share_counter[t]
  BY <1>1, <1>2 DEF LinkInv, DataTypeOK
<1>8. \A t \in Slots : share_counter'[t] # 0 => share_counter[t] # 0
  BY <1>2, <1>7
<1>9. SlotsInv'
  BY <1>3, <1>8 DEF LinkInv, SlotsInv
<1>10. CachesInv'
  <2>1. \A q \in Procs : ~linked'[q] => q = p \/ ~linked[q]
    BY <1>3 DEF LinkInv, DataTypeOK
  <2> QED
    BY <1>3, <1>5, <1>6, <2>1 DEF LinkInv, CachesInv, DataTypeOK
<1>11. CounterCoversLinks'
  <2>1. Linkers(s)' \subseteq Linkers(s) \ {p} /\ Linkers(s) \in SUBSET Procs
        /\ Linkers(s) \ {p} \in SUBSET Procs /\ Linkers(s)' \in SUBSET Procs
    BY <1>2, <1>6 DEF Linkers, Slots, Outside
  <2>2. /\ Cardinality(Linkers(s) \ {p}) = Cardinality(Linkers(s)) - 1
        /\ Cardinality(Linkers(s)) \in Nat
    BY <1>2, <2>1, LinkersFinite, FS_RemoveElement
  <2>3. Cardinality(Linkers(s)') <= Cardinality(Linkers(s) \ {p}) /\ Cardinality(Linkers(s)') \in Nat
    BY <2>1, LinkersFinite, FS_Subset
  <2>4. share_counter[s] >= Cardinality(Linkers(s))
    BY <1>2 DEF LinkInv, CounterCoversLinks
  <2>5. share_counter'[s] >= Cardinality(Linkers(s)')
    BY <1>2, <1>7, <2>2, <2>3, <2>4
  <2>6. \A t \in Slots : t # s => Linkers(t)' \subseteq Linkers(t)
    BY <1>6 DEF Linkers, Slots, Outside
  <2>7. \A t \in Slots : share_counter'[t] >= Cardinality(Linkers(t)')
    BY <1>7, <2>5, <2>6, StillCovers
  <2> QED
    BY <2>7 DEF CounterCoversLinks
<1>12. EveryoneSharesOneSegment'
  <2> SUFFICES ASSUME NEW q \in Procs, NEW t \in Slots, cache'[q][t] # NoSeg
               PROVE  /\ name'[t] = cache'[q][t].name
                      /\ segment'[name'[t]] = cache'[q][t]
                      /\ cachemap'[q][name'[t]] = t
    BY DEF EveryoneSharesOneSegment
  <2>1. q # p /\ cache'[q][t] = cache[q][t] /\ cache[q][t] # NoSeg
    BY <1>5
  <2>2. name[t] \in Names
    BY <2>1, HeldSlot
  <2> QED
    BY <1>3, <1>6, <2>1, <2>2 DEF LinkInv, EveryoneSharesOneSegment
<1> QED
  BY <1>4, <1>9, <1>10, <1>11, <1>12 DEF LinkInv

LEMMA DataFreeInv ==
    ASSUME LinkInv, DataFree
    PROVE  LinkInv'
<1> USE DataAssumption DEF DataFree
<1>1. DataTypeOK'
  <2>1. segment' \in [Names -> Segments \cup {NoSeg}]
    BY DEF LinkInv, DataTypeOK
  <2>2. /\ data_arena' \in [Slots -> Arenas]
        /\ \A s \in Slots : WithinCapacity(data_arena'[s])
    BY DEF Arenas, NoArena, WithinCapacity
  <2>3. /\ share_counter' \in [Slots -> Nat]
        /\ size' \in [Slots -> Nat]
        /\ name' \in [Slots -> Names \cup {NoName}]
    OBVIOUS
  <2>4. /\ linked' \in [Procs -> BOOLEAN]
        /\ cache' \in [Procs -> [Slots -> Segments \cup {NoSeg}]]
        /\ cachemap' \in [Procs -> [Names -> Slots \cup {Outside}]]
    BY DEF LinkInv, DataTypeOK
  <2> QED
    BY <2>1, <2>2, <2>3, <2>4 DEF LinkInv, DataTypeOK, accessVars, faultVars
<1>2. \A q \in Procs, s \in Slots : cache'[q][s] = NoSeg
  BY DEF LinkInv, DataTypeOK, CachesInv
<1>3. \A q \in Procs, n \in Names : cachemap'[q][n] = Outside
  BY DEF LinkInv, DataTypeOK, CachesInv
<1>4. \A s \in Slots : share_counter'[s] = 0
  OBVIOUS
<1>5. CounterCoversLinks'
  <2> HIDE DEF DataFree
  <2>1. \A s \in Slots : Linkers(s)' = {}
    BY <1>3 DEF Linkers, Slots, Outside
  <2>2. \A s \in Slots : share_counter'[s] >= Cardinality(Linkers(s)')
    BY <1>4, <2>1, FS_EmptySet
  <2> QED
    BY <2>2 DEF CounterCoversLinks
<1> QED
  BY <1>1, <1>2, <1>3, <1>4, <1>5 DEF LinkInv, SlotsInv, CachesInv, EveryoneSharesOneSegment

LEMMA TableStepInv ==
    ASSUME LinkInv, NEW p \in Procs, TableStep(p)
    PROVE  LinkInv'
BY EmptyCachesInv, ReserveInv, ReserveFailsInv, LinkToDataInv, UnlinkFromDataInv, UnlinkCrashInv
DEF TableStep

-----------------------------------------------------------------------------
(* The table's steps leave alone what an access has: only idle processes   *)
(* change their caches.                                                    *)
LEMMA TableKeepsAccess ==
    ASSUME LinkInv, AccessInv, NEW p \in Procs, TableStep(p) \/ DataFree
    PROVE  /\ UNCHANGED accessVars
           /\ \A q \in Procs : at[q] # "outside" =>
                linked'[q] /\ cache'[q] = cache[q] /\ cachemap'[q] = cachemap[q]
           /\ AccessInv'
<1>1. UNCHANGED accessVars
  BY DEF TableStep, DataFree, LinkToProcess, UnlinkFromProcess, Reserve, ReserveFails,
         LinkToData, LinkToDataUnopened, UnlinkFromData, UnlinkFromDataCrashes
<1>2. \A q \in Procs : at[q] # "outside" =>
        linked'[q] /\ cache'[q] = cache[q] /\ cachemap'[q] = cachemap[q]
  <2> SUFFICES ASSUME NEW q \in Procs, at[q] # "outside"
               PROVE  linked'[q] /\ cache'[q] = cache[q] /\ cachemap'[q] = cachemap[q]
    OBVIOUS
  <2> USE DEF LinkInv, DataTypeOK
  <2>1. linked[q]
    BY DEF AccessInv
  <2>2. CASE LinkToProcess(p)
    BY <2>1, <2>2 DEF LinkToProcess
  <2>3. CASE UnlinkFromProcess(p)
    BY <2>1, <2>3 DEF UnlinkFromProcess, Idle
  <2>4. ASSUME NEW n \in Names, NEW bytes \in Sizes, Reserve(p, n, bytes)
        PROVE  linked'[q] /\ cache'[q] = cache[q] /\ cachemap'[q] = cachemap[q]
    BY <2>1, <2>4 DEF Reserve, AtTable, Idle
  <2>5. ASSUME NEW n \in Names, ReserveFails(p, n)
        PROVE  linked'[q] /\ cache'[q] = cache[q] /\ cachemap'[q] = cachemap[q]
    BY <2>1, <2>5 DEF ReserveFails, localVars
  <2>6. ASSUME NEW n \in Names, LinkToData(p, n) \/ LinkToDataUnopened(p, n)
        PROVE  linked'[q] /\ cache'[q] = cache[q] /\ cachemap'[q] = cachemap[q]
    BY <2>1, <2>6 DEF LinkToData, LinkToDataUnopened, AtTable, Idle
  <2>7. ASSUME NEW n \in Names, UnlinkFromData(p, n)
        PROVE  linked'[q] /\ cache'[q] = cache[q] /\ cachemap'[q] = cachemap[q]
    BY <2>1, <2>7 DEF UnlinkFromData, AtTable, Idle
  <2>8. CASE DataFree
    BY <2>1, <2>8 DEF DataFree, Idle
  <2>9. ASSUME NEW n \in Names, UnlinkFromDataCrashes(p, n)
        PROVE  linked'[q] /\ cache'[q] = cache[q] /\ cachemap'[q] = cachemap[q]
    BY <2>1, <2>9 DEF UnlinkFromDataCrashes, AtTable, Idle
  <2> QED
    BY <2>2, <2>3, <2>4, <2>5, <2>6, <2>7, <2>8, <2>9 DEF TableStep
<1>3. AccessInv'
  BY <1>1, <1>2 DEF AccessInv, accessVars
<1> QED
  BY <1>1, <1>2, <1>3

(* Of the slots in use after a step of the table, each was in use before   *)
(* with the same segment and arena, but for the one just reserved.         *)
LEMMA TableKeepsSlots ==
    ASSUME LinkInv, NEW p \in Procs, TableStep(p) \/ DataFree,
           NEW s \in Slots, share_counter'[s] # 0
    PROVE  \/ /\ share_counter[s] # 0
              /\ segment'[name'[s]] = segment[name[s]]
              /\ data_arena'[s] = data_arena[s]
           \/ /\ share_counter[s] = 0
              /\ segment'[name'[s]].gen = reserves + 1
              /\ segment'[name'[s]].size = size'[s]
              /\ data_arena'[s] = ArenaInit(data_arena[s], size'[s])
<1> USE DEF LinkInv, DataTypeOK
<1>1. CASE LinkToProcess(p) \/ UnlinkFromProcess(p)
  BY <1>1 DEF LinkToProcess, UnlinkFromProcess, tableVars
<1>2. ASSUME NEW n \in Names, NEW bytes \in Sizes, Reserve(p, n, bytes)
      PROVE  \/ /\ share_counter[s] # 0
                /\ segment'[name'[s]] = segment[name[s]]
                /\ data_arena'[s] = data_arena[s]
             \/ /\ share_counter[s] = 0
                /\ segment'[name'[s]].gen = reserves + 1
                /\ segment'[name'[s]].size = size'[s]
                /\ data_arena'[s] = ArenaInit(data_arena[s], size'[s])
  <2> DEFINE seg == [name |-> n, gen |-> reserves + 1, size |-> bytes]
  <2>1. PICK r \in First(FreeSlots) :
          /\ name' = [name EXCEPT ![r] = n]
          /\ segment' = [segment EXCEPT ![n] = seg]
          /\ data_arena' = [data_arena EXCEPT ![r] = ArenaInit(@, bytes)]
          /\ share_counter' = [share_counter EXCEPT ![r] = @ + 1]
          /\ size' = [size EXCEPT ![r] = bytes]
    BY <1>2 DEF Reserve
  <2>2. r \in Slots /\ share_counter[r] = 0 /\ SlotsOf(n) = {} /\ seg.gen = reserves + 1
        /\ seg.size = bytes
    BY <1>2 DEF First, FreeSlots, Reserve
  <2> HIDE DEF seg
  <2>3. CASE s = r
    BY <2>1, <2>2, <2>3
  <2>4. CASE s # r
    <3>1. share_counter[s] # 0 /\ name'[s] = name[s] /\ data_arena'[s] = data_arena[s]
      BY <2>1, <2>2, <2>4
    <3>2. name[s] # n
      BY <2>2, <3>1 DEF SlotsOf
    <3> QED
      BY <2>1, <3>1, <3>2 DEF SlotsInv
  <2> QED
    BY <2>3, <2>4
<1>3. ASSUME NEW n \in Names, ReserveFails(p, n)
      PROVE  /\ share_counter[s] # 0
             /\ segment'[name'[s]] = segment[name[s]]
             /\ data_arena'[s] = data_arena[s]
  BY <1>3 DEF ReserveFails, First, FreeSlots, SlotsOf, SlotsInv
<1>4. ASSUME NEW n \in Names, LinkToData(p, n) \/ LinkToDataUnopened(p, n)
      PROVE  /\ share_counter[s] # 0
             /\ segment'[name'[s]] = segment[name[s]]
             /\ data_arena'[s] = data_arena[s]
  BY <1>4 DEF LinkToData, LinkToDataUnopened, First, SlotsOf
<1>5. ASSUME NEW n \in Names, UnlinkFromData(p, n)
      PROVE  /\ share_counter[s] # 0
             /\ segment'[name'[s]] = segment[name[s]]
             /\ data_arena'[s] = data_arena[s]
  <2>1. PICK r \in First(SlotsOf(n)) :
          /\ share_counter' = [share_counter EXCEPT ![r] = @ - 1]
          /\ IF share_counter[r] = 1
             THEN /\ name' = [name EXCEPT ![r] = NoName]
                  /\ data_arena' = [data_arena EXCEPT ![r] = ArenaInit(@, 0)]
             ELSE UNCHANGED <<name, data_arena>>
    BY <1>5 DEF UnlinkFromData
  <2>2. r \in Slots /\ share_counter[r] # 0 /\ segment' = segment
    BY <1>5 DEF First, SlotsOf, UnlinkFromData
  <2>3. CASE share_counter[r] = 1
    BY <2>1, <2>2, <2>3
  <2>4. CASE share_counter[r] # 1
    BY <2>1, <2>2, <2>4
  <2> QED
    BY <2>3, <2>4
<1>6. ~DataFree
  BY DEF DataFree
<1>7. ASSUME NEW n \in Names, UnlinkFromDataCrashes(p, n)
      PROVE  /\ share_counter[s] # 0
             /\ segment'[name'[s]] = segment[name[s]]
             /\ data_arena'[s] = data_arena[s]
  BY <1>7 DEF UnlinkFromDataCrashes, First, SlotsOf
<1> QED
  BY <1>1, <1>2, <1>3, <1>4, <1>5, <1>6, <1>7 DEF TableStep

(* What has been missed stays missed.                                      *)
LEMMA TableKeepsMissed ==
    ASSUME NEW p \in Procs, TableStep(p) \/ DataFree
    PROVE  missed \subseteq missed'
BY DEF TableStep, DataFree, LinkToProcess, UnlinkFromProcess, Reserve, ReserveFails,
       LinkToData, LinkToDataUnopened, UnlinkFromData, UnlinkFromDataCrashes, faultVars

(* The slot of an access stays in use with its segment.                    *)
LEMMA AccessSlot ==
    ASSUME LinkInv, AccessInv, NEW p \in Procs, at[p] # "outside"
    PROVE  /\ using[p] \in Slots
           /\ share_counter[using[p]] \in Nat \ {0}
           /\ SegmentAt(using[p]) \in Segments /\ SegmentAt(using[p]) # NoSeg
           /\ \/ cache[p][using[p]] = SegmentAt(using[p])
              \/ cache[p][using[p]] = NoSeg /\ SegmentAt(using[p]) \in missed
<1>1. PICK n \in Names : cachemap[p][n] = using[p] /\ using[p] \in Slots
  BY DEF AccessInv
<1> QED
  BY <1>1, LinkedSlot

LEMMA TableKeepsAccessSlot ==
    ASSUME LinkInv, AccessInv, NEW p \in Procs, TableStep(p) \/ DataFree,
           NEW q \in Procs, at[q] # "outside"
    PROVE  SegmentAt(using[q])' = SegmentAt(using[q])
<1> DEFINE s == using[q]
<1>1. PICK n \in Names : cachemap[q][n] = s
  BY DEF AccessInv
<1>2. /\ using' = using /\ at' = at /\ cachemap'[q] = cachemap[q]
      /\ LinkInv' /\ AccessInv'
  BY DataAssumption, TableKeepsAccess, TableStepInv, DataFreeInv DEF accessVars
<1>3. s \in Slots /\ s' = s
  BY <1>2 DEF AccessInv
<1> HIDE DEF s
<1>4. /\ share_counter[s] # 0 /\ SegmentAt(s) = segment[n] /\ SegmentAt(s) \in Segments
      /\ SegmentAt(s).gen <= reserves
  <2>1. share_counter[s] # 0 /\ SegmentAt(s) = segment[n] /\ segment[n] \in Segments
    BY <1>1, <1>3, LinkedSlot
  <2>2. segment[name[s]].gen <= reserves
    BY <1>3, <2>1 DEF LinkInv, SlotsInv
  <2> QED
    BY <2>1, <2>2 DEF SegmentAt
<1>5. share_counter'[s] # 0
  <2>1. q \in Linkers(s)' /\ Linkers(s)' \in SUBSET Procs
    BY <1>1, <1>2, <1>3 DEF Linkers
  <2>2. Cardinality(Linkers(s)') \in Nat \ {0}
    BY <2>1, LinkersFinite, FS_EmptySet
  <2> QED
    BY <1>2, <1>3, <2>2 DEF LinkInv, CounterCoversLinks, DataTypeOK
<1> QED
  BY <1>2, <1>3, <1>4, <1>5, TableKeepsSlots DEF SegmentAt, s

LEMMA TableKeepsArenas ==
    ASSUME DataInv, NEW p \in Procs, TableStep(p) \/ DataFree
    PROVE  ArenaInv' /\ AllocationsDisjoint'
<1>1. LinkInv /\ AccessInv /\ ArenaInv /\ AllocationsDisjoint
  BY DEF DataInv
<1>2. /\ allocated' = allocated /\ at' = at /\ using' = using /\ arena' = arena
      /\ missed \subseteq missed'
      /\ \A q \in Procs : at[q] # "outside" => SegmentAt(using[q])' = SegmentAt(using[q])
  BY <1>1, TableKeepsAccess, TableKeepsMissed, TableKeepsAccessSlot DEF accessVars
<1>3. reserves' \in {reserves, reserves + 1} /\ reserves \in Nat
  BY <1>1, DataAssumption
  DEF LinkInv, DataTypeOK, TableStep, DataFree, LinkToProcess, UnlinkFromProcess, Reserve,
      ReserveFails, LinkToData, LinkToDataUnopened, UnlinkFromData, UnlinkFromDataCrashes
<1>4. \A a \in allocated : a.seg.gen \in Nat /\ a.seg.gen <= reserves
  BY <1>1 DEF ArenaInv, LinkInv, DataTypeOK, Segments
<1>5. ASSUME NEW s \in Slots, share_counter'[s] # 0
      PROVE  \/ SegmentAt(s)' \in missed'
             \/ Passed(SegmentAt(s), data_arena[s].pointer)'
             \/ \E q \in Procs : at'[q] = "inside" /\ using'[q] = s
  <2>1. CASE /\ share_counter[s] # 0
             /\ segment'[name'[s]] = segment[name[s]]
             /\ data_arena'[s] = data_arena[s]
    BY <1>1, <1>2, <2>1 DEF ArenaInv, Passed, SegmentAt
  <2>2. CASE segment'[name'[s]].gen = reserves + 1
    <3>1. \A a \in allocated : a.seg # segment'[name'[s]]
      BY <1>3, <1>4, <2>2
    <3> QED
      BY <1>2, <3>1 DEF Passed, SegmentAt
  <2> QED
    BY <1>1, <1>5, <2>1, <2>2, TableKeepsSlots
<1>6. \A a \in allocated' : a.seg.gen <= reserves'
  BY <1>2, <1>3, <1>4
<1>7. \A q \in Procs : at'[q] = "inside" =>
        /\ WithinCapacity(arena'[q])
        /\ \/ SegmentAt(using[q])' \in missed'
           \/ Passed(SegmentAt(using[q]), arena[q].pointer)'
  BY <1>1, <1>2 DEF ArenaInv, Passed
<1>8. ArenaInv'
  BY <1>1, <1>2, <1>5, <1>6, <1>7 DEF ArenaInv
<1> QED
  BY <1>1, <1>2, <1>8 DEF AllocationsDisjoint

-----------------------------------------------------------------------------
(* The steps of an access leave alone who is linked to what.               *)
LEMMA AccessKeepsLinks ==
    ASSUME LinkInv, DataTypeOK',
           UNCHANGED <<share_counter, name, localVars, faultVars, segment, reserves>>
    PROVE  LinkInv'
BY DEF LinkInv, SlotsInv, CachesInv, CounterCoversLinks, Linkers, EveryoneSharesOneSegment,
       localVars, faultVars

LEMMA AccessBegins ==
    ASSUME DataInv, NEW p \in Procs, NEW n \in Names, Access(p, n)
    PROVE  DataInv'
<1> USE DEF DataInv, Access, Idle, tableVars, localVars, faultVars
<1>1. /\ cachemap[p][n] \in Slots
      /\ at' = [at EXCEPT ![p] = "waiting"]
      /\ using' = [using EXCEPT ![p] = cachemap[p][n]]
      /\ at[p] = "outside"
  BY DEF LinkInv, DataTypeOK, CachesInv
<1>2. DataTypeOK'
  BY <1>1 DEF LinkInv, DataTypeOK
<1>3. LinkInv'
  BY <1>2, AccessKeepsLinks
<1>4. \A q \in Procs : at'[q] = "inside" <=> at[q] = "inside"
  BY <1>1 DEF LinkInv, DataTypeOK
<1>5. \A q \in Procs : q # p => at'[q] = at[q] /\ using'[q] = using[q]
  BY <1>1 DEF LinkInv, DataTypeOK
<1>6. AccessInv'
  <2>1. linked'[p] /\ using'[p] \in Slots /\ cachemap'[p][n] = using'[p]
    BY <1>1 DEF LinkInv, DataTypeOK
  <2>2. at[p] # "inside"
    BY <1>1
  <2>3. \A q \in Procs : at'[q] # "outside" =>
          /\ linked'[q] /\ using'[q] \in Slots
          /\ \E m \in Names : cachemap'[q][m] = using'[q]
    <3>1. ASSUME NEW q \in Procs, q # p, at'[q] # "outside"
          PROVE  /\ linked'[q] /\ using'[q] \in Slots
                 /\ \E m \in Names : cachemap'[q][m] = using'[q]
      BY <1>5, <3>1 DEF AccessInv
    <3> QED
      BY <2>1, <3>1
  <2>4. \A q \in Procs : at'[q] = "inside" => q # p /\ at[q] = "inside" /\ using'[q] = using[q]
    BY <1>4, <1>5, <2>2
  <2> QED
    BY <2>3, <2>4 DEF AccessInv
<1>7. ArenaInv'
  <2>1. \A q \in Procs : at[q] = "inside" => q # p
    BY <1>1
  <2> QED
    BY <1>4, <1>5, <2>1 DEF ArenaInv, Passed, SegmentAt
<1>8. AllocationsDisjoint'
  BY DEF AllocationsDisjoint
<1> QED
  BY <1>3, <1>6, <1>7, <1>8

(* Whoever is inside is alone with the segment, hence with the slot, as    *)
(* long as the segment has not been missed.                                *)
LEMMA InsideAlone ==
    ASSUME LinkInv, AccessInv, NEW p \in Procs, at[p] # "outside",
           SegmentAt(using[p]) \notin missed,
           NEW q \in Procs, at[q] = "inside", using[q] = using[p]
    PROVE  /\ cache[q][using[q]] = cache[p][using[p]]
           /\ cache[p][using[p]] \in locked
           /\ at[p] = "inside" => p = q
<1>1. /\ cache[p][using[p]] = SegmentAt(using[p])
      /\ cache[q][using[q]] = SegmentAt(using[p])
      /\ SegmentAt(using[p]) # NoSeg
  BY AccessSlot
<1> QED
  BY <1>1 DEF AccessInv

(* Slots in use have different segments.                                   *)
LEMMA SlotsApart ==
    ASSUME LinkInv, NEW s \in Slots, NEW t \in Slots,
           share_counter[s] # 0, share_counter[t] # 0, SegmentAt(s) = SegmentAt(t)
    PROVE  s = t
BY DEF LinkInv, SlotsInv, SegmentAt

(* With the lock of the segment or without it: the arena is the table's.   *)
LEMMA AccessEnters ==
    ASSUME DataInv, NEW p \in Procs, AccessLocked(p) \/ AccessUnlocked(p)
    PROVE  DataInv'
<1> DEFINE slot == using[p]
           open == cache[p][slot]
<1>1. LinkInv /\ AccessInv /\ ArenaInv /\ AllocationsDisjoint
  BY DEF DataInv
<1>2. /\ at[p] = "waiting" /\ open \notin locked
      /\ IF open = NoSeg THEN locked' = locked ELSE locked' = locked \cup {open}
      /\ arena' = [arena EXCEPT ![p] = data_arena[slot]]
      /\ at' = [at EXCEPT ![p] = "inside"]
      /\ UNCHANGED <<tableVars, localVars, faultVars, segment, reserves, using, allocated, refused>>
  BY <1>1, NoSegAssumption DEF AccessLocked, AccessUnlocked, LinkInv, DataTypeOK
<1>3. /\ slot \in Slots /\ linked[p] /\ share_counter[slot] # 0
      /\ open \in Segments \/ open = NoSeg
  BY <1>1, <1>2, AccessSlot DEF AccessInv
<1>4. \A q \in Procs :
        at[q] = "inside" => q # p /\ (using[q] # slot \/ SegmentAt(slot) \in missed)
  BY <1>1, <1>2, InsideAlone
<1>5. data_arena[slot] \in Arenas /\ WithinCapacity(data_arena[slot])
  BY <1>1, <1>3 DEF LinkInv, DataTypeOK
<1>6. SegmentAt(slot) \in missed \/ Passed(SegmentAt(slot), data_arena[slot].pointer)
  BY <1>1, <1>3, <1>4 DEF ArenaInv
<1> HIDE DEF slot, open
<1>7. DataTypeOK'
  BY <1>1, <1>2, <1>3, <1>5 DEF LinkInv, DataTypeOK, tableVars, localVars, faultVars
<1>8. LinkInv'
  BY <1>1, <1>2, <1>7, AccessKeepsLinks DEF tableVars
<1>9. /\ at'[p] = "inside" /\ arena'[p] = data_arena[slot]
      /\ \A q \in Procs : q # p => at'[q] = at[q] /\ arena'[q] = arena[q]
  BY <1>1, <1>2 DEF LinkInv, DataTypeOK
<1>10. AccessInv'
  <2> USE DEF slot, open
  <2>1. \A q \in Procs : at'[q] # "outside" =>
          /\ linked'[q] /\ using'[q] \in Slots
          /\ \E n \in Names : cachemap'[q][n] = using'[q]
    BY <1>1, <1>2, <1>9 DEF AccessInv, localVars
  <2>2. \A q \in Procs :
          at'[q] = "inside" /\ cache'[q][using'[q]] # NoSeg => cache'[q][using'[q]] \in locked'
    BY <1>1, <1>2, <1>9 DEF AccessInv, localVars
  <2>3. \A q, r \in Procs :
          /\ at'[q] = "inside" /\ at'[r] = "inside"
          /\ cache'[q][using'[q]] = cache'[r][using'[r]] /\ cache'[q][using'[q]] # NoSeg
          => q = r
    BY <1>1, <1>2, <1>9 DEF AccessInv, localVars
  <2> QED
    BY <2>1, <2>2, <2>3 DEF AccessInv
<1>11. ArenaInv'
  <2>1. ASSUME NEW q \in Procs, at'[q] = "inside"
        PROVE  /\ WithinCapacity(arena'[q])
               /\ \/ SegmentAt(using[q]) \in missed
                  \/ Passed(SegmentAt(using[q]), arena'[q].pointer)
    <3>1. CASE q = p
      BY <1>5, <1>6, <1>9, <3>1 DEF slot
    <3>2. CASE q # p
      BY <1>1, <1>9, <2>1, <3>2 DEF ArenaInv
    <3> QED
      BY <3>1, <3>2
  <2>2. \A q \in Procs : at[q] = "inside" => at'[q] = "inside"
    BY <1>2, <1>9
  <2> QED
    BY <1>1, <1>2, <2>1, <2>2 DEF ArenaInv, Passed, SegmentAt, tableVars, localVars, faultVars
<1>12. AllocationsDisjoint'
  BY <1>1, <1>2 DEF AllocationsDisjoint
<1> QED
  BY <1>8, <1>10, <1>11, <1>12 DEF DataInv

(* What is handed out starts where everything else in the segment ends.    *)
LEMMA AllocInside ==
    ASSUME DataInv, NEW p \in Procs, NEW bytes \in Requests, Alloc(p, bytes)
    PROVE  DataInv'
<1> DEFINE slot == using[p]
           seg == SegmentAt(slot)
           new == [seg |-> seg, start |-> arena[p].pointer, bytes |-> bytes,
                   nth |-> Cardinality(allocated)]
<1>1. LinkInv /\ AccessInv /\ ArenaInv /\ AllocationsDisjoint
  BY DEF DataInv
<1>2. /\ at[p] = "inside"
      /\ arena[p].pointer + bytes < arena[p].capacity
      /\ arena' = [arena EXCEPT ![p].pointer = @ + bytes]
      /\ allocated' = allocated \/ (seg \notin missed /\ allocated' = allocated \cup {new})
      /\ UNCHANGED <<tableVars, localVars, faultVars, segment, reserves, at, using, locked, refused>>
  BY DEF Alloc, AllocatedToo
<1>3. /\ slot \in Slots /\ share_counter[slot] # 0
      /\ seg # NoSeg /\ seg \in Segments /\ seg.gen <= reserves
  BY <1>1, <1>2, AccessSlot DEF LinkInv, SlotsInv, SegmentAt
<1>4. bytes \in Nat \ {0} /\ arena[p] \in Arenas /\ arena[p].pointer \in Nat
  BY <1>1, DataAssumption DEF LinkInv, DataTypeOK, Arenas
<1>5. /\ IsFiniteSet(allocated') /\ Cardinality(allocated) \in Nat
  <2>1. IsFiniteSet(allocated) /\ Cardinality(allocated) \in Nat
    BY <1>1, FS_CardinalityType DEF ArenaInv
  <2> HIDE DEF new
  <2>2. IsFiniteSet(allocated \cup {new})
    BY <2>1, FS_AddElement
  <2> QED
    BY <1>2, <2>1, <2>2
<1>6. /\ new.seg = seg /\ new.start = arena[p].pointer /\ new.bytes = bytes
      /\ new \in [seg : Segments, start : Nat, bytes : Requests, nth : Nat]
  BY <1>3, <1>4, <1>5
<1>7. UNCHANGED SegmentAt(slot) /\ \A s \in Slots : UNCHANGED SegmentAt(s)
  BY <1>2 DEF SegmentAt, tableVars
<1> HIDE DEF slot, seg, new
<1>8. /\ arena'[p] = [arena[p] EXCEPT !.pointer = @ + bytes]
      /\ arena'[p] \in Arenas /\ WithinCapacity(arena'[p])
      /\ arena'[p].pointer = arena[p].pointer + bytes
      /\ \A q \in Procs : q # p => arena'[q] = arena[q]
  <2>1. /\ arena'[p] = [arena[p] EXCEPT !.pointer = @ + bytes]
        /\ \A q \in Procs : q # p => arena'[q] = arena[q]
    BY <1>1, <1>2 DEF LinkInv, DataTypeOK
  <2> QED
    BY <1>2, <1>4, <2>1 DEF Arenas, WithinCapacity
<1>9. DataTypeOK'
  <2>1. arena' \in [Procs -> Arenas]
    BY <1>1, <1>2, <1>8 DEF LinkInv, DataTypeOK
  <2>2. allocated' \subseteq [seg : Segments, start : Nat, bytes : Requests, nth : Nat]
    BY <1>1, <1>2, <1>6 DEF LinkInv, DataTypeOK
  <2> QED
    BY <1>1, <1>2, <2>1, <2>2 DEF LinkInv, DataTypeOK, tableVars, localVars, faultVars
<1>10. LinkInv'
  BY <1>1, <1>2, <1>9, AccessKeepsLinks DEF tableVars
<1>11. AccessInv'
  BY <1>1, <1>2 DEF AccessInv, localVars
<1>12. /\ \A a \in allocated : a.start \in Nat /\ a.bytes \in Nat
       /\ seg \in missed \/ \A a \in allocated : a.seg = seg => a.start + a.bytes <= arena[p].pointer
  BY <1>1, <1>2, DataAssumption DEF LinkInv, DataTypeOK, ArenaInv, Passed, seg, slot
<1>13. ASSUME seg \notin missed
       PROVE  \A a \in allocated' : a.seg = seg => a.start + a.bytes <= arena'[p].pointer
  <2>1. \A a \in allocated : a.seg = seg => a.start + a.bytes <= arena'[p].pointer
    BY <1>4, <1>8, <1>12, <1>13
  <2>2. new.start + new.bytes <= arena'[p].pointer
    BY <1>4, <1>6, <1>8
  <2> QED
    BY <1>2, <2>1, <2>2
<1>14. ASSUME NEW other, other # seg, NEW pointer, Passed(other, pointer)
       PROVE  \A a \in allocated' : a.seg = other => a.start + a.bytes <= pointer
  BY <1>2, <1>6, <1>14 DEF Passed
<1>15. ArenaInv'
  <2>1. ASSUME NEW q \in Procs, at'[q] = "inside"
        PROVE  /\ WithinCapacity(arena'[q])
               /\ \/ SegmentAt(using[q])' \in missed'
                  \/ Passed(SegmentAt(using[q]), arena[q].pointer)'
    <3>1. using[q] \in Slots /\ share_counter[using[q]] # 0 /\ at[q] = "inside"
      BY <1>1, <1>2, <2>1, AccessSlot
    <3>2. SegmentAt(using[q])' = SegmentAt(using[q]) /\ missed' = missed
      BY <1>2, <1>7, <3>1 DEF faultVars
    <3>3. CASE q = p
      BY <1>8, <1>13, <3>2, <3>3 DEF seg, slot, Passed
    <3>4. CASE q # p /\ SegmentAt(using[q]) \notin missed
      <4>1. SegmentAt(using[q]) # seg
        BY <1>1, <1>2, <1>3, <3>1, <3>4, SlotsApart, InsideAlone DEF seg, slot
      <4>2. WithinCapacity(arena[q]) /\ Passed(SegmentAt(using[q]), arena[q].pointer)
        BY <1>1, <3>1, <3>4 DEF ArenaInv
      <4>3. arena'[q] = arena[q]
        BY <1>8, <3>4
      <4> QED
        BY <1>14, <3>2, <4>1, <4>2, <4>3 DEF Passed
    <3>5. CASE q # p /\ SegmentAt(using[q]) \in missed
      BY <1>1, <1>8, <3>1, <3>2, <3>5 DEF ArenaInv
    <3> QED
      BY <3>3, <3>4, <3>5
  <2>2. ASSUME NEW s \in Slots, share_counter'[s] # 0
        PROVE  \/ SegmentAt(s)' \in missed'
               \/ Passed(SegmentAt(s), data_arena[s].pointer)'
               \/ \E q \in Procs : at'[q] = "inside" /\ using'[q] = s
    <3>1. CASE s = slot
      BY <1>2, <3>1 DEF slot
    <3>2. CASE s # slot
      <4>1. share_counter[s] # 0 /\ SegmentAt(s)' = SegmentAt(s) /\ missed' = missed
            /\ data_arena' = data_arena
        BY <1>2, <1>7, <2>2 DEF tableVars, faultVars
      <4>2. SegmentAt(s) # seg
        BY <1>1, <1>3, <3>2, <4>1, SlotsApart DEF seg
      <4>3. \/ SegmentAt(s) \in missed
            \/ Passed(SegmentAt(s), data_arena[s].pointer)
            \/ \E q \in Procs : at[q] = "inside" /\ using[q] = s
        BY <1>1, <4>1 DEF ArenaInv
      <4> QED
        BY <1>2, <1>14, <4>1, <4>2, <4>3 DEF Passed
    <3> QED
      BY <3>1, <3>2
  <2>3. \A a \in allocated' : a.seg.gen <= reserves'
    BY <1>1, <1>2, <1>3, <1>6 DEF ArenaInv
  <2> QED
    BY <1>5, <2>1, <2>2, <2>3 DEF ArenaInv
<1>16. AllocationsDisjoint'
  <2>1. CASE allocated' = allocated
    BY <1>1, <2>1 DEF AllocationsDisjoint
  <2>2. CASE seg \notin missed /\ allocated' = allocated \cup {new}
    <3>1. \A a \in allocated : a.seg = new.seg => a.start + a.bytes <= new.start
      BY <1>6, <1>12, <2>2
    <3> QED
      BY <1>1, <2>2, <3>1 DEF AllocationsDisjoint
  <2> QED
    BY <1>2, <2>1, <2>2
<1> QED
  BY <1>10, <1>11, <1>15, <1>16 DEF DataInv

(* A refused request changes nothing that the invariant is about.          *)
LEMMA RefusalInside ==
    ASSUME DataInv, NEW p \in Procs, NEW bytes \in Requests, AllocRefused(p, bytes)
    PROVE  DataInv'
<1>1. LinkInv /\ AccessInv /\ ArenaInv /\ AllocationsDisjoint
  BY DEF DataInv
<1>2. /\ UNCHANGED <<tableVars, localVars, faultVars, segment, reserves, at, using, arena, locked,
                     allocated>>
      /\ refused' \in {refused, [refused EXCEPT ![p] = bytes]}
  BY DEF AllocRefused
<1>3. DataTypeOK'
  BY <1>1, <1>2 DEF LinkInv, DataTypeOK, tableVars, localVars, faultVars
<1>4. LinkInv'
  BY <1>1, <1>2, <1>3, AccessKeepsLinks DEF tableVars
<1>5. AccessInv' /\ AllocationsDisjoint'
  BY <1>1, <1>2 DEF AccessInv, AllocationsDisjoint, localVars
<1>6. ArenaInv'
  BY <1>1, <1>2 DEF ArenaInv, Passed, SegmentAt, tableVars, faultVars
<1> QED
  BY <1>4, <1>5, <1>6 DEF DataInv

LEMMA AccessStops ==
    ASSUME DataInv, NEW p \in Procs, StopAccess(p)
    PROVE  DataInv'
<1> DEFINE slot == using[p]
           open == cache[p][slot]
<1>1. LinkInv /\ AccessInv /\ ArenaInv /\ AllocationsDisjoint
  BY DEF DataInv
<1>2. /\ at[p] = "inside"
      /\ data_arena' = [data_arena EXCEPT ![slot] = arena[p]]
      /\ locked' = locked \ {open}
      /\ arena' = [arena EXCEPT ![p] = NoArena]
      /\ at' = [at EXCEPT ![p] = "outside"]
      /\ using' = [using EXCEPT ![p] = Outside]
      /\ refused' = [refused EXCEPT ![p] = 0]
      /\ UNCHANGED <<share_counter, size, name, localVars, faultVars, segment, reserves, allocated>>
  BY DEF StopAccess
<1>3. slot \in Slots
  BY <1>1, <1>2 DEF AccessInv
<1>4. /\ arena[p] \in Arenas /\ WithinCapacity(arena[p])
      /\ SegmentAt(slot) \in missed \/ Passed(SegmentAt(slot), arena[p].pointer)
  BY <1>1, <1>2 DEF LinkInv, DataTypeOK, ArenaInv
<1>5. \A q \in Procs : q # p /\ at[q] = "inside" =>
        /\ cache[q][using[q]] # NoSeg => cache[q][using[q]] # open
        /\ using[q] # slot \/ SegmentAt(slot) \in missed
  <2>1. ASSUME NEW q \in Procs, q # p, at[q] = "inside", cache[q][using[q]] # NoSeg
        PROVE  cache[q][using[q]] # open
    BY <1>1, <1>2, <2>1 DEF AccessInv
  <2>2. ASSUME NEW q \in Procs, q # p, at[q] = "inside", using[q] = slot,
               SegmentAt(slot) \notin missed
        PROVE  FALSE
    BY <1>1, <1>2, <2>2, InsideAlone
  <2> QED
    BY <2>1, <2>2
<1>6. \A s : UNCHANGED SegmentAt(s)
  BY <1>2 DEF SegmentAt
<1> HIDE DEF slot, open
<1>7. DataTypeOK'
  BY <1>1, <1>2, <1>3, <1>4 DEF LinkInv, DataTypeOK, localVars, faultVars, NoArena, Arenas, Outside
<1>8. LinkInv'
  BY <1>1, <1>2, <1>7, AccessKeepsLinks
<1>9. /\ at'[p] = "outside"
      /\ \A q \in Procs : q # p => at'[q] = at[q] /\ arena'[q] = arena[q] /\ using'[q] = using[q]
  BY <1>1, <1>2 DEF LinkInv, DataTypeOK
<1>10. AccessInv'
  BY <1>1, <1>2, <1>5, <1>9 DEF AccessInv, localVars
<1>11. ArenaInv'
  <2>1. ASSUME NEW q \in Procs, at'[q] = "inside"
        PROVE  /\ WithinCapacity(arena'[q])
               /\ \/ SegmentAt(using[q])' \in missed'
                  \/ Passed(SegmentAt(using[q]), arena[q].pointer)'
    <3>1. q # p /\ at[q] = "inside" /\ arena'[q] = arena[q] /\ using'[q] = using[q]
      BY <1>9, <2>1
    <3>2. SegmentAt(using[q])' = SegmentAt(using[q]) /\ missed' = missed /\ allocated' = allocated
      BY <1>2, <3>1 DEF SegmentAt, faultVars
    <3> QED
      BY <1>1, <3>1, <3>2 DEF ArenaInv, Passed
  <2>2. ASSUME NEW s \in Slots, share_counter[s] # 0
        PROVE  \/ SegmentAt(s) \in missed
               \/ Passed(SegmentAt(s), data_arena'[s].pointer)
               \/ \E q \in Procs : at'[q] = "inside" /\ using'[q] = s
    <3>1. CASE s = slot
      <4>1. data_arena'[s] = arena[p]
        BY <1>1, <1>2, <1>3, <3>1 DEF LinkInv, DataTypeOK
      <4> QED
        BY <1>4, <3>1, <4>1
    <3>2. CASE s # slot
      <4>1. data_arena'[s] = data_arena[s]
        BY <1>1, <1>2, <1>3, <3>2 DEF LinkInv, DataTypeOK
      <4>2. \A q \in Procs : at[q] = "inside" /\ using[q] = s => at'[q] = "inside" /\ using'[q] = s
        BY <1>9, <3>2 DEF slot
      <4> QED
        BY <1>1, <2>2, <4>1, <4>2 DEF ArenaInv
    <3> QED
      BY <3>1, <3>2
  <2>3. \A s \in Slots : share_counter'[s] # 0 =>
          \/ SegmentAt(s)' \in missed'
          \/ Passed(SegmentAt(s), data_arena[s].pointer)'
          \/ \E q \in Procs : at'[q] = "inside" /\ using'[q] = s
    BY <1>2, <1>6, <2>2 DEF Passed, faultVars
  <2> QED
    BY <1>1, <1>2, <2>1, <2>3 DEF ArenaInv
<1>12. AllocationsDisjoint'
  BY <1>1, <1>2 DEF AllocationsDisjoint
<1> QED
  BY <1>8, <1>10, <1>11, <1>12 DEF DataInv

-----------------------------------------------------------------------------
LEMMA DataStepInv == DataInv /\ [Next]_vars => DataInv'
<1> SUFFICES ASSUME DataInv, [Next]_vars PROVE DataInv'
  OBVIOUS
<1>1. ASSUME NEW p \in Procs, TableStep(p) PROVE DataInv'
  BY <1>1, TableStepInv, TableKeepsAccess, TableKeepsArenas DEF DataInv
<1>2. ASSUME NEW p \in Procs, AccessStep(p) PROVE DataInv'
  BY <1>2, AccessBegins, AccessEnters, AllocInside, RefusalInside, AccessStops DEF AccessStep
<1>3. CASE DataFree
  BY <1>3, DataAssumption, DataFreeInv, TableKeepsAccess, TableKeepsArenas DEF DataInv
<1>4. CASE UNCHANGED vars
  BY <1>4
  DEF vars, tableVars, localVars, accessVars, faultVars, DataInv, LinkInv, DataTypeOK, SlotsInv,
      CachesInv, CounterCoversLinks, Linkers, EveryoneSharesOneSegment, AccessInv, ArenaInv,
      Passed, SegmentAt, AllocationsDisjoint
<1> QED
  BY <1>1, <1>2, <1>3, <1>4 DEF Next

THEOREM DataInvariant == Spec => []DataInv
  BY DataInitInv, DataStepInv, PTL DEF Spec

(* The table and every process's caches and access keep their types, and   *)
(* no arena in the table is moved beyond its capacity (simple_arena.c 54). *)
THEOREM DataTypeCorrect == Spec => []DataTypeOK
<1>1. DataInv => DataTypeOK
  BY DEF DataInv, LinkInv
<1> QED
  BY <1>1, DataInvariant, PTL

(* The share counter never falls below the number of processes that are    *)
(* linked (wimp_data.c 351), whether or not they could open the segment, so *)
(* a slot is not cleared under one.                                        *)
THEOREM CounterCorrect == Spec => []CounterCoversLinks
<1>1. DataInv => CounterCoversLinks
  BY DEF DataInv, LinkInv
<1> QED
  BY <1>1, DataInvariant, PTL

(* All who have a name's segment open work on the segment that the next to *)
(* link will open.                                                         *)
THEOREM OneSegmentShared == Spec => []EveryoneSharesOneSegment
<1>1. DataInv => EveryoneSharesOneSegment
  BY DEF DataInv, LinkInv
<1> QED
  BY <1>1, DataInvariant, PTL

(* The requests that sarena_alloc grants get bytes of their own, though    *)
(* every access works on a copy of the arena that it puts back only at its *)
(* end, in every segment that all who linked to it could open.  Nothing is *)
(* said of the requests it refuses, which are told to use offset 0.        *)
THEOREM AllocationsNeverOverlap == Spec => []AllocationsDisjoint
<1>1. DataInv => AllocationsDisjoint
  BY DEF DataInv
<1> QED
  BY <1>1, DataInvariant, PTL

-----------------------------------------------------------------------------
(* What sarena_init finds in a slot that is given out again: no arena, or  *)
(* one of the size that is reserved now.                                   *)
Fits ==
    \A s \in Slots :
        share_counter[s] = 0 /\ share_counter'[s] # 0 =>
            data_arena[s].capacity \in {0, size'[s]}

(* Where that is so the arena, in the table or in the hands of an access,  *)
(* is as large as the segment.                                             *)
BoundsInv ==
    /\ \A s \in Slots : share_counter[s] # 0 => data_arena[s].capacity = SegmentAt(s).size
    /\ \A p \in Procs : at[p] = "inside" => arena[p].capacity = SegmentAt(using[p]).size
    /\ AllocationsInBounds

LEMMA TableKeepsBounds ==
    ASSUME DataInv, BoundsInv, Fits, NEW p \in Procs, TableStep(p) \/ DataFree
    PROVE  BoundsInv'
<1>1. LinkInv /\ AccessInv
  BY DEF DataInv
<1>2. /\ allocated' = allocated /\ at' = at /\ using' = using /\ arena' = arena
      /\ \A q \in Procs : at[q] # "outside" => SegmentAt(using[q])' = SegmentAt(using[q])
  BY <1>1, TableKeepsAccess, TableKeepsAccessSlot DEF accessVars
<1>3. ASSUME NEW s \in Slots, share_counter'[s] # 0
      PROVE  data_arena'[s].capacity = segment'[name'[s]].size
  <2>1. CASE /\ share_counter[s] # 0
             /\ segment'[name'[s]] = segment[name[s]]
             /\ data_arena'[s] = data_arena[s]
    BY <2>1 DEF BoundsInv, SegmentAt
  <2>2. CASE /\ share_counter[s] = 0
             /\ segment'[name'[s]].size = size'[s]
             /\ data_arena'[s] = ArenaInit(data_arena[s], size'[s])
    <3>1. data_arena[s] \in Arenas /\ data_arena[s].capacity \in {0, size'[s]}
      BY <1>1, <1>3, <2>2 DEF LinkInv, DataTypeOK, Fits
    <3> QED
      BY <2>2, <3>1 DEF ArenaInit, Arenas
  <2> QED
    BY <1>1, <1>3, <2>1, <2>2, TableKeepsSlots
<1>4. \A q \in Procs : at'[q] = "inside" => arena'[q].capacity = SegmentAt(using[q])'.size
  BY <1>2 DEF BoundsInv
<1>5. AllocationsInBounds'
  BY <1>2 DEF BoundsInv, AllocationsInBounds
<1> QED
  BY <1>3, <1>4, <1>5 DEF BoundsInv, SegmentAt

LEMMA AccessKeepsBounds ==
    ASSUME DataInv, BoundsInv, NEW p \in Procs, AccessStep(p)
    PROVE  BoundsInv'
<1> USE DEF DataInv, LinkInv, DataTypeOK
<1>1. ASSUME NEW n \in Names, Access(p, n) PROVE BoundsInv'
  BY <1>1 DEF Access, Idle, BoundsInv, AllocationsInBounds, SegmentAt, tableVars
<1>2. CASE AccessLocked(p) \/ AccessUnlocked(p)
  <2> DEFINE s == using[p]
  <2>1. /\ at[p] = "waiting" /\ arena' = [arena EXCEPT ![p] = data_arena[s]]
        /\ at' = [at EXCEPT ![p] = "inside"]
        /\ UNCHANGED <<tableVars, segment, using, allocated>>
    BY <1>2 DEF AccessLocked, AccessUnlocked
  <2>2. s \in Slots /\ share_counter[s] # 0
    BY <2>1, AccessSlot
  <2>3. data_arena[s].capacity = SegmentAt(s).size
    BY <2>2 DEF BoundsInv
  <2> HIDE DEF s
  <2>4. ASSUME NEW q \in Procs, at'[q] = "inside"
        PROVE  arena'[q].capacity = SegmentAt(using[q]).size
    BY <2>1, <2>3, <2>4 DEF BoundsInv, s
  <2> QED
    BY <2>1, <2>4 DEF BoundsInv, AllocationsInBounds, SegmentAt, tableVars
<1>3. ASSUME NEW bytes \in Requests, Alloc(p, bytes) PROVE BoundsInv'
  <2> DEFINE seg == SegmentAt(using[p])
             new == [seg |-> seg, start |-> arena[p].pointer, bytes |-> bytes,
                     nth |-> Cardinality(allocated)]
  <2>1. /\ at[p] = "inside" /\ arena[p].pointer + bytes < arena[p].capacity
        /\ arena' = [arena EXCEPT ![p].pointer = @ + bytes]
        /\ allocated' \in {allocated, allocated \cup {new}}
        /\ UNCHANGED <<tableVars, segment, at, using>>
    BY <1>3 DEF Alloc, AllocatedToo
  <2>2. arena[p].capacity = seg.size /\ arena[p] \in Arenas
    BY <2>1 DEF BoundsInv
  <2>3. new.start + new.bytes <= new.seg.size
    BY <2>1, <2>2, DataAssumption DEF Arenas
  <2> HIDE DEF new
  <2>4. AllocationsInBounds'
    BY <2>1, <2>3 DEF BoundsInv, AllocationsInBounds
  <2>5. ASSUME NEW q \in Procs, at'[q] = "inside"
        PROVE  arena'[q].capacity = SegmentAt(using[q]).size
    <3>1. arena'[q].capacity = arena[q].capacity
      BY <2>1, <2>2 DEF Arenas
    <3> QED
      BY <2>1, <2>5, <3>1 DEF BoundsInv
  <2> QED
    BY <2>1, <2>4, <2>5 DEF BoundsInv, SegmentAt, tableVars
<1>4. CASE StopAccess(p)
  <2> DEFINE r == using[p]
  <2>1. /\ at[p] = "inside" /\ data_arena' = [data_arena EXCEPT ![r] = arena[p]]
        /\ arena' = [arena EXCEPT ![p] = NoArena]
        /\ at' = [at EXCEPT ![p] = "outside"]
        /\ using' = [using EXCEPT ![p] = Outside]
        /\ UNCHANGED <<share_counter, name, segment, allocated>>
    BY <1>4 DEF StopAccess
  <2>2. r \in Slots
    BY <2>1, AccessSlot
  <2>3. arena[p].capacity = SegmentAt(r).size
    BY <2>1 DEF BoundsInv
  <2> HIDE DEF r
  <2>4. ASSUME NEW s \in Slots, share_counter'[s] # 0
        PROVE  data_arena'[s].capacity = SegmentAt(s).size
    BY <2>1, <2>2, <2>3, <2>4 DEF BoundsInv
  <2>5. ASSUME NEW q \in Procs, at'[q] = "inside"
        PROVE  arena'[q].capacity = SegmentAt(using'[q]).size
    BY <2>1, <2>5 DEF BoundsInv
  <2> QED
    BY <2>1, <2>4, <2>5 DEF BoundsInv, AllocationsInBounds, SegmentAt
<1>5. ASSUME NEW bytes \in Requests, AllocRefused(p, bytes) PROVE BoundsInv'
  BY <1>5 DEF AllocRefused, BoundsInv, AllocationsInBounds, SegmentAt, tableVars
<1> QED
  BY <1>1, <1>2, <1>3, <1>4, <1>5 DEF AccessStep

(* "Alloc out of bounds!" (simple_arena.c 54) cannot happen as long as no  *)
(* slot is given out again with an arena of another size in it: that       *)
(* sarena_init keeps the old capacity is all that is wrong with the bound. *)
THEOREM InBoundsWhereArenasFit == Spec /\ [][Fits]_vars => []AllocationsInBounds
<1>1. Init => BoundsInv
  BY DEF Init, BoundsInv, AllocationsInBounds
<1>2. DataInv /\ BoundsInv /\ [Next]_vars /\ [Fits]_vars => BoundsInv'
  <2> SUFFICES ASSUME DataInv, BoundsInv, [Next]_vars, [Fits]_vars PROVE BoundsInv'
    OBVIOUS
  <2>1. CASE UNCHANGED vars
    BY <2>1
    DEF vars, tableVars, localVars, accessVars, BoundsInv, AllocationsInBounds, SegmentAt
  <2>2. ASSUME Fits, NEW p \in Procs, TableStep(p) PROVE BoundsInv'
    BY <2>2, TableKeepsBounds
  <2>3. CASE Fits /\ DataFree
    BY <2>3, DataAssumption, TableKeepsBounds
  <2>4. ASSUME NEW p \in Procs, AccessStep(p) PROVE BoundsInv'
    BY <2>4, AccessKeepsBounds
  <2> QED
    BY <2>1, <2>2, <2>3, <2>4 DEF Next
<1>3. BoundsInv => AllocationsInBounds
  BY DEF BoundsInv
<1> QED
  BY <1>1, <1>2, <1>3, DataInvariant, PTL DEF Spec
=============================================================================
