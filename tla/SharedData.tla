----------------------------- MODULE SharedData -----------------------------
(***************************************************************************)
(* The shared data space (wimp_data.c, utility/simple_arena.c).            *)
(*                                                                         *)
(* The master creates a table of slots in shared memory.  A slot names a   *)
(* further shared segment, counts the processes that share it and holds    *)
(* the arena allocator of it.  Reserving, linking and unlinking scan the   *)
(* table under its lock and are one step each.  An access holds the lock   *)
(* of the segment instead, and takes the arena out of the table and puts   *)
(* it back without the table's lock.                                       *)
(*                                                                         *)
(* Of the programs it is assumed that they follow wimp_data.h and the      *)
(* tests: they link before they access or unlink, do neither in the middle *)
(* of an access, reserve a name that is not in the table, and the master   *)
(* frees the table when it is the last to be linked to it.  Assertions are *)
(* compiled out, as NDEBUG does.                                           *)
(***************************************************************************)
EXTENDS Integers, FiniteSets

CONSTANTS
    Procs, Master,  \* the processes and the one that called wimp_data_init
    Names,          \* names of reserved data
    NoName,         \* name of a clean slot
    NoSeg,          \* NULL in the cache of segments
    SlotCount,      \* WIMP_MAX_SHARED_SLOTS, 64 in the code
    Sizes,          \* sizes that are reserved
    Requests,       \* and sizes that are allocated
    MaxReserves,    \* bound: reservations
    MaxCount,       \* bound: the share counter
    MaxMissed       \* bound: the segments that some process fails to open

ASSUME DataAssumption ==
    /\ Master \in Procs /\ IsFiniteSet(Procs)
    /\ NoName \notin Names
    /\ SlotCount \in Nat \ {0}
    /\ Sizes \subseteq Nat \ {0} /\ Requests \subseteq Nat \ {0}
    /\ MaxReserves \in Nat /\ MaxCount \in Nat \ {0}
    /\ MaxMissed \in Nat

Slots == 1..SlotCount
Outside == 0    \* no slot

(* A segment of shared memory: its name, which of the reservations created *)
(* it, and its size.                                                       *)
Segments == [name : Names, gen : 1..MaxReserves, size : Sizes]
ASSUME NoSegAssumption == NoSeg \notin Segments

Arenas == [capacity : Nat, pointer : Nat]
NoArena == [capacity |-> 0, pointer |-> 0]

VARIABLES
    share_counter, size, name, data_arena,  \* the table, slot by slot
    segment,    \* what p_shm_new finds under each name
    linked,     \* s_IsTableLinked of each process
    cache,      \* s_DataTableCache: the segments it has open, slot by slot
    cachemap,   \* s_DataTableCacheMap: the slot it remembers for a name
    at,         \* "outside", "waiting" for the segment's lock, or "inside" an access
    using,      \* the slot of that access
    arena,      \* the WimpDataArena that access filled in
    locked,     \* the segments whose lock is taken
    reserves,   \* how many reservations there have been
    allocated,  \* history: what sarena_alloc has handed out, see AllocatedToo
    refused,    \* the bytes of this access that 0 was returned for, though they fit
    missed,     \* history: the segments that a process failed to open
    stuck       \* the table's lock was left taken for good

tableVars == <<share_counter, size, name, data_arena>>
localVars == <<linked, cache, cachemap>>
accessVars == <<at, using, arena, locked, allocated, refused>>
faultVars == <<missed, stuck>>
vars == <<tableVars, localVars, accessVars, faultVars, segment, reserves>>

(* What sarena_alloc asserts (simple_arena.c 54) of the pointer it moves.  *)
WithinCapacity(a) == a.pointer <= a.capacity

DataTypeOK ==
    /\ share_counter \in [Slots -> Nat]
    /\ size \in [Slots -> Nat]
    /\ name \in [Slots -> Names \cup {NoName}]
    /\ data_arena \in [Slots -> Arenas]
    /\ segment \in [Names -> Segments \cup {NoSeg}]
    /\ linked \in [Procs -> BOOLEAN]
    /\ cache \in [Procs -> [Slots -> Segments \cup {NoSeg}]]
    /\ cachemap \in [Procs -> [Names -> Slots \cup {Outside}]]
    /\ at \in [Procs -> {"outside", "waiting", "inside"}]
    /\ using \in [Procs -> Slots \cup {Outside}]
    /\ arena \in [Procs -> Arenas]
    /\ locked \subseteq Segments
    /\ reserves \in 0..MaxReserves
    /\ allocated \subseteq [seg : Segments, start : Nat, bytes : Requests, nth : Nat]
    /\ refused \in [Procs -> Requests \cup {0}]
    /\ missed \subseteq Segments
    /\ stuck \in BOOLEAN
    /\ \A s \in Slots : WithinCapacity(data_arena[s])

(* wimp_data_init has run in the master.                                   *)
Init ==
    /\ share_counter = [s \in Slots |-> 0]
    /\ size = [s \in Slots |-> 0]
    /\ name = [s \in Slots |-> NoName]
    /\ data_arena = [s \in Slots |-> NoArena]
    /\ segment = [n \in Names |-> NoSeg]
    /\ linked = [p \in Procs |-> p = Master]
    /\ cache = [p \in Procs |-> [s \in Slots |-> NoSeg]]
    /\ cachemap = [p \in Procs |-> [n \in Names |-> Outside]]
    /\ at = [p \in Procs |-> "outside"]
    /\ using = [p \in Procs |-> Outside]
    /\ arena = [p \in Procs |-> NoArena]
    /\ locked = {}
    /\ reserves = 0
    /\ allocated = {}
    /\ refused = [p \in Procs |-> 0]
    /\ missed = {}
    /\ stuck = FALSE

-----------------------------------------------------------------------------
(* What a scan of the table finds: the first of the slots that it accepts. *)
First(accepted) == {s \in accepted : \A i \in accepted : s <= i}
FreeSlots == {s \in Slots : share_counter[s] = 0}
SlotsOf(n) == {s \in Slots : share_counter[s] # 0 /\ name[s] = n}

SegmentAt(s) == segment[name[s]]

Idle(p) == linked[p] /\ at[p] = "outside"

(* ... and gets the lock of the table.                                     *)
AtTable(p) == Idle(p) /\ ~stuck

(* sarena_init refuses an arena that has a capacity already.               *)
ArenaInit(a, capacity) == IF a.capacity # 0 THEN a ELSE [a EXCEPT !.capacity = capacity]

LinkToProcess(p) ==
    /\ linked[Master]
    /\ ~linked[p]
    /\ linked' = [linked EXCEPT ![p] = TRUE]
    /\ cache' = [cache EXCEPT ![p] = [s \in Slots |-> NoSeg]]
    /\ cachemap' = [cachemap EXCEPT ![p] = [n \in Names |-> Outside]]
    /\ UNCHANGED <<tableVars, accessVars, faultVars, segment, reserves>>

(* The segments are closed; the share counters stay as they are.           *)
UnlinkFromProcess(p) ==
    /\ p # Master
    /\ Idle(p)
    /\ linked' = [linked EXCEPT ![p] = FALSE]
    /\ cache' = [cache EXCEPT ![p] = [s \in Slots |-> NoSeg]]
    /\ cachemap' = [cachemap EXCEPT ![p] = [n \in Names |-> Outside]]
    /\ UNCHANGED <<tableVars, accessVars, faultVars, segment, reserves>>

(* wimp_data_reserve: a segment left under the name is removed first.      *)
Reserve(p, n, bytes) ==
    /\ AtTable(p)
    /\ SlotsOf(n) = {}
    /\ reserves < MaxReserves
    /\ \E s \in First(FreeSlots) :
        LET seg == [name |-> n, gen |-> reserves + 1, size |-> bytes]
        IN  /\ name' = [name EXCEPT ![s] = n]
            /\ segment' = [segment EXCEPT ![n] = seg]
            /\ data_arena' = [data_arena EXCEPT ![s] = ArenaInit(@, bytes)]
            /\ cache' = [cache EXCEPT ![p][s] = seg]
            /\ cachemap' = [cachemap EXCEPT ![p][n] = s]
            /\ share_counter' = [share_counter EXCEPT ![s] = @ + 1]
            /\ size' = [size EXCEPT ![s] = bytes]
    /\ reserves' = reserves + 1
    /\ UNCHANGED <<linked, accessVars, faultVars>>

(* No shared memory to be had: the name stays behind in the free slot.     *)
ReserveFails(p, n) ==
    /\ AtTable(p)
    /\ SlotsOf(n) = {}
    /\ \E s \in First(FreeSlots) : name' = [name EXCEPT ![s] = n]
    /\ segment' = [segment EXCEPT ![n] = NoSeg]
    /\ UNCHANGED <<share_counter, size, data_arena, localVars, accessVars, faultVars, reserves>>

(* Slip: a process that links is not counted.                              *)
LinkToDataNotCounted(p, n) ==
    /\ AtTable(p)
    /\ \E s \in First(SlotsOf(n)) :
        /\ cache[p][s] = NoSeg
        /\ cache' = [cache EXCEPT ![p][s] = segment[n]]
        /\ cachemap' = [cachemap EXCEPT ![p][n] = s]
    /\ UNCHANGED <<tableVars, linked, accessVars, faultVars, segment, reserves>>

LinkToData(p, n) ==
    /\ AtTable(p)
    /\ \E s \in First(SlotsOf(n)) :
        /\ cache[p][s] = NoSeg
        /\ share_counter[s] < MaxCount
        /\ cache' = [cache EXCEPT ![p][s] = segment[n]]
        /\ share_counter' = [share_counter EXCEPT ![s] = @ + 1]
        /\ cachemap' = [cachemap EXCEPT ![p][n] = s]
    /\ UNCHANGED <<size, name, data_arena, linked, accessVars, faultVars, segment, reserves>>

(* The segment cannot be opened.  Nothing looks at that: the process is    *)
(* counted, told of success and left with NULL in its cache.               *)
LinkToDataUnopened(p, n) ==
    /\ AtTable(p)
    /\ \E s \in First(SlotsOf(n)) :
        /\ cache[p][s] = NoSeg
        /\ share_counter[s] < MaxCount
        /\ share_counter' = [share_counter EXCEPT ![s] = @ + 1]
        /\ cachemap' = [cachemap EXCEPT ![p][n] = s]
    /\ missed' = missed \cup {segment[n]}
    /\ Cardinality(missed') <= MaxMissed
    /\ UNCHANGED <<size, name, data_arena, linked, cache, accessVars, stuck, segment, reserves>>

(* Slip: the slot is cleared whoever else is linked to it.                 *)
UnlinkFromDataClears(p, n) ==
    /\ AtTable(p)
    /\ \E s \in First(SlotsOf(n)) :
        /\ cachemap[p][n] = s
        /\ share_counter' = [share_counter EXCEPT ![s] = 0]
        /\ cache' = [cache EXCEPT ![p][s] = NoSeg]
        /\ size' = [size EXCEPT ![s] = 0]
        /\ name' = [name EXCEPT ![s] = NoName]
        /\ data_arena' = [data_arena EXCEPT ![s] = ArenaInit(@, 0)]
    /\ cachemap' = [cachemap EXCEPT ![p][n] = Outside]
    /\ UNCHANGED <<linked, accessVars, faultVars, segment, reserves>>

(* The last one out clears the slot.                                       *)
UnlinkFromData(p, n) ==
    /\ AtTable(p)
    /\ \E s \in First(SlotsOf(n)) :
        /\ cachemap[p][n] = s
        /\ share_counter' = [share_counter EXCEPT ![s] = @ - 1]
        /\ cache' = [cache EXCEPT ![p][s] = NoSeg]
        /\ IF share_counter[s] = 1
           THEN /\ size' = [size EXCEPT ![s] = 0]
                /\ name' = [name EXCEPT ![s] = NoName]
                /\ data_arena' = [data_arena EXCEPT ![s] = ArenaInit(@, 0)]
           ELSE UNCHANGED <<size, name, data_arena>>
    /\ cachemap' = [cachemap EXCEPT ![p][n] = Outside]
    /\ UNCHANGED <<linked, accessVars, faultVars, segment, reserves>>

(* HashString_remove follows NULL when the name is the second of its       *)
(* bucket: the process ends with the table locked.  Which names share a    *)
(* bucket, and which of them came first, is left open.                     *)
UnlinkFromDataCrashes(p, n) ==
    /\ AtTable(p)
    /\ \E m \in Names \ {n} : cachemap[p][m] # Outside
    /\ \E s \in First(SlotsOf(n)) :
        /\ cachemap[p][n] = s
        /\ share_counter' = [share_counter EXCEPT ![s] = @ - 1]
    /\ stuck' = TRUE
    /\ linked' = [linked EXCEPT ![p] = FALSE]
    /\ cache' = [cache EXCEPT ![p] = [s \in Slots |-> NoSeg]]
    /\ cachemap' = [cachemap EXCEPT ![p] = [m \in Names |-> Outside]]
    /\ UNCHANGED <<size, name, data_arena, accessVars, missed, segment, reserves>>

(* wimp_data_free: what has a name is linked, for which the table is       *)
(* locked, and removed, then the whole table is cleared.                   *)
DataFree ==
    /\ Idle(Master)
    /\ \A p \in Procs \ {Master} : ~linked[p]
    /\ stuck => \A s \in Slots : name[s] = NoName \/ cache[Master][s] # NoSeg
    /\ segment' = [n \in Names |->
                       IF SlotsOf(n) # {} \/ \E s \in Slots : cache[Master][s] = segment[n]
                       THEN NoSeg ELSE segment[n]]
    /\ cache' = [cache EXCEPT ![Master] = [s \in Slots |-> NoSeg]]
    /\ cachemap' = [cachemap EXCEPT ![Master] = [n \in Names |-> Outside]]
    /\ linked' = [linked EXCEPT ![Master] = FALSE]
    /\ share_counter' = [s \in Slots |-> 0]
    /\ size' = [s \in Slots |-> 0]
    /\ name' = [s \in Slots |-> NoName]
    /\ data_arena' = [s \in Slots |-> NoArena]
    /\ UNCHANGED <<accessVars, faultVars, reserves>>

-----------------------------------------------------------------------------
(* wimp_data_access up to p_shm_lock, which blocks.                        *)
Access(p, n) ==
    /\ Idle(p)
    /\ cachemap[p][n] # Outside
    /\ at' = [at EXCEPT ![p] = "waiting"]
    /\ using' = [using EXCEPT ![p] = cachemap[p][n]]
    /\ UNCHANGED <<tableVars, localVars, faultVars, segment, reserves, arena, locked,
                   allocated, refused>>

(* Slip: the lock is not waited for.                                       *)
AccessLockedIgnored(p) ==
    /\ at[p] = "waiting"
    /\ cache[p][using[p]] # NoSeg
    /\ locked' = locked \cup {cache[p][using[p]]}
    /\ arena' = [arena EXCEPT ![p] = data_arena[using[p]]]
    /\ at' = [at EXCEPT ![p] = "inside"]
    /\ UNCHANGED <<tableVars, localVars, faultVars, segment, reserves, using, allocated, refused>>

(* ... and from there on: the arena is copied out of the table.            *)
AccessLocked(p) ==
    /\ at[p] = "waiting"
    /\ cache[p][using[p]] \notin locked \cup {NoSeg}
    /\ locked' = locked \cup {cache[p][using[p]]}
    /\ arena' = [arena EXCEPT ![p] = data_arena[using[p]]]
    /\ at' = [at EXCEPT ![p] = "inside"]
    /\ UNCHANGED <<tableVars, localVars, faultVars, segment, reserves, using, allocated, refused>>

(* p_shm_lock fails on NULL, and nothing looks at that either.             *)
AccessUnlocked(p) ==
    /\ at[p] = "waiting"
    /\ cache[p][using[p]] = NoSeg
    /\ arena' = [arena EXCEPT ![p] = data_arena[using[p]]]
    /\ at' = [at EXCEPT ![p] = "inside"]
    /\ UNCHANGED <<tableVars, localVars, faultVars, segment, reserves, using, locked,
                   allocated, refused>>

(* The history of what is handed out, numbered so that nothing is lost in  *)
(* it.  It ends for a segment that a process has failed to open: such a    *)
(* process takes no lock and puts an old arena back.                       *)
AllocatedToo(seg, start, bytes) ==
    IF seg \in missed THEN allocated
    ELSE allocated \cup
             {[seg |-> seg, start |-> start, bytes |-> bytes, nth |-> Cardinality(allocated)]}

(* Slip: the capacity is not looked at.                                    *)
AllocUnchecked(p, bytes) ==
    /\ at[p] = "inside"
    /\ arena[p].pointer + bytes <= arena[p].capacity + 1
    /\ arena' = [arena EXCEPT ![p].pointer = @ + bytes]
    /\ allocated' = AllocatedToo(SegmentAt(using[p]), arena[p].pointer, bytes)
    /\ UNCHANGED <<tableVars, localVars, faultVars, segment, reserves, at, using, locked, refused>>

(* sarena_alloc hands out what lies behind the pointer, short of the last  *)
(* byte.                                                                   *)
Alloc(p, bytes) ==
    /\ at[p] = "inside"
    /\ arena[p].pointer + bytes < arena[p].capacity
    /\ arena' = [arena EXCEPT ![p].pointer = @ + bytes]
    /\ allocated' = AllocatedToo(SegmentAt(using[p]), arena[p].pointer, bytes)
    /\ UNCHANGED <<tableVars, localVars, faultVars, segment, reserves, at, using, locked, refused>>

(* Otherwise it returns (SArenaPtr)NULL, which is the offset 0, and the    *)
(* arena stays as it is.  A request that fits exactly passes the assertion *)
(* and is refused all the same.                                            *)
AllocRefused(p, bytes) ==
    /\ at[p] = "inside"
    /\ arena[p].pointer + bytes >= arena[p].capacity
    /\ refused' = IF arena[p].pointer + bytes = arena[p].capacity
                  THEN [refused EXCEPT ![p] = bytes] ELSE refused
    /\ UNCHANGED <<tableVars, localVars, faultVars, segment, reserves, at, using, arena, locked,
                   allocated>>

(* Slip: the segment stays locked.                                         *)
StopAccessStillLocked(p) ==
    /\ at[p] = "inside"
    /\ data_arena' = [data_arena EXCEPT ![using[p]] = arena[p]]
    /\ arena' = [arena EXCEPT ![p] = NoArena]
    /\ at' = [at EXCEPT ![p] = "outside"]
    /\ using' = [using EXCEPT ![p] = Outside]
    /\ refused' = [refused EXCEPT ![p] = 0]
    /\ UNCHANGED <<share_counter, size, name, localVars, faultVars, segment, reserves, locked,
                   allocated>>

StopAccess(p) ==
    /\ at[p] = "inside"
    /\ data_arena' = [data_arena EXCEPT ![using[p]] = arena[p]]
    /\ locked' = locked \ {cache[p][using[p]]}
    /\ arena' = [arena EXCEPT ![p] = NoArena]
    /\ at' = [at EXCEPT ![p] = "outside"]
    /\ using' = [using EXCEPT ![p] = Outside]
    /\ refused' = [refused EXCEPT ![p] = 0]
    /\ UNCHANGED <<share_counter, size, name, localVars, faultVars, segment, reserves, allocated>>

TableStep(p) ==
    \/ LinkToProcess(p)
    \/ UnlinkFromProcess(p)
    \/ \E n \in Names :
        \/ \E bytes \in Sizes : Reserve(p, n, bytes)
        \/ ReserveFails(p, n)
        \/ LinkToData(p, n)
        \/ LinkToDataUnopened(p, n)
        \/ UnlinkFromData(p, n)
        \/ UnlinkFromDataCrashes(p, n)

AccessStep(p) ==
    \/ \E n \in Names : Access(p, n)
    \/ AccessLocked(p)
    \/ AccessUnlocked(p)
    \/ \E bytes \in Requests : Alloc(p, bytes) \/ AllocRefused(p, bytes)
    \/ StopAccess(p)

Next == DataFree \/ \E p \in Procs : TableStep(p) \/ AccessStep(p)

Spec == Init /\ [][Next]_vars

(* Programs end every access they begin, as wimp_data.h demands; the lock  *)
(* of a segment lets every process in that waits while it is freed again   *)
(* and again.                                                              *)
FairSpec ==
    /\ Spec
    /\ \A p \in Procs :
        SF_vars(AccessLocked(p)) /\ WF_vars(AccessUnlocked(p)) /\ WF_vars(StopAccess(p))

-----------------------------------------------------------------------------
(* The processes that have linked to a slot, as far as they know.          *)
Linkers(s) == {p \in Procs : \E n \in Names : cachemap[p][n] = s}

(* "This accessing means that the share counter will remain >= 1" (351):   *)
(* the counter is never less than the number of processes that are linked, *)
(* those that failed to open the segment among them.                       *)
CounterCoversLinks == \A s \in Slots : share_counter[s] >= Cardinality(Linkers(s))

(* A process that has a segment open finds the slot under the same name    *)
(* and has the segment open that everyone who links will open: slots are   *)
(* not recycled under a process, and no two of them work on different      *)
(* memory.                                                                 *)
EveryoneSharesOneSegment ==
    \A p \in Procs, s \in Slots :
        cache[p][s] # NoSeg =>
            /\ name[s] = cache[p][s].name
            /\ segment[name[s]] = cache[p][s]
            /\ cachemap[p][name[s]] = s

(* "Lock the data here to prevent other access of the arena" (340): of the *)
(* processes that share a segment one at a time works on a copy of its     *)
(* arena, so that what sarena_alloc hands out, until a process fails to    *)
(* open the segment, is nobody else's.  The requests that it refuses are   *)
(* another matter (HandedOutOnce).                                         *)
AllocationsDisjoint ==
    \A a, b \in allocated :
        a.seg = b.seg /\ a # b =>
            a.start + a.bytes <= b.start \/ b.start + b.bytes <= a.start

(* A process that asks for access gets it, however often others come first.*)
AccessGranted == \A p \in Procs : at[p] = "waiting" ~> at[p] = "inside"

(* "Alloc out of bounds!" (simple_arena.c 54): what sarena_alloc hands out *)
(* lies inside the segment.                                                *)
AllocationsInBounds == \A a \in allocated : a.start + a.bytes <= a.seg.size

(* The assertion of simple_arena.c 54 lets a request pass that fits        *)
(* exactly, and simple_arena.h 103 says that an allocation increases the   *)
(* pointer: the location returned for it is no one else's.                 *)
HandedOutOnce ==
    \A p \in Procs, a \in allocated :
        refused[p] # 0 /\ a.seg = SegmentAt(using[p]) => refused[p] <= a.start
=============================================================================
