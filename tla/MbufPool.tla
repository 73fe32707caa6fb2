------------------------------ MODULE MbufPool ------------------------------
(***************************************************************************)
(* The packet-buffer allocator MbufPoll and the segment operations of Mbuf *)
(* in src/emu/core/mbuf.go, as used by the single worker thread that owns  *)
(* the pool.                                                               *)
(*                                                                         *)
(* A pool has one MbufPollSize per entry of poolSizes; each keeps a LIFO   *)
(* cache of freed mbufs (at most maxCacheSize) and four counters.  An     *)
(* mbuf is a model value; the heap is the set Mbufs, and an mbuf that is  *)
(* neither reachable from the user nor cached is garbage that new(Mbuf)   *)
(* may return again.  Byte contents are left out: only the offsets and    *)
(* lengths the code keeps are modelled, scaled down (PoolSizes, HEADROOM).*)
(*                                                                         *)
(* A chain is its head followed by aux[h], the segments the dlist ring    *)
(* links after the head.  held is the set of heads the worker holds       *)
(* (after Alloc, GetContiguous or DetachFirst/DetachLast).                *)
(***************************************************************************)
EXTENDS Naturals, Sequences, SequencesExt, FiniteSets, Counters

CONSTANTS
  Mbufs,         \* the heap objects new(Mbuf) may return
  PoolSizes,     \* poolSizes: the buffer size of each MbufPollSize
  MaxCacheSize,  \* maxCacheSize argument of MbufPoll.Init
  HEADROOM,      \* lRTE_PKTMBUF_HEADROOM
  AllocSizes,    \* sizes the worker passes to Alloc
  Lens,          \* byte counts passed to Prepend/Append/Trim/Adj
  LenWidth,      \* bit width of pktLen (uint32: 32)
  NoPool         \* model value: o.pool of an object never allocated

ASSUME /\ PoolSizes \in Seq(Nat \ {0}) /\ Len(PoolSizes) >= 1
       /\ \A i \in 1..(Len(PoolSizes) - 1) : PoolSizes[i] < PoolSizes[i + 1]
       /\ MaxCacheSize \in Nat /\ HEADROOM \in Nat
       /\ AllocSizes \subseteq Nat /\ Lens \subseteq Nat \ {0}

Classes == 1..Len(PoolSizes)

(* Mutant: pktLen arithmetic done without the uint32 wrap.                *)
U32NoWrap(x) == x

(* pktLen is a uint32: its updates wrap.                                   *)
U32(x) == x % 2^LenWidth

VARIABLES
  cache,   \* cache[c]: the mlist of pool c, last element popped first
  stats,   \* stats[c]: CntAlloc, CntFree, CntCacheAlloc, CntCacheFree
  pool,    \* pool[m]: index of m.pool
  mb,      \* mb[m]: dataOff, dataLen, pktLen, nbSegs of m
  aux,     \* aux[h]: the segments chained after h
  held,    \* heads the worker holds
  wasSeg,  \* auxiliary: mbufs chained by AppendMbuf since their last reset
  pollStats  \* MbufPoll.stats: the sum of the pools' stats at the last PreUpdate

vars == <<cache, stats, pool, mb, aux, held, wasSeg, pollStats>>

-----------------------------------------------------------------------------
(* MbufPollStats.InUsed.                                                   *)
InUsed(c) ==
  stats[c].alloc + stats[c].cacheAlloc - (stats[c].cacheFree + stats[c].free)

(* The mbufs the worker can reach: its heads and their segments.          *)
Reachable == held \cup UNION {ToSet(aux[h]) : h \in held}

Cached == UNION {ToSet(cache[c]) : c \in Classes}

(* Objects that new(Mbuf) may return.                                     *)
Unused == Mbufs \ (Reachable \cup Cached)

(* GetPoolBySize / Alloc: the first pool whose size is at least size.      *)
Fits(size) == \E i \in Classes : size <= PoolSizes[i]
FirstFit(size) ==
  CHOOSE i \in Classes : size <= PoolSizes[i] /\ \A j \in 1..(i - 1) : size > PoolSizes[j]

bufLen(m) == PoolSizes[pool[m]] + HEADROOM

Tailroom(m) == bufLen(m) - mb[m].dataOff - mb[m].dataLen

(* The chain of h: the head and then the segments of its ring.          *)
Chain(h) == <<h>> \o aux[h]

SumDataLen(s) == FoldLeft(LAMBDA a, m : a + mb[m].dataLen, 0, s)

(* LastSeg: the prev of the head in the ring.                             *)
LastSeg(h) == IF aux[h] = <<>> THEN h ELSE Last(aux[h])

(* resetMbuf (refcnt is always 1, port/flags/timestamp are left out).      *)
ResetMbuf == [dataOff |-> HEADROOM, dataLen |-> 0, pktLen |-> 0, nbSegs |-> 1]

Incr(s, f) == [s EXCEPT ![f] = @ + 1]

(* The caches and counters of all pools, as one value.                     *)
Pools == [cache |-> cache, stats |-> stats]

(* The objects MbufPollSize.NewMbuf on pool c may return: the last cached *)
(* mbuf if the cache holds any, otherwise a fresh object.                 *)
Candidates(c) == IF cache[c] # <<>> THEN {Last(cache[c])} ELSE Unused

(* NewMbuf on pool c, on [cache, stats]: pop the cache or count an alloc. *)
Take(s, c) ==
  IF s.cache[c] # <<>>
  THEN [s EXCEPT !.cache[c] = Front(@), !.stats[c] = Incr(@, "cacheAlloc")]
  ELSE [s EXCEPT !.stats[c] = Incr(@, "alloc")]

(* NewMbuf on pool c returns m, whose fields become rec.                  *)
NewMbuf(c, m, rec) ==
  /\ m \in Candidates(c)
  /\ cache' = Take(Pools, c).cache
  /\ stats' = Take(Pools, c).stats
  /\ pool' = [pool EXCEPT ![m] = c]
  /\ mb' = [mb EXCEPT ![m] = rec]
  /\ aux' = [aux EXCEPT ![m] = <<>>]
  /\ wasSeg' = wasSeg \ {m}
  /\ UNCHANGED pollStats

(* MbufPollSize.FreeMbuf of one segment m of pool c, on [cache, stats].   *)
PutBack(s, c, m) ==
  IF Len(s.cache[c]) < MaxCacheSize
  THEN [s EXCEPT !.cache[c] = Append(@, m), !.stats[c] = Incr(@, "cacheFree")]
  ELSE [s EXCEPT !.stats[c] = Incr(@, "free")]

FreeSeg(s, m) == PutBack(s, pool[m], m)

(* Mutant: the loop stops after the head segment.                         *)
FreeChainHeadOnly(s, h) == FoldLeft(FreeSeg, s, <<h>>)

(* Mbuf.FreeMbuf: every segment of the chain, head first, goes back to    *)
(* its own pool.                                                           *)
FreeChain(s, h) == FoldLeft(FreeSeg, s, Chain(h))

-----------------------------------------------------------------------------
(* MbufPollStats with all counters 0: its zero value, and Clear.           *)
ZeroStats == [alloc |-> 0, free |-> 0, cacheAlloc |-> 0, cacheFree |-> 0]

(* MbufPollStats.Add: o = o + obj, counter by counter.                     *)
StatsAdd(o, obj) == [f \in DOMAIN o |-> o[f] + obj[f]]

(* NewMbufStatsDb: four uint64 counters of an MbufPollStats, none dumped  *)
(* when zero.                                                              *)
NewMbufStatsDb ==
  FoldLeft(CounterDbAdd, NewCCounterDb,
           << [name |-> "mbufAlloc",      cnt |-> "alloc",      dumpZero |-> FALSE],
              [name |-> "mbufFree",       cnt |-> "free",       dumpZero |-> FALSE],
              [name |-> "mbufAllocCache", cnt |-> "cacheAlloc", dumpZero |-> FALSE],
              [name |-> "mbufFreeCache",  cnt |-> "cacheFree",  dumpZero |-> FALSE] >>)

(* MarshalValues(false) of MbufPoll.Cdb: its records point into          *)
(* MbufPoll.stats, so it reports the values of the last PreUpdate.        *)
CdbValues == MarshalValues(NewMbufStatsDb, pollStats, FALSE)

(* MbufPoll.PreUpdate: Clear, then Add the stats of every pool in order.  *)
PreUpdate ==
  FoldLeft(LAMBDA o, c : StatsAdd(o, stats[c]), ZeroStats, [c \in Classes |-> c])

Init ==
  /\ cache = [c \in Classes |-> <<>>]
  /\ stats = [c \in Classes |->
               [alloc |-> 0, free |-> 0, cacheAlloc |-> 0, cacheFree |-> 0]]
  /\ pool = [m \in Mbufs |-> NoPool]
  /\ mb = [m \in Mbufs |-> ResetMbuf]
  /\ aux = [m \in Mbufs |-> <<>>]
  /\ held = {}
  /\ wasSeg = {}
  /\ pollStats = ZeroStats

(* MbufPoll.Alloc(size); a size above the largest pool panics.            *)
Alloc(size) ==
  /\ Fits(size)
  /\ \E m \in Mbufs :
       /\ NewMbuf(FirstFit(size), m, ResetMbuf)
       /\ held' = held \cup {m}

(* Prepend: the caller checks Headroom first (a larger len panics).       *)
Prepend(h, n) ==
  /\ h \in held
  /\ n <= mb[h].dataOff
  /\ mb' = [mb EXCEPT ![h].dataOff = @ - n, ![h].dataLen = @ + n,
                       ![h].pktLen = U32(@ + n)]
  /\ UNCHANGED <<cache, stats, pool, aux, held, wasSeg, pollStats>>

(* Append to the tailroom of the last segment; the caller checks Tailroom.*)
MbufAppend(h, n) ==
  /\ h \in held
  /\ n <= Tailroom(LastSeg(h))
  /\ mb' = [mb EXCEPT ![h].pktLen = U32(@ + n), ![LastSeg(h)].dataLen = @ + n]
  /\ UNCHANGED <<cache, stats, pool, aux, held, wasSeg, pollStats>>

(* Trim: remove n bytes from the end of the last segment.                 *)
Trim(h, n) ==
  /\ h \in held
  /\ n <= mb[LastSeg(h)].dataLen
  /\ mb' = [mb EXCEPT ![LastSeg(h)].dataLen = @ - n, ![h].pktLen = U32(@ - n)]
  /\ UNCHANGED <<cache, stats, pool, aux, held, wasSeg, pollStats>>

(* Adj: remove n bytes from the start of the head segment; a larger n    *)
(* returns -1 and changes nothing.                                        *)
Adj(h, n) ==
  /\ h \in held
  /\ n <= mb[h].dataLen
  /\ mb' = [mb EXCEPT ![h].dataLen = @ - n, ![h].dataOff = @ + n,
                       ![h].pktLen = U32(@ - n)]
  /\ UNCHANGED <<cache, stats, pool, aux, held, wasSeg, pollStats>>

(* AppendMbuf: the worker hands over a single-segment mbuf m it holds.    *)
AppendMbuf(h, m) ==
  /\ h \in held /\ m \in held /\ h # m
  /\ mb[m].nbSegs = 1 /\ aux[m] = <<>>
  /\ aux' = [aux EXCEPT ![h] = Append(@, m)]
  /\ mb' = [mb EXCEPT ![h].pktLen = U32(@ + mb[m].dataLen), ![h].nbSegs = @ + 1]
  /\ held' = held \ {m}
  /\ wasSeg' = wasSeg \cup {m}
  /\ UNCHANGED <<cache, stats, pool, pollStats>>

(* Mutant: DetachLast leaves the segment in the ring.                     *)
DetachLastKeep(h) ==
  /\ h \in held /\ aux[h] # <<>>
  /\ LET m == Last(aux[h])
     IN /\ mb' = [mb EXCEPT ![h].pktLen = U32(@ - mb[m].dataLen), ![h].nbSegs = @ - 1]
        /\ held' = held \cup {m}
  /\ UNCHANGED <<cache, stats, pool, aux, wasSeg, pollStats>>

(* DetachLast: unlink the last segment and return it to the worker.  The  *)
(* single-segment case is left to the DList code (see README).           *)
DetachLast(h) ==
  /\ h \in held /\ aux[h] # <<>>
  /\ LET m == Last(aux[h])
     IN /\ aux' = [aux EXCEPT ![h] = Front(@)]
        /\ mb' = [mb EXCEPT ![h].pktLen = U32(@ - mb[m].dataLen), ![h].nbSegs = @ - 1]
        /\ held' = held \cup {m}
  /\ UNCHANGED <<cache, stats, pool, wasSeg, pollStats>>

(* Mutant: DetachFirst subtracts the length of the last segment.          *)
DetachFirstWrongLen(h) ==
  /\ h \in held /\ aux[h] # <<>>
  /\ LET m == Head(aux[h])
     IN /\ aux' = [aux EXCEPT ![h] = Tail(@)]
        /\ mb' = [mb EXCEPT ![h].pktLen = U32(@ - mb[Last(aux[h])].dataLen),
                             ![h].nbSegs = @ - 1]
        /\ held' = held \cup {m}
  /\ UNCHANGED <<cache, stats, pool, wasSeg, pollStats>>

(* DetachFirst: unlink the segment after the head and return it.         *)
DetachFirst(h) ==
  /\ h \in held /\ aux[h] # <<>>
  /\ LET m == Head(aux[h])
     IN /\ aux' = [aux EXCEPT ![h] = Tail(@)]
        /\ mb' = [mb EXCEPT ![h].pktLen = U32(@ - mb[m].dataLen), ![h].nbSegs = @ - 1]
        /\ held' = held \cup {m}
  /\ UNCHANGED <<cache, stats, pool, wasSeg, pollStats>>

(* GetContiguous: Alloc(uint16(PktLen())) and append every segment's     *)
(* data to it.  It panics on a contiguous mbuf, in Alloc when PktLen      *)
(* exceeds the largest pool, and in Append when the data does not fit the *)
(* buffer PktLen chose.                                                    *)
GetContiguous(h) ==
  /\ h \in held
  /\ mb[h].nbSegs # 1
  /\ Fits(mb[h].pktLen)
  /\ LET c    == FirstFit(mb[h].pktLen)
         data == SumDataLen(Chain(h))
     IN /\ data <= PoolSizes[c]
        /\ \E m \in Mbufs :
             /\ NewMbuf(c, m, [ResetMbuf EXCEPT !.dataLen = data, !.pktLen = data])
             /\ held' = held \cup {m}

(* FreeMbuf: the chain goes back to the pools and the worker lets go.     *)
FreeMbuf(h) ==
  /\ h \in held
  /\ LET s == FreeChain(Pools, h)
     IN /\ cache' = s.cache
        /\ stats' = s.stats
  /\ held' = held \ {h}
  /\ UNCHANGED <<pool, mb, aux, wasSeg, pollStats>>

(* MbufPoll.ClearCache at teardown: panics on a pool with InUsed > 0,     *)
(* otherwise empties every cache.                                          *)
ClearCache ==
  /\ held = {}
  /\ \A c \in Classes : InUsed(c) = 0
  /\ cache' = [c \in Classes |-> <<>>]
  /\ UNCHANGED <<stats, pool, mb, aux, held, wasSeg, pollStats>>

(* MbufPoll.GetCdb: GetStats runs PreUpdate, which refreshes             *)
(* MbufPoll.stats from the pools, and returns Cdb.                        *)
GetCdb ==
  /\ pollStats' = PreUpdate
  /\ UNCHANGED <<cache, stats, pool, mb, aux, held, wasSeg>>

Next ==
  \/ \E size \in AllocSizes : Alloc(size)
  \/ \E h \in Mbufs, n \in Lens :
       Prepend(h, n) \/ MbufAppend(h, n) \/ Trim(h, n) \/ Adj(h, n)
  \/ \E h, m \in Mbufs : AppendMbuf(h, m)
  \/ \E h \in Mbufs :
       DetachLast(h) \/ DetachFirst(h) \/ GetContiguous(h) \/ FreeMbuf(h)
  \/ ClearCache
  \/ GetCdb

Spec == Init /\ [][Next]_vars

-----------------------------------------------------------------------------
(* Properties.                                                             *)

TypeOK ==
  /\ cache \in [Classes -> Seq(Mbufs)]
  /\ \A c \in Classes : \A f \in {"alloc", "free", "cacheAlloc", "cacheFree"} :
       stats[c][f] \in Nat
  /\ pool \in [Mbufs -> Classes \cup {NoPool}]
  /\ \A m \in Mbufs : /\ mb[m].dataOff \in Nat /\ mb[m].dataLen \in Nat
                      /\ mb[m].pktLen \in 0..(2^LenWidth - 1)
                      /\ mb[m].nbSegs \in Nat
  /\ aux \in [Mbufs -> Seq(Mbufs)]
  /\ held \subseteq Mbufs /\ wasSeg \subseteq Mbufs
  /\ pollStats \in [{"alloc", "free", "cacheAlloc", "cacheFree"} -> Nat]

(* The counters account for every mbuf: through allocations served from  *)
(* the cache or the heap, chains whose segments come from different       *)
(* pools, frees that find the cache full, detaches and copies, InUsed()   *)
(* of each pool equals the number of its mbufs the worker can reach.  So  *)
(* ClearCache panics exactly when the worker still holds an mbuf.         *)
InUsedAccounts ==
  \A c \in Classes : InUsed(c) = Cardinality({m \in Reachable : pool[m] = c})

(* No mbuf is handed out twice: the cached mbufs are distinct and of      *)
(* their own pool, no cached mbuf is reachable, and the chains the worker *)
(* holds share no segment.                                                 *)
NoAliasing ==
  /\ \A c \in Classes : /\ Len(cache[c]) = Cardinality(ToSet(cache[c]))
                       /\ \A m \in ToSet(cache[c]) : pool[m] = c
  /\ Reachable \cap Cached = {}
  /\ \A h \in held : Len(Chain(h)) = Cardinality(ToSet(Chain(h)))
  /\ \A h1, h2 \in held : h1 # h2 => ToSet(Chain(h1)) \cap ToSet(Chain(h2)) = {}

(* The head invariants of the spec (section 8, property 1) for every head *)
(* that Alloc or GetContiguous returned: after any sequence of Prepend,   *)
(* Append, Trim, Adj, AppendMbuf and DetachFirst/DetachLast, pktLen is    *)
(* the sum of the segments' dataLen, nbSegs the chain length, and every   *)
(* segment's data lies inside its buffer.                                 *)
ChainConsistent ==
  \A h \in held \ wasSeg :
    /\ mb[h].pktLen = SumDataLen(Chain(h))
    /\ mb[h].nbSegs = Len(Chain(h))
    /\ \A m \in ToSet(Chain(h)) : mb[m].dataOff + mb[m].dataLen <= bufLen(m)

(* Mbuf.SanityCheck(true) passes on every mbuf the worker holds as a      *)
(* head, including one DetachFirst or DetachLast returned.                *)
SanityCheckHeld ==
  \A h \in held :
    /\ mb[h].dataLen <= mb[h].pktLen
    /\ mb[h].pktLen = SumDataLen(Chain(h))
    /\ mb[h].nbSegs = Len(Chain(h))

====
