----------------------------- MODULE MCMbufPool -----------------------------
(* Model-checking instances of MbufPool: two pools of 1 and 2 bytes       *)
(* behind a headroom of 1, a cache of one mbuf per pool, and a heap of    *)
(* three objects.                                                         *)
EXTENDS MbufPool, TLC

CONSTANTS m1, m2, m3

MCMbufs3 == {m1, m2, m3}
MCPoolSizes == <<1, 2>>
MCAllocSizes == {1, 2}
MCLens == {1}

(* The pool counters only grow: bound the number of pool operations.     *)
PoolOps == MapThenSumSet(LAMBDA c : stats[c].alloc + stats[c].free
                                    + stats[c].cacheAlloc + stats[c].cacheFree,
                         Classes)

(* A head DetachFirst/DetachLast returned keeps a stale pktLen, and every *)
(* further cycle of AppendMbuf, Append and detach moves it further off.   *)
(* Explore such heads while pktLen is off by at most StaleBound bytes.    *)
StaleBound == 0
PktLenError(h) == U32(mb[h].pktLen - SumDataLen(Chain(h)))
StaleBounded ==
  \A h \in held : PktLenError(h) <= StaleBound \/ PktLenError(h) >= 2^LenWidth - StaleBound

(* Data operations of one byte, up to 4 pool operations.                  *)
ChainOpsBound == 4
ChainConstraint == PoolOps <= ChainOpsBound /\ StaleBounded

(* The fields of an mbuf that is cached or garbage are dead: NewMbuf      *)
(* resets them before they are read again.  MbufPoll.stats is read by no *)
(* action and no property (PreUpdate overwrites it).  The view hides them.*)
MCView ==
  <<cache, stats,
    [m \in Mbufs |-> IF m \in Reachable \cup Cached THEN pool[m] ELSE NoPool],
    [m \in Mbufs |-> IF m \in Reachable THEN mb[m] ELSE ResetMbuf],
    [m \in Mbufs |-> IF m \in Reachable THEN aux[m] ELSE <<>>],
    held, wasSeg \cap Reachable>>

MCSymmetry3 == Permutations(MCMbufs3)
====
