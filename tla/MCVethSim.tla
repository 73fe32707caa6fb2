------------------------------ MODULE MCVethSim ------------------------------
(* Model-checking instance of VethSim: the pools of MCMbufPool, three heap *)
(* objects, one kind of RPC request, and bounds on the pool operations and *)
(* on the requests queued.                                                 *)
EXTENDS VethSim, TLC

CONSTANTS m1, m2, m3, req

MCMbufs3 == {m1, m2, m3}
MCPoolSizes == <<1, 2>>
MCAllocSizes == {1, 2}
MCLens == {1}
MCRpcRequests == {req}

(* The pool counters only grow: bound the number of pool operations.     *)
PoolOps == MapThenSumSet(LAMBDA c : stats[c].alloc + stats[c].free
                                    + stats[c].cacheAlloc + stats[c].cacheFree,
                         Classes)
VethOpsBound == 6

(* Requests queued over the whole run.                                   *)
RpcBound == 1

(* A head DetachFirst/DetachLast returned keeps a stale pktLen (run       *)
(* mbuf_detached_head); the worker here only sends heads whose pktLen is  *)
(* right, so such a head is not explored further.  The worker builds its  *)
(* packets with Append and Trim: a head whose headroom Prepend or Adj     *)
(* moved is not explored further either.                                  *)
PktLenStale(h) == mb[h].pktLen # SumDataLen(Chain(h))
VethConstraint ==
  /\ PoolOps <= VethOpsBound
  /\ rpcIn <= RpcBound
  /\ \A h \in held : ~PktLenStale(h) /\ mb[h].dataOff = HEADROOM

(* Dead fields of cached and garbage mbufs are hidden, as in MCMbufPool.  *)
(* No action reads the counters or out: they only grow, and              *)
(* StatsAccounting depends on their differences alone, so the view keeps  *)
(* those differences instead of the totals.  rpcIn stays: the constraint  *)
(* reads it.  MbufPoll.stats is read by nothing and is hidden.            *)
MCView ==
  <<cache, stats,
    [m \in Mbufs |-> IF m \in Live \cup Cached THEN pool[m] ELSE NoPool],
    [m \in Mbufs |-> IF m \in Live THEN mb[m] ELSE ResetMbuf],
    [m \in Mbufs |-> IF m \in Live THEN aux[m] ELSE <<>>],
    held, wasSeg \cap Live, vec, rxvec, rpcQue, rpcDone, rpcIn,
    <<vstats.TxPkts - out.pkts, vstats.TxBytes - out.bytes,
      out.echoPkts - vstats.RxPkts, out.echoBytes - vstats.RxBytes>>>>

MCSymmetry3 == Permutations(MCMbufs3)
====
