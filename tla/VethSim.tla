------------------------------- MODULE VethSim -------------------------------
(***************************************************************************)
(* The simulator transport VethIFSimulator of src/emu/core/veth.go,        *)
(* composed with the mbuf pool of MbufPool.  The worker thread owns both:  *)
(* Send and SendBuffer take ownership of an mbuf into the tx vector vec;  *)
(* FlushTx frees it; SimulatorCheckRxQueue hands every mbuf of vec to the *)
(* simulated DUT (ProcessTxToRx), which frees it or answers with an mbuf  *)
(* that goes through rxvec to OnRx; SimulatorCleanup frees what is left.  *)
(*                                                                         *)
(* The DUT is VethSink (free and answer nil) or, as the VethIFSim         *)
(* contract allows, a loopback that answers with the mbuf it was given.   *)
(* OnRx hands the mbuf to the rx path (HandleRxPacket, not in this        *)
(* repository), which consumes it and may answer with SendBuffer.        *)
(*                                                                         *)
(* AppendSimuationRPC queues a JSON-RPC request in rpcQue; the next        *)
(* SimulatorCheckRxQueue first runs handleRpcQueue, which hands every      *)
(* request to the thread's RPC server (HandleReq, not in this repository)  *)
(* and then empties the queue.  A request's handler may send a packet with *)
(* SendBuffer.  The VethStats counters are kept; the K12 monitor and the   *)
(* capture record (o.Record) are output only and left out.                 *)
(***************************************************************************)
EXTENDS MbufPool

CONSTANTS
  RpcRequests   \* the JSON-RPC requests a test queues

VARIABLES
  vec,      \* o.vec: mbufs waiting for FlushTx or SimulatorCheckRxQueue
  rxvec,    \* o.rxvec: DUT answers waiting for OnRx
  vstats,   \* o.stats: the VethStats counters the simulator updates
  rpcQue,   \* o.rpcQue: requests waiting for handleRpcQueue
  rpcDone,  \* requests of rpcQue that handleRpcQueue has handled so far
  out,      \* auxiliary: packets and bytes that left vec, and the DUT's answers
  rpcIn     \* auxiliary: requests queued so far

vvars == <<vec, rxvec, vstats, rpcQue, rpcDone, out, rpcIn>>
allVars == <<vars, vvars>>

(* The mbufs the transport owns.                                         *)
Queued == ToSet(vec) \cup ToSet(rxvec)

(* Every mbuf that is in use: the worker's chains and the transport's.   *)
Live == Reachable \cup Queued

(* SimulatorCheckRxQueue is in its OnRx loop: the worker runs nothing else.*)
InRxLoop == rxvec # <<>>

(* SimulatorCheckRxQueue is in handleRpcQueue's loop.                    *)
InRpcLoop == rpcDone > 0

(* The worker is inside SimulatorCheckRxQueue.                            *)
Busy == InRxLoop \/ InRpcLoop

(* The counters of VethStats that the simulator updates.                  *)
StatFields == {"TxPkts", "TxBytes", "RxPkts", "RxBytes", "TxBatch", "TxDropNotResolve"}

(* Send's accounting: one packet of PktLen() bytes.                       *)
CountTx(st, len) == [st EXCEPT !.TxPkts = @ + 1, !.TxBytes = @ + len]

(* OnRx's accounting: one packet of PktLen() bytes.                       *)
CountRx(st, len) == [st EXCEPT !.RxPkts = @ + 1, !.RxBytes = @ + len]

(* The packets and bytes of a sequence of mbufs that leaves vec.          *)
Leave(o, s) == [o EXCEPT !.pkts = @ + Len(s), !.bytes = @ + SumDataLen(s)]

(* FreeMbuf of every chain of a sequence of mbufs, in order.             *)
FreeAll(s, seq) == FoldLeft(LAMBDA acc, m : FreeChain(acc, m), s, seq)

(* Alloc(uint16(len(b))) and Append(b) of SendBuffer: a fresh mbuf of    *)
(* pool c = FirstFit(size) holding size bytes.                            *)
Filled(size) == [ResetMbuf EXCEPT !.dataLen = size, !.pktLen = size]

(* The mbuf fields after m is allocated in pool c with fields rec.        *)
Allocated(m, c, rec) ==
  /\ pool' = [pool EXCEPT ![m] = c]
  /\ mb' = [mb EXCEPT ![m] = rec]
  /\ aux' = [aux EXCEPT ![m] = <<>>]
  /\ wasSeg' = wasSeg \ {m}

-----------------------------------------------------------------------------
VInit ==
  /\ Init
  /\ vec = <<>> /\ rxvec = <<>>
  /\ vstats = [f \in StatFields |-> 0]
  /\ rpcQue = <<>> /\ rpcDone = 0
  /\ out = [pkts |-> 0, bytes |-> 0, echoPkts |-> 0, echoBytes |-> 0]
  /\ rpcIn = 0

rpcVars == <<rpcQue, rpcDone, rpcIn>>

(* The worker's own mbuf operations (handlers building packets); new(Mbuf)*)
(* never returns an mbuf the transport still owns.                        *)
WorkerMbuf ==
  /\ ~Busy
  /\ Next
  /\ held' \cap Queued = {}
  /\ UNCHANGED vvars

(* Mutant: Send copies a non-contiguous mbuf but never frees the original.*)
SendNoFree(h) ==
  /\ ~Busy /\ h \in held
  /\ IF mb[h].nbSegs = 1
     THEN /\ vec' = Append(vec, h)
          /\ UNCHANGED <<cache, stats, pool, mb, aux, wasSeg>>
     ELSE /\ Fits(mb[h].pktLen)
          /\ LET c == FirstFit(mb[h].pktLen)
                 data == SumDataLen(Chain(h))
             IN /\ data <= PoolSizes[c]
                /\ \E m \in Candidates(c) \ Queued :
                     /\ Allocated(m, c, Filled(data))
                     /\ cache' = Take(Pools, c).cache
                     /\ stats' = Take(Pools, c).stats
                     /\ vec' = Append(vec, m)
  /\ vstats' = CountTx(vstats, mb[h].pktLen)
  /\ held' = held \ {h}
  /\ UNCHANGED <<rxvec, out, rpcVars, pollStats>>

(* Send(m): count the packet and its PktLen(); a contiguous mbuf is       *)
(* queued as it is; otherwise GetContiguous copies it into a new mbuf,    *)
(* the original chain is freed and the copy is queued.                    *)
Send(h) ==
  /\ ~Busy /\ h \in held
  /\ IF mb[h].nbSegs = 1
     THEN /\ vec' = Append(vec, h)
          /\ UNCHANGED <<cache, stats, pool, mb, aux, wasSeg>>
     ELSE /\ Fits(mb[h].pktLen)
          /\ LET c == FirstFit(mb[h].pktLen)
                 data == SumDataLen(Chain(h))
             IN /\ data <= PoolSizes[c]
                /\ \E m \in Candidates(c) \ Queued :
                     /\ Allocated(m, c, Filled(data))
                     /\ cache' = FreeChain(Take(Pools, c), h).cache
                     /\ stats' = FreeChain(Take(Pools, c), h).stats
                     /\ vec' = Append(vec, m)
  /\ vstats' = CountTx(vstats, mb[h].pktLen)
  /\ held' = held \ {h}
  /\ UNCHANGED <<rxvec, out, rpcVars, pollStats>>

(* Mutant: SendBuffer counts the packet before the gateway check, so a    *)
(* dropped packet is counted as sent.                                      *)
SendBufferFromCountDropped(s, st, size, drop, m) ==
  LET c == FirstFit(size)
  IN IF drop THEN [pools |-> PutBack(Take(s, c), c, m), vec |-> vec,
                   vstats |-> [CountTx(st, size) EXCEPT !.TxDropNotResolve = @ + 1]]
     ELSE [pools |-> Take(s, c), vec |-> Append(vec, m), vstats |-> CountTx(st, size)]

(* SendBuffer(unicast, c, b) from a handler (or, in OnRx, from the rx     *)
(* path, with the pools left as s and the counters as st): allocate and   *)
(* fill an mbuf, then drop it (FreeMbuf, TxDropNotResolve) when unicast   *)
(* and the default gateway is missing or unresolved, else Send it.        *)
(* Returns the pools, tx vector and counters after the call; the new mbuf *)
(* is m, contiguous, so Send queues it as it is.                          *)
SendBufferFrom(s, st, size, drop, m) ==
  LET c == FirstFit(size)
  IN IF drop THEN [pools |-> PutBack(Take(s, c), c, m), vec |-> vec,
                   vstats |-> [st EXCEPT !.TxDropNotResolve = @ + 1]]
     ELSE [pools |-> Take(s, c), vec |-> Append(vec, m), vstats |-> CountTx(st, size)]

(* The whole of SendBuffer(size, drop), from a state where the counters   *)
(* are st.                                                                 *)
SendBufferStep(st, size, drop) ==
  /\ Fits(size)
  /\ \E m \in Candidates(FirstFit(size)) \ Queued :
       LET r == SendBufferFrom(Pools, st, size, drop, m)
       IN /\ Allocated(m, FirstFit(size), Filled(size))
          /\ cache' = r.pools.cache
          /\ stats' = r.pools.stats
          /\ vec' = r.vec
          /\ vstats' = r.vstats
  /\ UNCHANGED <<held, rxvec, out, pollStats>>

SendBuffer(size, drop) ==
  /\ ~Busy
  /\ SendBufferStep(vstats, size, drop)
  /\ UNCHANGED rpcVars

(* FlushTx: nothing to do on an empty vector; otherwise count the batch;  *)
(* every mbuf must be contiguous (else panic) and is freed, in order.     *)
FlushTx ==
  /\ ~Busy
  /\ vec # <<>>
  /\ \A i \in 1..Len(vec) : mb[vec[i]].nbSegs = 1
  /\ cache' = FreeAll(Pools, vec).cache
  /\ stats' = FreeAll(Pools, vec).stats
  /\ vstats' = [vstats EXCEPT !.TxBatch = @ + 1]
  /\ out' = Leave(out, vec)
  /\ vec' = <<>>
  /\ UNCHANGED <<pool, mb, aux, held, wasSeg, rxvec, rpcVars, pollStats>>

(* AppendSimuationRPC: a test queues a request between two iterations of *)
(* the worker's loop.                                                      *)
AppendSimuationRPC(r) ==
  /\ ~Busy
  /\ rpcQue' = Append(rpcQue, r)
  /\ rpcIn' = rpcIn + 1
  /\ UNCHANGED <<vars, vec, rxvec, vstats, rpcDone, out>>

(* handleRpcQueue, one iteration: HandleReq of the next request of the    *)
(* queue.  Its handler either leaves the transport alone or sends one     *)
(* packet with SendBuffer(size, drop).                                     *)
HandleReq ==
  /\ ~InRxLoop
  /\ rpcDone < Len(rpcQue)
  /\ rpcDone' = rpcDone + 1
  /\ UNCHANGED <<rpcQue, rpcIn, vars, vec, rxvec, vstats, out>>

HandleReqSend(size, drop) ==
  /\ ~InRxLoop
  /\ rpcDone < Len(rpcQue)
  /\ SendBufferStep(vstats, size, drop)
  /\ rpcDone' = rpcDone + 1
  /\ UNCHANGED <<rpcQue, rpcIn>>

(* Mutant: the DUT loop does not clear the tx vector.                     *)
CheckTxKeepVec(echo) ==
  /\ ~InRxLoop
  /\ rpcDone = Len(rpcQue)
  /\ echo \subseteq ToSet(vec)
  /\ LET echoed == SelectSeq(vec, LAMBDA m : m \in echo)
         freed  == SelectSeq(vec, LAMBDA m : m \notin echo)
     IN /\ rxvec' = echoed
        /\ cache' = FreeAll(Pools, freed).cache
        /\ stats' = FreeAll(Pools, freed).stats
        /\ out' = [Leave(out, vec) EXCEPT !.echoPkts = @ + Len(echoed),
                                          !.echoBytes = @ + SumDataLen(echoed)]
  /\ rpcQue' = <<>> /\ rpcDone' = 0
  /\ UNCHANGED <<pool, mb, aux, held, wasSeg, vec, vstats, rpcIn, pollStats>>

(* SimulatorCheckRxQueue once every queued request is handled: the end of *)
(* handleRpcQueue empties rpcQue; then ProcessTxToRx of every mbuf of vec *)
(* in order: the mbufs in echo are answered with themselves and go to     *)
(* rxvec, the others are freed by the DUT; then vec is emptied.           *)
CheckTx(echo) ==
  /\ ~InRxLoop
  /\ rpcDone = Len(rpcQue)
  /\ echo \subseteq ToSet(vec)
  /\ LET echoed == SelectSeq(vec, LAMBDA m : m \in echo)
         freed  == SelectSeq(vec, LAMBDA m : m \notin echo)
     IN /\ rxvec' = echoed
        /\ cache' = FreeAll(Pools, freed).cache
        /\ stats' = FreeAll(Pools, freed).stats
        /\ out' = [Leave(out, vec) EXCEPT !.echoPkts = @ + Len(echoed),
                                          !.echoBytes = @ + SumDataLen(echoed)]
  /\ vec' = <<>>
  /\ rpcQue' = <<>> /\ rpcDone' = 0
  /\ UNCHANGED <<pool, mb, aux, held, wasSeg, vstats, rpcIn, pollStats>>

(* SimulatorCheckRxQueue, second loop: OnRx of the next answer counts it  *)
(* and hands it to the rx path, which consumes it (FreeMbuf) after its    *)
(* handler ran; the handler may answer with SendBuffer(size, drop), whose *)
(* mbuf is allocated before the received one is freed.  rxvec is emptied  *)
(* when the loop ends.                                                     *)
RxNoReply ==
  /\ InRxLoop
  /\ cache' = FreeChain(Pools, Head(rxvec)).cache
  /\ stats' = FreeChain(Pools, Head(rxvec)).stats
  /\ vstats' = CountRx(vstats, mb[Head(rxvec)].pktLen)
  /\ rxvec' = Tail(rxvec)
  /\ UNCHANGED <<pool, mb, aux, held, wasSeg, vec, out, rpcVars, pollStats>>

RxReply(size, drop) ==
  /\ InRxLoop
  /\ Fits(size)
  /\ \E m \in Candidates(FirstFit(size)) \ Queued :
       LET r == SendBufferFrom(Pools, CountRx(vstats, mb[Head(rxvec)].pktLen),
                               size, drop, m)
       IN /\ Allocated(m, FirstFit(size), Filled(size))
          /\ cache' = FreeChain(r.pools, Head(rxvec)).cache
          /\ stats' = FreeChain(r.pools, Head(rxvec)).stats
          /\ vec' = r.vec
          /\ vstats' = r.vstats
  /\ rxvec' = Tail(rxvec)
  /\ UNCHANGED <<held, out, rpcVars, pollStats>>

(* SimulatorCleanup: free what is left in vec and drop both vectors.      *)
SimulatorCleanup ==
  /\ ~Busy
  /\ vec # <<>>
  /\ cache' = FreeAll(Pools, vec).cache
  /\ stats' = FreeAll(Pools, vec).stats
  /\ out' = Leave(out, vec)
  /\ vec' = <<>>
  /\ UNCHANGED <<pool, mb, aux, held, wasSeg, rxvec, vstats, rpcVars, pollStats>>

VNext ==
  \/ WorkerMbuf
  \/ \E h \in Mbufs : Send(h)
  \/ \E size \in AllocSizes, drop \in BOOLEAN :
       SendBuffer(size, drop) \/ RxReply(size, drop) \/ HandleReqSend(size, drop)
  \/ FlushTx
  \/ \E r \in RpcRequests : AppendSimuationRPC(r)
  \/ HandleReq
  \/ \E echo \in SUBSET Mbufs : CheckTx(echo)
  \/ RxNoReply
  \/ SimulatorCleanup

VSpec == VInit /\ [][VNext]_allVars

-----------------------------------------------------------------------------
(* Properties.                                                             *)

(* The pool counters account for the mbufs in flight: through Send's copy *)
(* of a chain, SendBuffer's drop, the DUT freeing or answering, the rx    *)
(* path's reply and free, FlushTx and SimulatorCleanup, InUsed() of each  *)
(* pool equals its mbufs that the worker or the transport holds.  So      *)
(* ClearCache at teardown panics exactly when an mbuf is really leaked.   *)
LiveAccounts ==
  \A c \in Classes : InUsed(c) = Cardinality({m \in Live : pool[m] = c})

(* Ownership is exclusive: an mbuf is in at most one place of vec and     *)
(* rxvec, never both, never also in a chain of the worker or in a cache.  *)
ExclusiveOwnership ==
  /\ Len(vec) = Cardinality(ToSet(vec))
  /\ Len(rxvec) = Cardinality(ToSet(rxvec))
  /\ ToSet(vec) \cap ToSet(rxvec) = {}
  /\ Queued \cap (Reachable \cup Cached) = {}

(* The VethStats counters tell the truth about the traffic.  Every packet *)
(* Send counted (TxPkts, and PktLen() in TxBytes, read from the original  *)
(* chain before GetContiguous copies it) has either left vec, through     *)
(* FlushTx, the DUT loop or SimulatorCleanup, with exactly those bytes of *)
(* data, or is still in vec; a packet SendBuffer dropped for an           *)
(* unresolved gateway is in neither count.  Every answer the DUT gave is  *)
(* counted by OnRx (RxPkts, RxBytes) or still waits in rxvec.             *)
StatsAccounting ==
  /\ vstats.TxPkts = out.pkts + Len(vec)
  /\ vstats.TxBytes = out.bytes + SumDataLen(vec)
  /\ vstats.RxPkts + Len(rxvec) = out.echoPkts
  /\ vstats.RxBytes + SumDataLen(rxvec) = out.echoBytes

====
