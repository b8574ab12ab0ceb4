------------------------------- MODULE RpcIds -------------------------------
(***************************************************************************)
(* Transaction IDs of Sprite RPC (src/CVSROOT/kernel/rpc/rpcCall.c),       *)
(* composed with the channel pool of RpcChannels.                          *)
(*                                                                         *)
(* Rpc_Call runs RpcSetup on the channel RpcChanAlloc gave it, after       *)
(* RpcChanAlloc has released rpcMutex.  RpcSetup fills the channel's       *)
(* request header and takes its ID with 'rpcHdrPtr->ID = rpcID++', an     *)
(* increment of the global rpcID under no lock.  On a multiprocessor       *)
(* build (NUM_PROCESSORS > 1, as for SPUR), or on one processor under the *)
(* preemptive kernel of spec.md section 5, two processes run RpcSetup at   *)
(* once; the increment is a data race, and the outcomes the compiled load, *)
(* add and store can produce are those of a load step and a store step     *)
(* of each process, interleaved in any order (SetupLoad, SetupStore).      *)
(*                                                                         *)
(* The rest of RpcSetup sets the header's flags, hosts, command and sizes, *)
(* the channel's timeout constants and buffer specs, and resets its        *)
(* reception counters; the model keeps none of that data, only that the    *)
(* setup has been done before RpcDoCall, and that RpcChanFree follows it.  *)
(***************************************************************************)
EXTENDS RpcChannels, Integers

CONSTANTS
    MaxID       \* the largest rpcID explored

VARIABLES
    rpcID,      \* rpcID, initially 1
    hdrID,      \* hdrID[c]: chanPtr->requestRpcHdr.ID, 0 from Rpc_Init
    setup,      \* setup[p]: how far p's RpcSetup has got: "none", "loaded"
                \* (rpcID is in a register), "done"
    idReg       \* idReg[p]: the value of rpcID p has loaded

idvars == <<rpcID, hdrID, setup, idReg>>

allVars == <<chan, numFree, proc, close, rpcID, hdrID, setup, idReg>>

TypeIds ==
    /\ TypeOK
    /\ rpcID \in Nat
    /\ hdrID \in [Chans -> Nat]
    /\ setup \in [Procs -> {"none", "loaded", "done"}]
    /\ idReg \in [Procs -> Nat]

\* Rpc_Init and the static initialiser of rpcID.
InitIds ==
    /\ Init
    /\ rpcID = 1
    /\ hdrID = [c \in Chans |-> 0]
    /\ setup = [p \in Procs |-> "none"]
    /\ idReg = [p \in Procs |-> 0]

-----------------------------------------------------------------------------
(* Rpc_Call with RpcSetup between RpcChanAlloc and RpcChanFree.           *)

\* RpcSetup, first half of 'rpcHdrPtr->ID = rpcID++': p, holding its
\* channel and not yet set up, loads rpcID.
SetupLoad(p) ==
    /\ proc[p].pc = "call"
    /\ setup[p] = "none"
    /\ idReg' = [idReg EXCEPT ![p] = rpcID]
    /\ setup' = [setup EXCEPT ![p] = "loaded"]
    /\ UNCHANGED <<rpcID, hdrID, vars>>

\* RpcSetup, second half: the loaded value goes into the channel's
\* request header and the value plus one into rpcID, whatever other
\* processes stored there since the load.
SetupStore(p) ==
    /\ setup[p] = "loaded"
    /\ hdrID' = [hdrID EXCEPT ![proc[p].chan] = idReg[p]]
    /\ rpcID' = idReg[p] + 1
    /\ setup' = [setup EXCEPT ![p] = "done"]
    /\ UNCHANGED <<idReg, vars>>

\* RpcSetup: either of its two halves.
RpcSetup(p) == SetupLoad(p) \/ SetupStore(p)

\* RpcDoCall has returned (its header's ID set), and RpcChanFree.
ChanFreeAfterCall(p) ==
    /\ setup[p] = "done"
    /\ RpcChanFree(p)
    /\ setup' = [setup EXCEPT ![p] = "none"]
    /\ UNCHANGED <<rpcID, hdrID, idReg>>

NextIds ==
    \/ \E p \in Procs, s \in Servers : Rpc_Call(p, s) /\ UNCHANGED idvars
    \/ \E p \in Procs : RpcChanAlloc(p) /\ UNCHANGED idvars
    \/ \E p \in Procs : RpcSetup(p)
    \/ \E p \in Procs : ChanFreeAfterCall(p)
    \/ \E c \in Chans :
          /\ RpcChanCloseTest(c) \/ RpcChanCloseReserve(c) \/ RpcChanCloseRelease(c)
          /\ UNCHANGED idvars

SpecIds == InitIds /\ [][NextIds]_allVars

\* The bound on rpcID: states past it are not explored.
IdBound == rpcID <= MaxID

-----------------------------------------------------------------------------
(* Properties.                                                            *)

\* spec.md: the transaction ID is strictly increasing, and (client host,
\* channel index, transaction id) identifies an in-flight RPC to the
\* server; rpcCall.c line 54: 'a sequence of rpc transaction ids that
\* increases over time'.  So each RpcSetup gives its channel an ID above
\* the one the channel's previous request carried, which the server's
\* duplicate detection relies on, whatever RpcSetups of other processes
\* on other channels run at the same time.
ChannelIDsIncrease ==
    [][\A p \in Procs :
          setup[p] # "done" /\ setup'[p] = "done"
            => hdrID'[proc[p].chan] > hdrID[proc[p].chan]]_allVars
=============================================================================
