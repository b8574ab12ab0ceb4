----------------------------- MODULE RpcChannels -----------------------------
(***************************************************************************)
(* The client channel pool of Sprite RPC (src/CVSROOT/kernel/rpc/          *)
(* rpcCall.c), as built without NEG_ACK.                                   *)
(*                                                                         *)
(* A process in Rpc_Call takes a channel with RpcChanAlloc, runs the call *)
(* on it (RpcSetup, RpcDoCall) and returns it with RpcChanFree.  Both     *)
(* allocate and free run under the master lock rpcMutex; a process finds *)
(* no free channel waits on the condition freeChannels, which             *)
(* RpcChanFree broadcasts when numFreeChannels rises to 1.  The receive   *)
(* interrupt handles a server's CLOSE request on an idle channel with     *)
(* RpcChanClose: it tests the channel without the lock, re-tests it under *)
(* the lock and marks it busy, sends an explicit ack without the lock,    *)
(* and frees the channel again under the lock.                             *)
(***************************************************************************)
EXTENDS Naturals, FiniteSets

CONSTANTS
    Procs,          \* client processes making RPCs
    Servers,        \* server sprite IDs
    NumChannels,    \* rpcNumChannels
    NoServer,       \* chanPtr->serverID of a never used channel (-1)
    NoChan          \* no channel

ASSUME /\ NumChannels \in Nat \ {0}
       /\ NoServer \notin Servers
       /\ NoChan \notin 1..NumChannels

Chans == 1..NumChannels

VARIABLES
    chan,       \* chan[c]: state (CHAN_FREE / CHAN_BUSY) and serverID of c
    numFree,    \* numFreeChannels
    proc,       \* proc[p]: where p is in Rpc_Call, its server and channel
    close       \* close[c]: progress of RpcChanClose on c

vars == <<chan, numFree, proc, close>>

\* Places of a process: outside Rpc_Call, about to run the allocation loop,
\* blocked in Sync_MasterWait, or holding a channel for RpcSetup/RpcDoCall.
PCs == {"idle", "alloc", "wait", "call"}

\* RpcChanClose on a channel: not running, past its unlocked test of
\* CHAN_BUSY, or holding the channel while RpcOutput sends the ack.
ClosePhases == {"none", "tested", "acking"}

TypeOK ==
    /\ chan \in [Chans -> [state : {"FREE", "BUSY"},
                           serverID : Servers \cup {NoServer}]]
    /\ numFree \in 0..NumChannels
    /\ proc \in [Procs -> [pc : PCs, server : Servers \cup {NoServer},
                            chan : Chans \cup {NoChan}]]
    /\ close \in [Chans -> ClosePhases]

\* Rpc_Init: every channel free and unused.
Init ==
    /\ chan = [c \in Chans |-> [state |-> "FREE", serverID |-> NoServer]]
    /\ numFree = NumChannels
    /\ proc = [p \in Procs |-> [pc |-> "idle", server |-> NoServer,
                                 chan |-> NoChan]]
    /\ close = [c \in Chans |-> "none"]

-----------------------------------------------------------------------------
(* The choice RpcChanAlloc makes among free channels.                     *)

FreeChans == {c \in Chans : chan[c].state = "FREE"}

\* The least element of a set of channel indices, or NoChan.
First(S) == IF S = {} THEN NoChan ELSE CHOOSE c \in S : \A d \in S : c <= d

\* Variant of the scan that takes a never used channel before a matching one.
ChooseUnusedFirst(s) ==
    LET match  == First({c \in FreeChans : chan[c].serverID = s})
        unused == First({c \in FreeChans : chan[c].serverID = NoServer})
    IN  IF unused # NoChan THEN unused
        ELSE IF match # NoChan THEN match
        ELSE First(FreeChans)

\* The scan of the channel table: the first free channel last used with
\* the same server (taken at once, to give the server an implicit ack),
\* else the first never used channel, else the first free one.
ChooseChannel(s) ==
    LET match  == First({c \in FreeChans : chan[c].serverID = s})
        unused == First({c \in FreeChans : chan[c].serverID = NoServer})
    IN  IF match # NoChan THEN match
        ELSE IF unused # NoChan THEN unused
        ELSE First(FreeChans)

-----------------------------------------------------------------------------
(* Actions.                                                               *)

\* A process calls Rpc_Call for server s.
Rpc_Call(p, s) ==
    /\ proc[p].pc = "idle"
    /\ proc' = [proc EXCEPT ![p] = [pc |-> "alloc", server |-> s, chan |-> NoChan]]
    /\ UNCHANGED <<chan, numFree, close>>

\* Variant of RpcChanAlloc whose loop tests numFreeChannels < 0 and which
\* uses the scan's result without the panic check.
AllocOffByOne(p) ==
    /\ proc[p].pc = "alloc"
    /\ IF numFree < 0
       THEN /\ proc' = [proc EXCEPT ![p].pc = "wait"]
            /\ UNCHANGED <<chan, numFree>>
       ELSE LET c == ChooseChannel(proc[p].server) IN
            /\ chan' = [chan EXCEPT ![c] = [state |-> "BUSY",
                                            serverID |-> proc[p].server]]
            /\ numFree' = numFree - 1
            /\ proc' = [proc EXCEPT ![p].pc = "call", ![p].chan = c]
    /\ UNCHANGED close

\* RpcChanAlloc: with numFreeChannels < 1 the process waits on
\* freeChannels; otherwise it takes the channel the scan chooses, sets its
\* serverID, marks it busy and decrements numFreeChannels.  If the scan
\* finds no free channel the kernel panics, which the counter rules out.
RpcChanAlloc(p) ==
    /\ proc[p].pc = "alloc"
    /\ IF numFree < 1
       THEN /\ proc' = [proc EXCEPT ![p].pc = "wait"]
            /\ UNCHANGED <<chan, numFree>>
       ELSE LET c == ChooseChannel(proc[p].server) IN
            /\ c # NoChan
            /\ chan' = [chan EXCEPT ![c] = [state |-> "BUSY",
                                            serverID |-> proc[p].server]]
            /\ numFree' = numFree - 1
            /\ proc' = [proc EXCEPT ![p].pc = "call", ![p].chan = c]
    /\ UNCHANGED close

\* RpcDoCall has returned; RpcChanFree marks the channel free and, when
\* numFreeChannels becomes 1, broadcasts freeChannels, which makes every
\* waiting process re-test the loop condition.  Rpc_Call then reports the
\* outcome to the recovery module (see Recovery) and returns.
RpcChanFree(p) ==
    /\ proc[p].pc = "call"
    /\ LET c == proc[p].chan
           wake == numFree + 1 = 1
       IN  /\ chan[c].state = "BUSY"
           /\ chan' = [chan EXCEPT ![c].state = "FREE"]
           /\ numFree' = numFree + 1
           /\ proc' = [q \in Procs |->
                         IF q = p
                         THEN [pc |-> "idle", server |-> NoServer, chan |-> NoChan]
                         ELSE IF wake /\ proc[q].pc = "wait"
                              THEN [proc[q] EXCEPT !.pc = "alloc"]
                              ELSE proc[q]]
    /\ UNCHANGED close

\* A CLOSE request arrives for c and RpcChanClose finds CHAN_BUSY clear
\* without holding the lock.  A busy channel needs nothing: the request in
\* progress acknowledges the server.
RpcChanCloseTest(c) ==
    /\ close[c] = "none"
    /\ chan[c].serverID # NoServer
    /\ chan[c].state = "FREE"
    /\ close' = [close EXCEPT ![c] = "tested"]
    /\ UNCHANGED <<chan, numFree, proc>>

\* Variant of RpcChanCloseReserve that trusts the unlocked test.
CloseReserveNoRecheck(c) ==
    /\ close[c] = "tested"
    /\ chan' = [chan EXCEPT ![c].state = "BUSY"]
    /\ numFree' = numFree - 1
    /\ close' = [close EXCEPT ![c] = "acking"]
    /\ UNCHANGED proc

\* Under the lock RpcChanClose tests again: if a process allocated the
\* channel meanwhile it returns, otherwise it marks the channel busy and
\* decrements numFreeChannels for the ack.
RpcChanCloseReserve(c) ==
    /\ close[c] = "tested"
    /\ IF chan[c].state = "BUSY"
       THEN /\ close' = [close EXCEPT ![c] = "none"]
            /\ UNCHANGED <<chan, numFree>>
       ELSE /\ chan' = [chan EXCEPT ![c].state = "BUSY"]
            /\ numFree' = numFree - 1
            /\ close' = [close EXCEPT ![c] = "acking"]
    /\ UNCHANGED proc

\* Variant of RpcChanCloseRelease that does not increment numFreeChannels.
CloseReleaseNoCount(c) ==
    /\ close[c] = "acking"
    /\ chan' = [chan EXCEPT ![c].state = "FREE"]
    /\ close' = [close EXCEPT ![c] = "none"]
    /\ UNCHANGED <<proc, numFree>>

\* The ack is out; RpcChanClose clears CHAN_BUSY and increments
\* numFreeChannels under the lock.  It does not broadcast freeChannels.
RpcChanCloseRelease(c) ==
    /\ close[c] = "acking"
    /\ chan' = [chan EXCEPT ![c].state = "FREE"]
    /\ numFree' = numFree + 1
    /\ close' = [close EXCEPT ![c] = "none"]
    /\ UNCHANGED proc

Next ==
    \/ \E p \in Procs, s \in Servers : Rpc_Call(p, s)
    \/ \E p \in Procs : RpcChanAlloc(p)
    \/ \E p \in Procs : RpcChanFree(p)
    \/ \E c \in Chans : RpcChanCloseTest(c)
    \/ \E c \in Chans : RpcChanCloseReserve(c)
    \/ \E c \in Chans : RpcChanCloseRelease(c)

\* A process with a channel finishes its call (RpcDoCall times out at the
\* latest), a runnable process is scheduled, and the interrupt handler runs
\* to completion.
Fairness ==
    /\ \A p \in Procs : WF_vars(RpcChanAlloc(p)) /\ WF_vars(RpcChanFree(p))
    /\ \A c \in Chans : WF_vars(RpcChanCloseReserve(c))
                        /\ WF_vars(RpcChanCloseRelease(c))

Spec == Init /\ [][Next]_vars /\ Fairness

-----------------------------------------------------------------------------
(* Properties.                                                            *)

\* The processes and the close handler that hold channel c.
Holders(c) ==
    {p \in Procs : proc[p].pc = "call" /\ proc[p].chan = c}
        \cup (IF close[c] = "acking" THEN {NoChan} ELSE {})

\* spec.md section 3: while busy, exactly one calling task holds a channel,
\* and a free channel is held by none.  Allocation, RpcChanFree and the
\* interrupt-level RpcChanClose all change CHAN_BUSY; RpcChanClose tests
\* the channel before taking the lock.
ExclusiveOwnership ==
    \A c \in Chans :
        Cardinality(Holders(c)) = IF chan[c].state = "BUSY" THEN 1 ELSE 0

\* spec.md section 8: numFreeChannels, kept separately by RpcChanAlloc,
\* RpcChanFree and both halves of RpcChanClose, counts the free channels.
FreeCountMatches ==
    numFree = Cardinality(FreeChans)

\* The task holding c, as ChannelPool names owners: a CHAN_FREE channel
\* has none, one RpcChanClose has reserved is the close handler's, and a
\* busy channel is the calling process's that has it.
PoolOwner(c) ==
    LET H == {p \in Procs : proc[p].pc = "call" /\ proc[p].chan = c}
    IN  CASE chan[c].state = "FREE" -> "none"
          [] close[c] = "acking"    -> "ack"
          [] H # {}                 -> CHOOSE p \in H : TRUE
          [] OTHER                  -> "none"

\* The refinement mapping: owners from the channel states, each channel's
\* last server from its serverID, and the server a process in the
\* allocation loop or waiting on freeChannels asks for.
CP == INSTANCE ChannelPool WITH
        owner <- [c \in Chans |-> PoolOwner(c)],
        peer  <- [c \in Chans |-> chan[c].serverID],
        want  <- [p \in Procs |-> IF proc[p].pc \in {"alloc", "wait"}
                                  THEN proc[p].server ELSE NoServer],
        AckTask <- "ack", None <- "none"

\* spec.md sections 2 and 3 and the allocation policy: the pool built from
\* RpcChanAlloc, RpcChanFree and the two locked halves of the
\* interrupt-level RpcChanClose is a ChannelPool.  Each channel has one
\* owner at a time, a process is given only a free channel and the one the
\* policy prefers, only its owner frees it, and the close handler reserves
\* only an idle channel, also when a process allocates it between
\* RpcChanClose's unlocked test and its lock.
ImplementsChannelPool == CP!Spec

\* spec.md section 5, followed over time: a process blocked on freeChannels
\* while a channel is free is woken.  RpcChanFree broadcasts only when the
\* count rises from 0 to 1, so a channel freed by RpcChanClose, which does
\* not broadcast, must not leave a waiter asleep through later frees that
\* raise the count further.
WaiterWokenWhenChannelFree ==
    \A p \in Procs : (proc[p].pc = "wait" /\ numFree > 0) ~> proc[p].pc # "wait"
=============================================================================
