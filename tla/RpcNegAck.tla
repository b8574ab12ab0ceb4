------------------------------ MODULE RpcNegAck ------------------------------
(***************************************************************************)
(* The client channel pool of rpcCall.c as built with NEG_ACK.            *)
(*                                                                         *)
(* A server short of server channels answers with a negative ack; RpcDoCall *)
(* returns RPC_NACK_ERROR, Rpc_Call frees the channel, marks the server    *)
(* congested in serverAllocState with RpcSetChannelAllocState and goes     *)
(* back to allocAgain.  For channelStateInterval after that, RpcChanAlloc  *)
(* ramps down its use of the server: it takes a free channel of the server *)
(* only if no earlier channel of the server is busy, waits                *)
(* (waitForBusyChannel) if one is, and takes an unused or another         *)
(* server's channel only when the server has none.  After the interval    *)
(* the entry is cleared and the allocation of RpcChannels applies.         *)
(*                                                                         *)
(* RpcChanFree and RpcChanClose are those of RpcChannels; every step that  *)
(* takes rpcMutex waits while a process holds it in RpcChanAlloc.          *)
(***************************************************************************)
EXTENDS RpcChannels, Integers

CONSTANTS
    TableSize       \* entries of serverAllocState (8 in the code)

ASSUME TableSize \in Nat \ {0}

Slots == 1..TableSize

VARIABLE
    unhappy     \* unhappy[i]: serverAllocState[i]: serverID and whether its
                \* time plus channelStateInterval is still ahead of now

navars == <<chan, numFree, proc, close, unhappy>>

TypeNA ==
    /\ chan \in [Chans -> [state : {"FREE", "BUSY"},
                           serverID : Servers \cup {NoServer}]]
    /\ numFree \in Int
    /\ proc \in [Procs -> [pc : PCs \cup {"spin"}, server : Servers \cup {NoServer},
                            chan : Chans \cup {NoChan}]]
    /\ close \in [Chans -> ClosePhases]
    /\ unhappy \in [Slots -> [serverID : Servers \cup {NoServer}, fresh : BOOLEAN]]

\* Rpc_Init with RpcInitServerChannelState: no server is congested.
InitNA ==
    /\ Init
    /\ unhappy = [i \in Slots |-> [serverID |-> NoServer, fresh |-> FALSE]]

\* A process loops in RpcChanAlloc holding rpcMutex.
Spinning == \E p \in Procs : proc[p].pc = "spin"

-----------------------------------------------------------------------------
(* serverAllocState.                                                       *)

\* The first slot holding server s, or 0.
SlotOf(s) == LET S == {i \in Slots : unhappy[i].serverID = s}
             IN IF S = {} THEN 0 ELSE CHOOSE i \in S : \A j \in S : i <= j

\* RpcGetChannelAllocState and the interval test of RpcChanAlloc: the
\* server is marked and its interval has not run out.
Congested(s) == SlotOf(s) # 0 /\ unhappy[SlotOf(s)].fresh

\* RpcSetChannelAllocState(s, trouble): mark s (in its own slot, else in
\* the first empty one; with no empty slot nothing is recorded), or clear
\* its slot.
SetAllocState(s, trouble) ==
    LET i == IF SlotOf(s) # 0 THEN SlotOf(s) ELSE SlotOf(NoServer)
    IN  IF i = 0 \/ (SlotOf(s) = 0 /\ ~trouble) THEN unhappy
        ELSE IF trouble THEN [unhappy EXCEPT ![i] = [serverID |-> s, fresh |-> TRUE]]
        ELSE [unhappy EXCEPT ![i].serverID = NoServer]

-----------------------------------------------------------------------------
(* RpcChanAlloc.                                                          *)

\* The outcome of the scan for a congested server s: "found" with the
\* channel the code then takes, "wait" for waitForBusyChannel, or "fall"
\* for the choice among unused and other servers' free channels.  After
\* 'goto found' the code uses chanPtr, which the loop left at the last
\* channel of the table.
CongestedScan(s) ==
    LET firstFreeMatch == First({c \in FreeChans : chan[c].serverID = s})
        firstBusy == First({c \in Chans \ FreeChans : chan[c].serverID = s})
    IN  IF firstFreeMatch = NoChan /\ firstBusy = NoChan
        THEN [how |-> "fall", c |-> NoChan]
        ELSE IF firstFreeMatch # NoChan /\ (firstBusy = NoChan \/ firstBusy > firstFreeMatch)
        THEN [how |-> "found", c |-> NumChannels]
        ELSE [how |-> "wait", c |-> NoChan]

\* The fall-through after the congested scan: the first never used channel
\* (busy or not: a never used channel is free), else the first free
\* channel of another server.
FallChoice(s) ==
    LET firstUnused == First({c \in Chans : chan[c].serverID = NoServer})
        firstFree == First({c \in FreeChans : chan[c].serverID \notin {s, NoServer}})
    IN  IF firstUnused # NoChan THEN firstUnused ELSE firstFree

\* Take channel c for p's server: serverID, CHAN_BUSY, numFreeChannels--.
TakeChannel(p, c) ==
    /\ c # NoChan
    /\ chan' = [chan EXCEPT ![c] = [state |-> "BUSY", serverID |-> proc[p].server]]
    /\ numFree' = numFree - 1
    /\ proc' = [proc EXCEPT ![p].pc = "call", ![p].chan = c]

\* RpcChanAlloc in the NEG_ACK build, from the numFreeChannels loop on.
\* With no free channel the process waits on freeChannels.  For a
\* congested server the ramp-down scan decides; waitForBusyChannel goes
\* back to the numFreeChannels loop, which does not wait while a channel
\* is free, so the process scans again and again with rpcMutex held
\* ("spin") until the server's interval runs out.  Otherwise a stale
\* entry of the server is cleared and the usual scan of RpcChannels
\* chooses.
AllocScan(p) ==
    LET s == proc[p].server IN
    /\ IF numFree < 1
       THEN /\ proc' = [proc EXCEPT ![p].pc = "wait"]
            /\ UNCHANGED <<chan, numFree, unhappy>>
       ELSE IF Congested(s)
       THEN LET r == CongestedScan(s) IN
            CASE r.how = "found" -> TakeChannel(p, r.c) /\ UNCHANGED unhappy
              [] r.how = "fall"  -> TakeChannel(p, FallChoice(s)) /\ UNCHANGED unhappy
              [] r.how = "wait"  -> /\ proc' = [proc EXCEPT ![p].pc = "spin"]
                                    /\ UNCHANGED <<chan, numFree, unhappy>>
       ELSE /\ TakeChannel(p, ChooseChannel(s))
            /\ unhappy' = SetAllocState(s, FALSE)
    /\ UNCHANGED close

\* A process enters RpcChanAlloc and takes rpcMutex.
RpcChanAllocNA(p) ==
    /\ proc[p].pc = "alloc"
    /\ ~Spinning
    /\ AllocScan(p)

\* The spinning process scans again once its server's interval has run
\* out (time advances without rpcMutex).
SpinAgain(p) ==
    /\ proc[p].pc = "spin"
    /\ ~Congested(proc[p].server)
    /\ AllocScan(p)

\* RpcDoCall returns RPC_NACK_ERROR: Rpc_Call frees the channel
\* (RpcChanFree, with its broadcast), marks the server congested and goes
\* back to allocAgain.
RpcCallNack(p) ==
    /\ proc[p].pc = "call"
    /\ ~Spinning
    /\ LET c == proc[p].chan
           wake == numFree + 1 = 1
       IN  /\ chan[c].state = "BUSY"
           /\ chan' = [chan EXCEPT ![c].state = "FREE"]
           /\ numFree' = numFree + 1
           /\ proc' = [q \in Procs |->
                         IF q = p THEN [proc[p] EXCEPT !.pc = "alloc", !.chan = NoChan]
                         ELSE IF wake /\ proc[q].pc = "wait"
                              THEN [proc[q] EXCEPT !.pc = "alloc"]
                              ELSE proc[q]]
    /\ unhappy' = SetAllocState(proc[p].server, TRUE)
    /\ UNCHANGED close

\* channelStateInterval passes for the entry in slot i.
IntervalEnds(i) ==
    /\ unhappy[i].fresh
    /\ unhappy' = [unhappy EXCEPT ![i].fresh = FALSE]
    /\ UNCHANGED <<chan, numFree, proc, close>>

NextNA ==
    \/ \E p \in Procs, s \in Servers : Rpc_Call(p, s) /\ UNCHANGED unhappy
    \/ \E p \in Procs : RpcChanAllocNA(p)
    \/ \E p \in Procs : ~Spinning /\ RpcChanFree(p) /\ UNCHANGED unhappy
    \/ \E p \in Procs : SpinAgain(p)
    \/ \E p \in Procs : RpcCallNack(p)
    \/ \E c \in Chans : RpcChanCloseTest(c) /\ UNCHANGED unhappy
    \/ \E c \in Chans : ~Spinning /\ RpcChanCloseReserve(c) /\ UNCHANGED unhappy
    \/ \E c \in Chans : ~Spinning /\ RpcChanCloseRelease(c) /\ UNCHANGED unhappy
    \/ \E i \in Slots : IntervalEnds(i)

SpecNA == InitNA /\ [][NextNA]_navars

=============================================================================
