----------------------------- MODULE ChannelPool -----------------------------
(***************************************************************************)
(* What the RPC client's channel pool promises (spec.md sections 2, 3 and *)
(* the channel allocation policy): every channel is free or owned by      *)
(* exactly one task, a calling process or the close handler acknowledging *)
(* a server; a process asks for a channel to a server and is given a free *)
(* one, preferring one last used with that server, then a never used one, *)
(* then any free one; the owner returns it; an idle channel that has been *)
(* used may be reserved briefly to send an explicit ack.                  *)
(*                                                                         *)
(* RpcChannels implements this module under the mapping CP given there.   *)
(***************************************************************************)
CONSTANTS
    Procs,      \* calling processes
    Servers,    \* peers
    Chans,      \* the channels of the pool
    NoServer,   \* the peer of a never used channel, and no request
    AckTask,    \* the close handler as an owner
    None        \* no owner

VARIABLES
    owner,      \* owner[c]: the task holding c, or None
    peer,       \* peer[c]: the server c was last used with
    want        \* want[p]: the server p is asking a channel for, or NoServer

pvars == <<owner, peer, want>>

Init ==
    /\ owner = [c \in Chans |-> None]
    /\ peer = [c \in Chans |-> NoServer]
    /\ want = [p \in Procs |-> NoServer]

Free == {c \in Chans : owner[c] = None}

\* The channels the policy allows for server s: free ones last used with s,
\* else free never used ones, else any free one.
Allowed(s) ==
    LET same   == {c \in Free : peer[c] = s}
        unused == {c \in Free : peer[c] = NoServer}
    IN  IF same # {} THEN same ELSE IF unused # {} THEN unused ELSE Free

\* p, holding nothing and asking for nothing, asks for a channel to s.
Request(p, s) ==
    /\ want[p] = NoServer
    /\ \A c \in Chans : owner[c] # p
    /\ want' = [want EXCEPT ![p] = s]
    /\ UNCHANGED <<owner, peer>>

\* p is given a channel the policy allows.
Acquire(p, c) ==
    /\ want[p] # NoServer
    /\ c \in Allowed(want[p])
    /\ owner' = [owner EXCEPT ![c] = p]
    /\ peer' = [peer EXCEPT ![c] = want[p]]
    /\ want' = [want EXCEPT ![p] = NoServer]

\* The owner of c returns it.
Release(p, c) ==
    /\ owner[c] = p
    /\ owner' = [owner EXCEPT ![c] = None]
    /\ UNCHANGED <<peer, want>>

\* The close handler reserves an idle, used channel for the ack ...
AckReserve(c) ==
    /\ owner[c] = None
    /\ peer[c] # NoServer
    /\ owner' = [owner EXCEPT ![c] = AckTask]
    /\ UNCHANGED <<peer, want>>

\* ... and frees it when the ack is out.
AckRelease(c) ==
    /\ owner[c] = AckTask
    /\ owner' = [owner EXCEPT ![c] = None]
    /\ UNCHANGED <<peer, want>>

Next ==
    \/ \E p \in Procs, s \in Servers : Request(p, s)
    \/ \E p \in Procs, c \in Chans : Acquire(p, c) \/ Release(p, c)
    \/ \E c \in Chans : AckReserve(c) \/ AckRelease(c)

Spec == Init /\ [][Next]_pvars
=============================================================================
