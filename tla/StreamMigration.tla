--------------------------- MODULE StreamMigration ---------------------------
(***************************************************************************)
(* Migration of an open stream between client hosts                       *)
(* (src/CVSROOT/kernel/fs/fsTopMigrate.c).                                 *)
(*                                                                         *)
(* Processes that share one stream migrate between client hosts.  The    *)
(* origin packs the stream with Fs_EncapFileState/Fs_EncapStream, which   *)
(* change nothing but the process's stream slot.  The target unpacks it   *)
(* with Fs_DeencapStream in three steps: FsStreamAddClient finds or       *)
(* creates the local stream object (foundStream) and puts the host on its *)
(* client list (foundClient); it unlocks and calls the I/O server         *)
(* (FsNotifyOfMigration, an RPC served by Fs_RpcMigrateStream); and it    *)
(* finishes on the reply: migEnd creates the local I/O handle when the    *)
(* host was not a client before, and a failure of either call releases   *)
(* the stream, disposing of it if it was not found.  The I/O server      *)
(* moves one reference of the stream from origin to target and adjusts   *)
(* the I/O handle's use counts and client list (FsMigrateUseCounts,       *)
(* FsIOClientMigrate).                                                    *)
(*                                                                         *)
(* The target's steps run in separate kernel processes (one per incoming  *)
(* process), so two deencapsulations of the same stream on one host can   *)
(* interleave around the unlocked RPC, and the FS_MIGRATE requests of    *)
(* different targets reach the I/O server in any order.                   *)
(***************************************************************************)
EXTENDS Integers, FiniteSets

CONSTANTS
    Hosts,          \* client hosts (Sprite IDs)
    Home,           \* the host where the stream was opened
    Procs,          \* processes sharing the stream
    StreamFlags,    \* the stream's use flags: a subset of {"WRITE", "EXEC"}
    MigEndMayFail   \* whether the stream type's migEnd routine can fail

ASSUME /\ Home \in Hosts
       /\ MigEndMayFail \in BOOLEAN
       /\ StreamFlags \subseteq {"WRITE", "EXEC"}

\* Where a process is in a migration.
\*   run    : running on loc[p], its stream slot holds the stream
\*   sent   : encapsulated at env[p].src, its state sent to loc[p]
\*   added  : FsStreamAddClient done, FS_MIGRATE request outstanding
\*   served : the I/O server has answered, reply not yet taken
\*   failed : migration failed; Fs_CloseState has closed its file state
PCs == {"run", "sent", "added", "served", "failed"}

Replies == {"none", "SUCCESS", "FS_STALE_HANDLE"}

VARIABLES
    loc,        \* loc[p]: the host p runs on, or is migrating to
    pc,         \* pc[p] \in PCs
    env,        \* env[p]: the migration envelope and the target's locals
    lstr,       \* lstr[h]: the local Fs_Stream on host h and its I/O handle
    shadow,     \* shadow[h]: references of host h the I/O server counts
    use,        \* the I/O handle's use counts [ref, write, exec]
    ioClients,  \* hosts on the I/O handle's client list
    moves       \* migrations started so far (bounded by the MC module)

vars == <<loc, pc, env, lstr, shadow, use, ioClients, moves>>

Env == [src : Hosts, flags : SUBSET (StreamFlags \cup {"NEW"}),
        foundClient : BOOLEAN, foundStream : BOOLEAN, reply : Replies]

\* A local Fs_Stream: whether it exists, whether the host is on its client
\* list, and whether its ioHandlePtr is set.
NoStream == [exists |-> FALSE, client |-> FALSE, io |-> FALSE]

\* The count FsMigrateUseCounts keeps for a use flag F.
Counted(F) == IF F \in StreamFlags THEN 1 ELSE 0

Init ==
    /\ loc = [p \in Procs |-> Home]
    /\ pc = [p \in Procs |-> "run"]
    /\ env = [p \in Procs |-> [src |-> Home, flags |-> StreamFlags,
                               foundClient |-> TRUE, foundStream |-> TRUE,
                               reply |-> "none"]]
    /\ lstr = [h \in Hosts |->
                 IF h = Home THEN [exists |-> TRUE, client |-> TRUE, io |-> TRUE]
                 ELSE NoStream]
    /\ shadow = [h \in Hosts |-> IF h = Home THEN Cardinality(Procs) ELSE 0]
    /\ use = [ref |-> 1, write |-> Counted("WRITE"), exec |-> Counted("EXEC")]
    /\ ioClients = {Home}
    /\ moves = 0

-----------------------------------------------------------------------------
(* The I/O server's bookkeeping.                                          *)

\* Variant without the un-sharing branch.
UseCountsNoDecrement(flags, closeSrcClient, u) ==
    LET d == IF "NEW" \in flags /\ ~closeSrcClient THEN 1 ELSE 0
    IN  [ref   |-> u.ref + d,
         write |-> u.write + (IF "WRITE" \in flags THEN d ELSE 0),
         exec  |-> u.exec + (IF "EXEC" \in flags THEN d ELSE 0)]

\* FsMigrateUseCounts: a stream new at the target and still open at the
\* origin becomes shared (+1); one already at the target whose last
\* origin reference closed becomes unshared (-1); otherwise no change.
FsMigrateUseCounts(flags, closeSrcClient, u) ==
    LET d == CASE "NEW" \in flags /\ ~closeSrcClient   -> 1
               [] "NEW" \notin flags /\ closeSrcClient -> -1
               [] OTHER                                -> 0
    IN  [ref   |-> u.ref + d,
         write |-> u.write + (IF "WRITE" \in flags THEN d ELSE 0),
         exec  |-> u.exec + (IF "EXEC" \in flags THEN d ELSE 0)]

\* Variant that never drops the origin from the client list.
IOClientMigrateNoClose(clients, src, dst, flags, closeSrcClient) ==
    IF "NEW" \in flags THEN clients \cup {dst} ELSE clients

\* Variant that drops the origin whether or not it keeps a reference.
IOClientMigrateAlwaysClose(clients, src, dst, flags, closeSrcClient) ==
    IF "NEW" \in flags THEN (clients \ {src}) \cup {dst} ELSE clients \ {src}

\* FsIOClientMigrate: drop the origin from the client list when its last
\* reference moved, add the target when the stream is new there.
FsIOClientMigrate(clients, src, dst, flags, closeSrcClient) ==
    LET c1 == IF closeSrcClient THEN clients \ {src} ELSE clients
    IN  IF "NEW" \in flags THEN c1 \cup {dst} ELSE c1

\* The stream-type migrate routine (FsStreamMigClient, outside this file):
\* one reference moves from src to dst in the server's stream, and the
\* origin's client is closed when that was its last reference.
CloseSrcClient(src) == shadow[src] = 1

-----------------------------------------------------------------------------
(* Actions.                                                               *)

\* Processes other than p whose stream reference is on host h: running
\* there, being deencapsulated there, or packed to go back to h itself.
OtherHolders(p, h) ==
    {q \in Procs \ {p} :
        /\ loc[q] = h
        /\ \/ pc[q] \in {"run", "added", "served"}
           \/ pc[q] = "sent" /\ env[q].src = h}

\* Variant that, leaving the origin, clears only the stream's existence.
OriginReleaseKeepsHandle(p, t) ==
    IF t # loc[p] /\ OtherHolders(p, loc[p]) = {}
    THEN [lstr EXCEPT ![loc[p]].exists = FALSE]
    ELSE lstr

\* Leaving its last reference on the origin, the process takes the origin's
\* stream object with it: the server's stream-type migrate routine closes
\* the origin's client (outside this file, spec.md section 4.3).
OriginRelease(p, t) ==
    IF t # loc[p] /\ OtherHolders(p, loc[p]) = {}
    THEN [lstr EXCEPT ![loc[p]] = NoStream]
    ELSE lstr

\* Fs_EncapFileState, the stream part: Fs_EncapStream reads the stream's
\* ioHandlePtr->fileID under the stream lock (a stream without an I/O
\* handle faults there, so only one with a handle is packed), copies the
\* flags and the origin's ID into the envelope, and the slot is set to NIL.
EncapFileState(p, t) ==
    /\ pc[p] = "run"
    /\ lstr[loc[p]].io
    /\ moves' = moves + 1
    /\ env' = [env EXCEPT ![p] = [src |-> loc[p], flags |-> StreamFlags,
                                  foundClient |-> FALSE, foundStream |-> FALSE,
                                  reply |-> "none"]]
    /\ loc' = [loc EXCEPT ![p] = t]
    /\ pc' = [pc EXCEPT ![p] = "sent"]
    /\ lstr' = OriginRelease(p, t)
    /\ UNCHANGED <<shadow, use, ioClients>>

\* Fs_DeencapStream on the origin itself: fetch the local stream, no RPC.
DeencapSelf(p) ==
    /\ pc[p] = "sent"
    /\ env[p].src = loc[p]
    /\ pc' = [pc EXCEPT ![p] = IF lstr[loc[p]].exists THEN "run" ELSE "failed"]
    /\ UNCHANGED <<loc, env, lstr, shadow, use, ioClients, moves>>

\* Fs_DeencapStream up to FsHandleUnlock: FsStreamAddClient finds or
\* creates the stream (foundStream) and puts the host on its client list
\* (foundClient); foundClient decides FS_NEW_STREAM.  The migrate routine
\* then sends FS_MIGRATE to the I/O server.
DeencapAddClient(p) ==
    LET t == loc[p]
    IN  /\ pc[p] = "sent"
        /\ env[p].src # t
        /\ env' = [env EXCEPT
                     ![p].foundClient = lstr[t].client,
                     ![p].foundStream = lstr[t].exists,
                     ![p].flags = IF lstr[t].client THEN @ \ {"NEW"}
                                                    ELSE @ \cup {"NEW"}]
        /\ lstr' = [lstr EXCEPT ![t].exists = TRUE, ![t].client = TRUE]
        /\ pc' = [pc EXCEPT ![p] = "added"]
        /\ UNCHANGED <<loc, shadow, use, ioClients, moves>>

\* Fs_RpcMigrateStream on the I/O server: clientVerify rejects an origin
\* that is not a client of the I/O handle; otherwise the reference moves
\* and the use counts and client list are updated.
Fs_RpcMigrateStream(p) ==
    LET e     == env[p]
        dst   == loc[p]
        close == CloseSrcClient(e.src)
    IN  /\ pc[p] = "added"
        /\ pc' = [pc EXCEPT ![p] = "served"]
        /\ IF e.src \notin ioClients
           THEN /\ env' = [env EXCEPT ![p].reply = "FS_STALE_HANDLE"]
                /\ UNCHANGED <<shadow, use, ioClients>>
           ELSE /\ env' = [env EXCEPT ![p].reply = "SUCCESS"]
                /\ shadow' = [shadow EXCEPT ![e.src] = @ - 1, ![dst] = @ + 1]
                /\ use' = FsMigrateUseCounts(e.flags, close, use)
                /\ ioClients' = FsIOClientMigrate(ioClients, e.src, dst,
                                                  e.flags, close)
        /\ UNCHANGED <<loc, lstr, moves>>

\* The end of Fs_DeencapStream.  When the migrate routine succeeded and the
\* host was not a client before, migEnd sets up the I/O handle.  On a
\* failure the stream is disposed of when it was not found
\* (FsStreamClientClose empties its one-host client list) and released
\* otherwise, and Fs_DeencapFileState closes the process's file state.
\* FS_NEW_STREAM is cleared from the stream's flags either way.
DeencapFinish(p, status) ==
    LET t == loc[p]
        e == env[p]
    IN  /\ IF status = "SUCCESS"
           THEN /\ pc' = [pc EXCEPT ![p] = "run"]
                /\ lstr' = IF e.foundClient THEN lstr
                           ELSE [lstr EXCEPT ![t].io = TRUE]
           ELSE /\ pc' = [pc EXCEPT ![p] = "failed"]
                /\ lstr' = IF e.foundStream THEN lstr
                           ELSE [lstr EXCEPT ![t] = NoStream]
        /\ env' = [env EXCEPT ![p].flags = @ \ {"NEW"}]
        /\ UNCHANGED <<loc, shadow, use, ioClients, moves>>

\* The reply of the I/O server reaches the target.
DeencapReply(p) ==
    /\ pc[p] = "served"
    /\ DeencapFinish(p, env[p].reply)

\* migEnd, called after the I/O server accepted the migration, fails.
DeencapMigEndFails(p) ==
    /\ MigEndMayFail
    /\ pc[p] = "served"
    /\ env[p].reply = "SUCCESS"
    /\ ~env[p].foundClient
    /\ DeencapFinish(p, "FAILURE")

Next ==
    \/ \E p \in Procs, t \in Hosts : EncapFileState(p, t)
    \/ \E p \in Procs : DeencapSelf(p)
    \/ \E p \in Procs : DeencapAddClient(p)
    \/ \E p \in Procs : Fs_RpcMigrateStream(p)
    \/ \E p \in Procs : DeencapReply(p)
    \/ \E p \in Procs : DeencapMigEndFails(p)

Spec == Init /\ [][Next]_vars

-----------------------------------------------------------------------------
(* Properties.                                                            *)

TypeOK ==
    /\ loc \in [Procs -> Hosts]
    /\ pc \in [Procs -> PCs]
    /\ env \in [Procs -> Env]
    /\ lstr \in [Hosts -> [exists : BOOLEAN, client : BOOLEAN, io : BOOLEAN]]
    /\ shadow \in [Hosts -> 0..Cardinality(Procs)]
    /\ ioClients \subseteq Hosts
    /\ moves \in Nat
    \* an I/O handle exists only under a local stream
    /\ \A h \in Hosts : lstr[h].io \/ lstr[h].client => lstr[h].exists

\* No process is between encapsulation and the end of deencapsulation.
Quiescent == \A p \in Procs : pc[p] \in {"run", "failed"}

\* The hosts where a running process holds the stream.
RunningHosts == {loc[p] : p \in {q \in Procs : pc[q] = "run"}}

\* spec.md sections 3 and 4.3: once migrations have ended, ref (and write
\* and exec for a stream with those flags) counts the hosts using the
\* stream.  The target decides FS_NEW_STREAM from its own stream table
\* before an unlocked RPC, the server decides closeSrcClient from its own
\* counts, and FsMigrateUseCounts turns the pair into +1, -1 or 0;
\* concurrent migrations of processes sharing the stream must add up.
UseCountsMatch ==
    Quiescent =>
        /\ use.ref = Cardinality(RunningHosts)
        /\ use.write = Counted("WRITE") * Cardinality(RunningHosts)
        /\ use.exec = Counted("EXEC") * Cardinality(RunningHosts)

\* spec.md section 4.3: once migrations have ended, the I/O handle's
\* client list is the set of hosts using the stream.  FsIOClientMigrate
\* removes the origin when the server counts its last reference gone and
\* adds the target only when the target flagged FS_NEW_STREAM.
ClientListMatches ==
    Quiescent => ioClients = RunningHosts

\* spec.md section 4.3: a process that resumes after Fs_DeencapStream has
\* a local stream with an I/O handle.  foundClient is read under the
\* stream lock and acted on after the unlocked RPC: a second process
\* arriving meanwhile finds the stream the first one is still setting up,
\* and the first one's failure disposes of a stream the second one uses.
MigratedStreamUsable ==
    \A p \in Procs :
        pc[p] = "run" => lstr[loc[p]].exists /\ lstr[loc[p]].io

\* spec.md section 4.3: the I/O server accepts every migration; it
\* refuses one with FS_STALE_HANDLE only when clientVerify does not find
\* the origin on the handle's client list, from which FsIOClientMigrate
\* removes an origin only when its last reference has moved away.
NoStaleRefusal ==
    \A p \in Procs : env[p].reply # "FS_STALE_HANDLE"

=============================================================================
