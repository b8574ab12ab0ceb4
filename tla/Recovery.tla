------------------------------ MODULE Recovery ------------------------------
(***************************************************************************)
(* The host-state table of the Sprite recovery module                     *)
(* (src/CVSROOT/kernel/recov/recovery.c).                                  *)
(*                                                                         *)
(* The table maps a peer's sprite ID to a RecovHostState.  Every ENTRY     *)
(* procedure runs under the single monitor lock of the module, so each     *)
(* lock section is one action here.  Work that the code does outside the  *)
(* lock is split at the lock boundary: the synchronous Recov_HostAlive     *)
(* blocks in Sync_Wait(&recovery) and resumes later, and the reboot        *)
(* call-back task first pings, then runs the call-backs, then calls        *)
(* CallBacksDone.                                                          *)
(*                                                                         *)
(* Tasks handed to Proc_CallFunc are counted per host: crash is the        *)
(* number of scheduled RecovCrashCallBacks invocations, reboot those of    *)
(* RecovRebootCallBacks and ping those of CheckHost.  Their delay          *)
(* arguments (recovPause, recovPingSeconds) only affect timing.            *)
(*                                                                         *)
(* Rpc_Ping is an Rpc_Call (rpc/rpcCall.c); its effect on this module is   *)
(* the Recov_HostAlive or Recov_HostDead that Rpc_Call makes on the way    *)
(* out, so a ping outcome is modelled together with that side effect.     *)
(***************************************************************************)
EXTENDS Naturals, FiniteSets

CONSTANTS
    Hosts,      \* sprite IDs of peers (model values)
    Servers,    \* RPC server processes that call Recov_HostAlive(.., FALSE)
    Waiters,    \* processes that call Recov_WaitForHost
    MaxBoot,    \* largest boot time stamp a peer reaches
    Bits,       \* client-state bits other modules keep in the table
    NoHost      \* no host (a model value outside Hosts)

ASSUME MaxBoot \in Nat \ {0} /\ NoHost \notin Hosts

\* The bits of RecovHostState.state (recovery.c lines 58-66).  The value
\* RECOV_STATE_UNKNOWN is the absence of both ALIVE and DEAD.
Flags == {"ALIVE", "DEAD", "CRASH_CALLBACKS", "PINGING", "REBOOT_CALLBACKS"}

\* Outcomes of Rpc_Ping.
PingStatus == {"SUCCESS", "SERVICE_DISABLED", "TIMEOUT"}

VARIABLES
    host,       \* host[h]: the table entry of h and its scheduled tasks
    srv,        \* srv[s]: a server inside a synchronous Recov_HostAlive
    waiter,     \* waiter[w]: the host w waits for in WaitForHostInt
    peerUp,     \* is the peer machine running
    peerBoot,   \* the boot time stamp the peer puts in its messages
    fault       \* TRUE once the code dereferenced a NIL table entry

vars == <<host, srv, waiter, peerUp, peerBoot, fault>>

(***************************************************************************)
(* A table entry.  'entry' is FALSE while the hash table has no value for  *)
(* the host.  'recent' stands for hostPtr->time being within ten seconds   *)
(* of now.  'rbRun' is TRUE while a RecovRebootCallBacks invocation is     *)
(* inside its call-back loop.  'owed' is history: it is set when the host *)
(* comes back (DEAD -> ALIVE) and cleared when a reboot call-back loop     *)
(* starts.                                                                 *)
(***************************************************************************)
Entry == [entry : BOOLEAN, st : SUBSET Flags, bootID : 0..MaxBoot,
          recent : BOOLEAN, clientState : SUBSET Bits,
          crash : Nat, reboot : Nat, rbRun : BOOLEAN, ping : Nat,
          owed : BOOLEAN]

NoEntry == [entry |-> FALSE, st |-> {}, bootID |-> 0, recent |-> FALSE,
            clientState |-> {}, crash |-> 0, reboot |-> 0, rbRun |-> FALSE,
            ping |-> 0, owed |-> FALSE]

SrvIdle == [host |-> NoHost, reboot |-> FALSE, woken |-> FALSE]

TypeOK ==
    /\ host \in [Hosts -> Entry]
    /\ srv \in [Servers -> [host : Hosts \cup {NoHost}, reboot : BOOLEAN,
                             woken : BOOLEAN]]
    /\ waiter \in [Waiters -> Hosts \cup {NoHost}]
    /\ peerUp \in [Hosts -> BOOLEAN]
    /\ peerBoot \in [Hosts -> 1..MaxBoot]
    /\ fault \in BOOLEAN

Init ==
    /\ host = [h \in Hosts |-> NoEntry]
    /\ srv = [s \in Servers |-> SrvIdle]
    /\ waiter = [w \in Waiters |-> NoHost]
    /\ peerUp = [h \in Hosts |-> TRUE]
    /\ peerBoot = [h \in Hosts |-> 1]
    /\ fault = FALSE

-----------------------------------------------------------------------------
(* Operations on one entry, each the body of a lock section.              *)

\* The first part of Recov_HostAlive, up to the synchronous wait: create the
\* entry as ALIVE if it has none, note the traffic, and on a new boot time
\* stamp of a host thought ALIVE synthesise the undetected crash.
AliveEnter(r, b) ==
    LET e == IF r.entry THEN r
             ELSE [r EXCEPT !.entry = TRUE, !.st = {"ALIVE"}, !.bootID = b,
                            !.clientState = {}]
        crashed == e.bootID # b /\ "ALIVE" \in e.st
    IN  [e EXCEPT !.recent = TRUE, !.bootID = b,
                  !.st = IF crashed
                         THEN (@ \ {"ALIVE"}) \cup {"DEAD", "CRASH_CALLBACKS"}
                         ELSE @,
                  !.crash = IF crashed THEN @ + 1 ELSE @]

\* Whether AliveEnter sees a reboot (its local variable 'reboot').
IsReboot(r, b) == r.entry /\ r.bootID # b

\* The switch at the end of Recov_HostAlive: a DEAD host becomes ALIVE and,
\* unless they are pending, the reboot call-backs are scheduled.  UNKNOWN
\* only draws a warning.
AliveSwitch(r) ==
    IF r.st \cap {"ALIVE", "DEAD"} = {"DEAD"}
    THEN [r EXCEPT !.st = (@ \ {"DEAD"}) \cup {"ALIVE", "REBOOT_CALLBACKS"},
                   !.owed = TRUE,
                   !.reboot = IF "REBOOT_CALLBACKS" \in r.st THEN @ ELSE @ + 1]
    ELSE r

\* Recov_HostAlive(h, b, TRUE): the asynchronous form used by Rpc_Call.
Recov_HostAliveAsync(r, b) ==
    IF b = 0 THEN r ELSE AliveSwitch(AliveEnter(r, b))

\* Recov_HostDead: the switch masks CRASH_CALLBACKS and PINGING only, so a
\* host with REBOOT_CALLBACKS set matches no case.  No entry is created.
Recov_HostDead(r) ==
    IF r.entry /\ r.st \ {"CRASH_CALLBACKS", "PINGING"} \in {{}, {"ALIVE"}}
    THEN [r EXCEPT !.st = (@ \ {"ALIVE"}) \cup {"DEAD", "CRASH_CALLBACKS"},
                   !.crash = @ + 1]
    ELSE r

\* The state Rpc_Call reports to the recovery module for a ping outcome.
PingEffect(r, status, b) ==
    IF status = "TIMEOUT" THEN Recov_HostDead(r) ELSE Recov_HostAliveAsync(r, b)

\* GetHostState: the flags are masked off and an ALIVE host without message
\* traffic in the last ten seconds is reported UNKNOWN.
GetHostState(r) ==
    LET s == r.st \cap {"ALIVE", "DEAD"}
    IN  IF ~r.entry \/ s = {} \/ (s = {"ALIVE"} /\ ~r.recent) THEN "UNKNOWN"
        ELSE IF s = {"ALIVE"} THEN "ALIVE" ELSE "DEAD"

\* StartPinging, given that the entry exists.
StartPinging(r) ==
    IF "PINGING" \in r.st THEN r
    ELSE [r EXCEPT !.st = @ \cup {"PINGING"}, !.ping = @ + 1]

\* The replies a peer can give to a ping: a booting peer answers
\* RPC_SERVICE_DISABLED, possibly with a zero boot time stamp.
Replies(h) ==
    IF peerUp[h]
    THEN {[status |-> "SUCCESS", boot |-> peerBoot[h]],
          [status |-> "SERVICE_DISABLED", boot |-> peerBoot[h]],
          [status |-> "SERVICE_DISABLED", boot |-> 0],
          [status |-> "TIMEOUT", boot |-> 0]}
    ELSE {[status |-> "TIMEOUT", boot |-> 0]}

-----------------------------------------------------------------------------
(* Actions.  Each names the procedure whose lock section it is.           *)

\* Rpc_Call returns to a client process: a timeout or unreachable net calls
\* Recov_HostDead, any other reply Recov_HostAlive(server, bootID, TRUE).
ClientRpcDone(h) ==
    /\ \E rep \in Replies(h) :
          host' = [host EXCEPT ![h] = PingEffect(@, rep.status, rep.boot)]
    /\ UNCHANGED <<srv, waiter, peerUp, peerBoot, fault>>

\* An RPC server process s takes a request from h and calls
\* Recov_HostAlive(h, bootID, FALSE).  If crash call-backs are pending it
\* blocks in Sync_Wait(&hostPtr->recovery), keeping its local 'reboot'.
HostAliveSync(s, h) ==
    /\ srv[s] = SrvIdle
    /\ peerUp[h]
    /\ LET r == AliveEnter(host[h], peerBoot[h]) IN
         IF "CRASH_CALLBACKS" \in r.st
         THEN /\ host' = [host EXCEPT ![h] = r]
              /\ srv' = [srv EXCEPT ![s] =
                           [host |-> h, reboot |-> IsReboot(host[h], peerBoot[h]),
                            woken |-> FALSE]]
         ELSE /\ host' = [host EXCEPT ![h] = AliveSwitch(r)]
              /\ UNCHANGED srv
    /\ UNCHANGED <<waiter, peerUp, peerBoot, fault>>

\* A server woken by the broadcast of MarkRecoveryComplete re-acquires the
\* monitor lock and re-tests the loop condition.  It waits again while
\* CRASH_CALLBACKS is set, and otherwise finishes Recov_HostAlive.
HostAliveResume(s) ==
    /\ srv[s].host # NoHost
    /\ srv[s].woken
    /\ LET h == srv[s].host IN
         IF "CRASH_CALLBACKS" \in host[h].st
         THEN /\ srv' = [srv EXCEPT ![s].woken = FALSE]
              /\ UNCHANGED host
         ELSE /\ host' = [host EXCEPT ![h] = AliveSwitch(@)]
              /\ srv' = [srv EXCEPT ![s] = SrvIdle]
    /\ UNCHANGED <<waiter, peerUp, peerBoot, fault>>

\* Variant of RecovCrashCallBacks whose MarkRecoveryComplete clears the
\* flag but does not broadcast 'recovery'.
CrashCallBacksNoBroadcast(h) ==
    /\ host[h].crash > 0
    /\ host' = [host EXCEPT ![h].crash = @ - 1,
                            ![h].st = @ \ {"CRASH_CALLBACKS"}]
    /\ UNCHANGED <<srv, waiter, peerUp, peerBoot, fault>>

\* Variant of RecovCrashCallBacks that holds the crash phase back until no
\* reboot call-back task is outstanding, serialising the two phases.
CrashCallBacksAfterReboot(h) ==
    /\ host[h].crash > 0
    /\ host[h].reboot = 0
    /\ host' = [host EXCEPT ![h].crash = @ - 1,
                            ![h].st = @ \ {"CRASH_CALLBACKS"}]
    /\ srv' = [s \in Servers |->
                 IF srv[s].host = h THEN [srv[s] EXCEPT !.woken = TRUE]
                 ELSE srv[s]]
    /\ UNCHANGED <<waiter, peerUp, peerBoot, fault>>

\* RecovCrashCallBacks: run the RECOV_WHEN_HOST_DOWN call-backs, then
\* MarkRecoveryComplete clears CRASH_CALLBACKS and broadcasts 'recovery',
\* which makes every server blocked on this host runnable.
RecovCrashCallBacks(h) ==
    /\ host[h].crash > 0
    /\ host' = [host EXCEPT ![h].crash = @ - 1,
                            ![h].st = @ \ {"CRASH_CALLBACKS"}]
    /\ srv' = [s \in Servers |->
                 IF srv[s].host = h THEN [srv[s] EXCEPT !.woken = TRUE]
                 ELSE srv[s]]
    /\ UNCHANGED <<waiter, peerUp, peerBoot, fault>>

\* RecovRebootCallBacks: ping the host.  RPC_SERVICE_DISABLED and
\* RPC_TIMEOUT reschedule the task; SUCCESS starts the
\* RECOV_WHEN_HOST_REBOOTS call-backs, which run outside the lock.
RecovRebootCallBacks(h) ==
    /\ host[h].reboot > 0
    /\ ~host[h].rbRun
    /\ \E rep \in Replies(h) :
         LET r == PingEffect(host[h], rep.status, rep.boot) IN
         host' = [host EXCEPT ![h] =
                    IF rep.status = "SUCCESS"
                    THEN [r EXCEPT !.rbRun = TRUE, !.owed = FALSE]
                    ELSE r]
    /\ UNCHANGED <<srv, waiter, peerUp, peerBoot, fault>>

\* Variant of CallBacksDone reached without a running call-back loop
\* (CallBacksDone itself only warns when REBOOT_CALLBACKS is clear).
CallBacksDoneUnchecked(h) ==
    /\ host' = [host EXCEPT ![h].st = @ \ {"REBOOT_CALLBACKS"},
                            ![h].reboot = @ - 1, ![h].rbRun = FALSE]
    /\ UNCHANGED <<srv, waiter, peerUp, peerBoot, fault>>

\* The call-back loop of RecovRebootCallBacks ends and CallBacksDone clears
\* REBOOT_CALLBACKS; the task is not called again.
CallBacksDone(h) ==
    /\ host[h].rbRun
    /\ host' = [host EXCEPT ![h].st = @ \ {"REBOOT_CALLBACKS"},
                            ![h].reboot = @ - 1, ![h].rbRun = FALSE]
    /\ UNCHANGED <<srv, waiter, peerUp, peerBoot, fault>>

\* CheckHost: a host reported DEAD or UNKNOWN is pinged; on anything but
\* SUCCESS the task runs again later, on SUCCESS StopPinging clears PINGING.
CheckHost(h) ==
    /\ host[h].ping > 0
    /\ \E rep \in Replies(h) :
         LET probe  == GetHostState(host[h]) # "ALIVE"
             status == IF probe THEN rep.status ELSE "SUCCESS"
             r      == IF probe THEN PingEffect(host[h], rep.status, rep.boot)
                       ELSE host[h]
         IN  host' = [host EXCEPT ![h] =
                        IF status = "SUCCESS"
                        THEN [r EXCEPT !.st = @ \ {"PINGING"}, !.ping = @ - 1]
                        ELSE r]
    /\ UNCHANGED <<srv, waiter, peerUp, peerBoot, fault>>
\* Recov_IsHostDown(h, ping): UNKNOWN is resolved by a ping, ALIVE is
\* SUCCESS and DEAD is FAILURE.  On a non-SUCCESS status with 'ping' set,
\* StartPinging looks the host up with Hash_LookOnly and dereferences the
\* result without a NIL check: 'nil' is TRUE when there is no entry.
IsHostDownResult(r, rep, ping) ==
    LET state  == GetHostState(r)
        status == CASE state = "UNKNOWN" -> rep.status
                    [] state = "ALIVE"   -> "SUCCESS"
                    [] state = "DEAD"    -> "FAILURE"
        r1     == IF state = "UNKNOWN" THEN PingEffect(r, rep.status, rep.boot)
                  ELSE r
        start  == status # "SUCCESS" /\ ping
    IN  [r      |-> IF start /\ r1.entry THEN StartPinging(r1) ELSE r1,
         status |-> status,
         nil    |-> start /\ ~r1.entry]

\* A caller asks Recov_IsHostDown(h, ping).
IsHostDown(h) ==
    /\ \E rep \in Replies(h), ping \in BOOLEAN :
         LET res == IsHostDownResult(host[h], rep, ping) IN
         /\ host' = [host EXCEPT ![h] = res.r]
         /\ fault' = res.nil
    /\ UNCHANGED <<srv, waiter, peerUp, peerBoot>>

\* Recov_WaitForHost: Recov_IsHostDown(h, TRUE); on FAILURE,
\* WaitForHostInt blocks on hostPtr->alive while the host is DEAD.
WaitForHost(w, h) ==
    /\ waiter[w] = NoHost
    /\ \E rep \in Replies(h) :
         LET res == IsHostDownResult(host[h], rep, TRUE) IN
         /\ host' = [host EXCEPT ![h] = res.r]
         /\ fault' = res.nil
         /\ waiter' = IF res.status = "FAILURE" /\ "DEAD" \in res.r.st
                      THEN [waiter EXCEPT ![w] = h] ELSE waiter
    /\ UNCHANGED <<srv, peerUp, peerBoot>>

\* Sync_Wait(&hostPtr->alive, TRUE) returns because a signal is pending.
WaitInterrupted(w) ==
    /\ waiter[w] # NoHost
    /\ waiter' = [waiter EXCEPT ![w] = NoHost]
    /\ UNCHANGED <<host, srv, peerUp, peerBoot, fault>>

\* Variant of Recov_Pending that schedules CheckHost without testing PINGING.
PendingRestartsPinger(h) ==
    /\ host[h].entry
    /\ "DEAD" \in host[h].st
    /\ host' = [host EXCEPT ![h].st = @ \cup {"PINGING"}, ![h].ping = @ + 1]
    /\ UNCHANGED <<srv, waiter, peerUp, peerBoot, fault>>

\* Recov_Pending on a DEAD host that is not being pinged starts CheckHost.
Recov_Pending(h) ==
    /\ host[h].entry
    /\ "DEAD" \in host[h].st
    /\ "PINGING" \notin host[h].st
    /\ host' = [host EXCEPT ![h] = StartPinging(@)]
    /\ UNCHANGED <<srv, waiter, peerUp, peerBoot, fault>>

\* Recov_SetClientState creates an UNKNOWN entry with boot time stamp 0
\* when the host has none, then sets the bits.
Recov_SetClientState(h, b) ==
    /\ host' = [host EXCEPT ![h] =
                  [(IF @.entry THEN @ ELSE [@ EXCEPT !.entry = TRUE])
                     EXCEPT !.clientState = @ \cup {b}]]
    /\ UNCHANGED <<srv, waiter, peerUp, peerBoot, fault>>

\* Recov_ClearClientState clears bits of an existing entry.
Recov_ClearClientState(h, b) ==
    /\ host[h].entry
    /\ b \in host[h].clientState
    /\ host' = [host EXCEPT ![h].clientState = @ \ {b}]
    /\ UNCHANGED <<srv, waiter, peerUp, peerBoot, fault>>

\* Ten seconds pass without traffic from h (hostPtr->time grows old).
Tick(h) ==
    /\ host[h].recent
    /\ host' = [host EXCEPT ![h].recent = FALSE]
    /\ UNCHANGED <<srv, waiter, peerUp, peerBoot, fault>>

\* The peer machine crashes, or boots with a new boot time stamp.
PeerCrash(h) ==
    /\ peerUp[h]
    /\ peerUp' = [peerUp EXCEPT ![h] = FALSE]
    /\ UNCHANGED <<host, srv, waiter, peerBoot, fault>>

PeerReboot(h) ==
    /\ ~peerUp[h]
    /\ peerBoot[h] < MaxBoot
    /\ peerUp' = [peerUp EXCEPT ![h] = TRUE]
    /\ peerBoot' = [peerBoot EXCEPT ![h] = @ + 1]
    /\ UNCHANGED <<host, srv, waiter, fault>>

\* The NIL dereference panics the local kernel; it is rebooted with an empty
\* host table and no processes inside the module.
LocalReboot ==
    /\ fault
    /\ host' = [h \in Hosts |-> NoEntry]
    /\ srv' = [s \in Servers |-> SrvIdle]
    /\ waiter' = [w \in Waiters |-> NoHost]
    /\ fault' = FALSE
    /\ UNCHANGED <<peerUp, peerBoot>>

\* The module's procedures, the processes inside it, and the peers.  After
\* a panic nothing but the reboot happens.
Next ==
    \/ \E h \in Hosts : ~fault /\ ClientRpcDone(h)
    \/ \E s \in Servers, h \in Hosts : ~fault /\ HostAliveSync(s, h)
    \/ \E s \in Servers : ~fault /\ HostAliveResume(s)
    \/ \E h \in Hosts : ~fault /\ RecovCrashCallBacks(h)
    \/ \E h \in Hosts : ~fault /\ RecovRebootCallBacks(h)
    \/ \E h \in Hosts : ~fault /\ CallBacksDone(h)
    \/ \E h \in Hosts : ~fault /\ CheckHost(h)
    \/ \E h \in Hosts : ~fault /\ IsHostDown(h)
    \/ \E w \in Waiters, h \in Hosts : ~fault /\ WaitForHost(w, h)
    \/ \E w \in Waiters : ~fault /\ WaitInterrupted(w)
    \/ \E h \in Hosts : ~fault /\ Recov_Pending(h)
    \/ \E h \in Hosts, b \in Bits : ~fault /\ Recov_SetClientState(h, b)
    \/ \E h \in Hosts, b \in Bits : ~fault /\ Recov_ClearClientState(h, b)
    \/ \E h \in Hosts : ~fault /\ Tick(h)
    \/ \E h \in Hosts : ~fault /\ PeerCrash(h)
    \/ \E h \in Hosts : ~fault /\ PeerReboot(h)
    \/ LocalReboot

\* Proc_CallFunc runs its callbacks in kernel server processes, and a
\* process made runnable by Sync_Broadcast is eventually scheduled.
Fairness ==
    /\ \A h \in Hosts : WF_vars(RecovCrashCallBacks(h)) /\ WF_vars(CallBacksDone(h))
    /\ \A s \in Servers : WF_vars(HostAliveResume(s))
    /\ WF_vars(LocalReboot)

Spec == Init /\ [][Next]_vars /\ Fairness
-----------------------------------------------------------------------------
(* Properties.                                                            *)

\* The call-back flags stand for scheduled Proc_CallFunc tasks: while
\* CRASH_CALLBACKS is set a RecovCrashCallBacks is still to run, and
\* REBOOT_CALLBACKS and PINGING are set exactly while one
\* RecovRebootCallBacks, respectively one CheckHost, is scheduled.  A flag
\* without its task would block servers or suppress recovery forever; a
\* second task would run the call-backs twice.
TasksMatchFlags ==
    \A h \in Hosts :
        /\ "CRASH_CALLBACKS" \in host[h].st => host[h].crash > 0
        /\ ("REBOOT_CALLBACKS" \in host[h].st) = (host[h].reboot = 1)
        /\ ("PINGING" \in host[h].st) = (host[h].ping = 1)
        /\ host[h].reboot <= 1 /\ host[h].ping <= 1
        /\ host[h].rbRun => host[h].reboot = 1

\* A server blocked in the synchronous Recov_HostAlive sleeps on
\* 'recovery' only while CRASH_CALLBACKS is set: whatever clears the flag
\* (MarkRecoveryComplete) has also woken it, so no wakeup is lost.
RecoveryWaitersHaveCause ==
    \A s \in Servers :
        srv[s].host # NoHost /\ ~srv[s].woken
            => "CRASH_CALLBACKS" \in host[srv[s].host].st

\* Every crash-call-back phase ends: once CRASH_CALLBACKS is set,
\* RecovCrashCallBacks eventually runs and clears it, so servers blocked
\* in Recov_HostAlive are not held forever.
CrashPhaseCompletes ==
    \A h \in Hosts :
        ("CRASH_CALLBACKS" \in host[h].st) ~> ("CRASH_CALLBACKS" \notin host[h].st)

\* spec.md section 3: at most one crash-call-back sequence is active per
\* peer at any moment.  Recov_HostAlive schedules RecovCrashCallBacks on an
\* undetected crash without looking at CRASH_CALLBACKS.
CrashCallbacksUnique ==
    \A h \in Hosts : host[h].crash <= 1

\* spec.md section 4.1: a peer that comes back from DEAD gets its reboot
\* call-backs.  Once Recov_HostAlive has moved h from DEAD to ALIVE, a
\* RecovRebootCallBacks whose call-back loop has not yet started is
\* scheduled, so the loop runs after the revival.
RebootCallbacksNotLost ==
    \A h \in Hosts : host[h].owed => host[h].reboot > 0 /\ ~host[h].rbRun

\* spec.md section 4.1: wait_for blocks until the peer transitions to
\* alive.  A process in WaitForHostInt on h is released once h is ALIVE.
WaitForHostReturns ==
    \A w \in Waiters, h \in Hosts :
        (waiter[w] = h /\ "ALIVE" \in host[h].st) ~> (waiter[w] # h)

\* spec.md section 4.1: is_dead with arm_pinger makes sure the pinger
\* probes a down peer.  Recov_IsHostDown never reaches StartPinging with
\* a host that has no table entry (which it would dereference as NIL).
NoNilEntry == ~fault
=============================================================================
