------------------------------ MODULE RecovPing ------------------------------
(***************************************************************************)
(* The ping daemon of the recovery module                                 *)
(* (src/CVSROOT/kernel/recov/recovProc.c), composed with the host table   *)
(* of Recovery.                                                            *)
(*                                                                         *)
(* Recov_Proc is a kernel process that wakes every recovPingSeconds and   *)
(* walks recovPingList: FirstHostToCheck and NextHostToCheck each take    *)
(* the ping-list monitor lock for one step of the walk, and between them  *)
(* the process calls RecovCheckHost and Rpc_Ping or Deactivate without   *)
(* the lock.  RecovAddHostToPing adds or re-activates an entry.  An       *)
(* Rpc_Ping reaches the host table through Rpc_Call's report to           *)
(* Recov_HostAlive or Recov_HostDead, as PingEffect of Recovery.           *)
(*                                                                         *)
(* recovPingList is a circular list with a header (List_Init): List_First *)
(* of an empty list and List_Next of the last entry are the header, and   *)
(* List_IsAtEnd(list, p) holds when p is the header.  The walk therefore  *)
(* ends with the header itself, read as a RecovPing.                      *)
(*                                                                         *)
(* Merging the unlocked check of an entry with the NextHostToCheck that   *)
(* follows loses no behaviour: the check touches only the host table and  *)
(* RecovAddHostToPing only the ping list, so the two commute.             *)
(***************************************************************************)
EXTENDS Recovery, Integers, Sequences

CONSTANTS
    PtrValue    \* the value of a RecovPing pointer taken as an int

ASSUME PtrValue \notin Hosts

VARIABLES
    pingList,        \* recovPingList in list order: [spriteID, active]
    numHostsPinged,  \* recov_Stats.numHostsPinged
    pingPtr          \* Recov_Proc's pingPtr: NilPtr while it sleeps in
                     \* Sync_WaitTime, HeaderPtr, or an entry's position

pvars == <<pingList, numHostsPinged, pingPtr>>

allVars == <<host, srv, waiter, peerUp, peerBoot, fault,
             pingList, numHostsPinged, pingPtr>>

NilPtr == 0
HeaderPtr == -1

TypePing ==
    /\ TypeOK
    /\ pingList \in Seq([spriteID : Hosts, active : BOOLEAN])
    /\ numHostsPinged \in Nat
    /\ pingPtr \in {NilPtr, HeaderPtr} \cup DOMAIN pingList

\* RecovPingInit: an empty list; Recov_Proc starts in its wait.
InitPing ==
    /\ Init
    /\ pingList = <<>>
    /\ numHostsPinged = 0
    /\ pingPtr = NilPtr

\* The position of the entry for spriteID, as LIST_FORALL finds it, or 0.
Position(spriteID) ==
    LET S == {i \in DOMAIN pingList : pingList[i].spriteID = spriteID}
    IN  IF S = {} THEN 0 ELSE CHOOSE i \in S : TRUE

-----------------------------------------------------------------------------
(* The procedures of recovProc.c.                                         *)

\* A NextHostToCheck without the List_IsAtEnd test: the walk goes round.
NextHostWraps(p) ==
    CASE p = HeaderPtr        -> IF pingList = <<>> THEN HeaderPtr ELSE 1
      [] p = Len(pingList)    -> HeaderPtr
      [] OTHER                -> p + 1

\* NextHostToCheck: NIL after the header, else List_Next, which is the
\* header after the last entry.
NextHostToCheck(p) ==
    CASE p = HeaderPtr        -> NilPtr
      [] p = Len(pingList)    -> HeaderPtr
      [] OTHER                -> p + 1

\* Deactivate(spriteID): LIST_FORALL for the entry; clear 'active' and
\* count it down if it was set.
Deactivate(spriteID) ==
    LET i == Position(spriteID) IN
    IF i # 0 /\ pingList[i].active
    THEN /\ pingList' = [pingList EXCEPT ![i].active = FALSE]
         /\ numHostsPinged' = numHostsPinged - 1
    ELSE UNCHANGED <<pingList, numHostsPinged>>

\* RecovAddHostToPing(h): re-activate h's entry, or append a new active
\* one; the count goes up unless the entry was already active.  Its
\* callers are not in the repository, so any host may be added at any time.
RecovAddHostToPing(h) ==
    /\ LET i == Position(h) IN
       IF i # 0
       THEN /\ pingList' = [pingList EXCEPT ![i].active = TRUE]
            /\ numHostsPinged' = IF pingList[i].active THEN numHostsPinged
                                 ELSE numHostsPinged + 1
       ELSE /\ pingList' = Append(pingList, [spriteID |-> h, active |-> TRUE])
            /\ numHostsPinged' = numHostsPinged + 1
    /\ UNCHANGED pingPtr
    /\ UNCHANGED vars

\* Sync_WaitTime returns and FirstHostToCheck takes List_First.
FirstHostToCheck ==
    /\ pingPtr = NilPtr
    /\ pingPtr' = IF pingList = <<>> THEN HeaderPtr ELSE 1
    /\ UNCHANGED <<pingList, numHostsPinged>>
    /\ UNCHANGED vars

\* RecovCheckHost (not in the repository), from the comment in Recov_Proc:
\* ping (> 0) when there has been no recent traffic, suppress (0) when
\* there has, deactivate (< 0) when no reboot call-backs are registered,
\* which the model does not track.  For the header, whose 'spriteID' is
\* the word after it, any result.
CheckResults(p) ==
    IF p = HeaderPtr THEN {1, 0, -1}
    ELSE IF host[pingList[p].spriteID].recent THEN {0, -1} ELSE {1, -1}

\* One turn of Recov_Proc's loop for pingPtr, then NextHostToCheck:
\* Rpc_Ping on a positive check, Deactivate(pingPtr) on a negative one.
\* Deactivate is passed the pointer, not pingPtr->spriteID, so LIST_FORALL
\* compares every spriteID with PtrValue.  A ping of the header's
\* spriteID goes to no host of the table.  Recov_Proc does not look at
\* 'active': inactive entries are checked and pinged too.
RecovProcVisit ==
    /\ pingPtr # NilPtr
    /\ \E check \in CheckResults(pingPtr) :
         /\ IF check > 0 /\ pingPtr # HeaderPtr
            THEN LET h == pingList[pingPtr].spriteID IN
                 \E rep \in Replies(h) :
                    host' = [host EXCEPT ![h] = PingEffect(@, rep.status, rep.boot)]
            ELSE UNCHANGED host
         /\ IF check < 0 THEN Deactivate(PtrValue)
            ELSE UNCHANGED <<pingList, numHostsPinged>>
    /\ pingPtr' = NextHostToCheck(pingPtr)
    /\ UNCHANGED <<srv, waiter, peerUp, peerBoot, fault>>

\* A panic reboots the local kernel: the host table and the ping list
\* start empty again (RecovPingInit).
PingReboot ==
    /\ LocalReboot
    /\ pingList' = <<>>
    /\ numHostsPinged' = 0
    /\ pingPtr' = NilPtr

NextPing ==
    \/ ~fault /\ Next /\ UNCHANGED pvars
    \/ PingReboot
    \/ \E h \in Hosts : ~fault /\ RecovAddHostToPing(h)
    \/ ~fault /\ FirstHostToCheck
    \/ ~fault /\ RecovProcVisit

\* Recov_Proc is a kernel process: its timed wait returns and, once
\* running, it is scheduled.
SpecPing ==
    /\ InitPing /\ [][NextPing]_allVars /\ Fairness
    /\ WF_allVars(~fault /\ RecovProcVisit)

-----------------------------------------------------------------------------
(* Properties.                                                            *)

\* Every walk of the ping list ends: once Recov_Proc has taken the first
\* entry, it gets back to its Sync_WaitTime, though RecovAddHostToPing may
\* append entries behind it while it walks.
ScanEnds == (pingPtr # NilPtr) ~> (pingPtr = NilPtr)
=============================================================================
