---------------------------- MODULE RaidInitiate ----------------------------
(***************************************************************************)
(* Block I/O on a Sprite disk array (raid/devRaidInitiate.c).              *)
(*                                                                         *)
(* Raid_InitiateStripeIOs cuts a request into stripe I/Os.  Each stripe   *)
(* I/O locks its stripe (shared for reads, exclusive for writes) and runs  *)
(* a chain of procedures: each builds a list of component requests, hands *)
(* it to Raid_InitiateIORequests, and names the procedure that runs when  *)
(* all of them have completed.  A write reads old data and parity         *)
(* (read-modify-write) or the rest of the stripe (reconstruct write),     *)
(* computes the new parity and writes data and parity; when a component   *)
(* fails, a recovery procedure takes over.  A read whose unit has failed  *)
(* is rebuilt from the rest of the stripe and the parity.                  *)
(* Raid_InitiateSimpleStripeIOs is the same cut into stripe units for an  *)
(* array without parity.                                                   *)
(*                                                                         *)
(* Component requests complete at interrupt level (blockIODoneProc) at any *)
(* time after they are issued, also while the issuing loop still runs;    *)
(* the stripe's next procedure then runs in a kernel process               *)
(* (Proc_CallFunc).  Disk contents are a bit per sector, so that parity    *)
(* and reconstruction are computed, not assumed.  Sectors and byte         *)
(* offsets are both counted in sectors.                                    *)
(*                                                                         *)
(* The request-building and XOR helpers (Raid_AddDataRangeRequests,        *)
(* AddRaidParityRequest, Raid_XorRangeRequests) and the stripe locks are   *)
(* in files that are not in the repository; they are modelled by the      *)
(* contract their call sites here rely on.  Parity is on column NData of  *)
(* every stripe.                                                           *)
(***************************************************************************)
EXTENDS Integers, Sequences, FiniteSets

LOCAL INSTANCE FiniteSetsExt

CONSTANTS
    NData,      \* data stripe units per stripe
    SPU,        \* sectors per stripe unit (sectorsPerStripeUnit)
    NStripes,   \* stripes of the array
    Clients,    \* processes that issue block I/O
    Shapes,     \* the <<firstSector, nthSector>> ranges they issue
    Patterns,   \* what a write carries: a bit per offset in a unit
    MaxFaults   \* component I/O errors in one behaviour

ASSUME /\ NData \in Nat \ {0} /\ SPU \in Nat \ {0} /\ NStripes \in Nat \ {0}
       /\ Shapes \subseteq {sh \in (0..NStripes * NData * SPU) \X (0..NStripes * NData * SPU) : sh[1] < sh[2]}

Parity == NData
Cols == 0..NData
DataCols == 0..(NData - 1)
Offs == 0..(SPU - 1)
DSPS == NData * SPU                 \* dataSectorsPerStripe
DataSecs == 0..(DSPS - 1)           \* data sectors of a stripe
Stripes == 0..(NStripes - 1)
Bit == {0, 1}
Unknown == -1                       \* history value of a sector after a failed write
Zero == [k \in Offs |-> 0]
ReadPat == Zero                     \* the buffer of a read carries nothing

VARIABLES
    disk,       \* disk[c][s][k]: bit k of column c's unit in stripe s
    failed,     \* columns Raid_FailDisk has marked failed
    lock,       \* lock[s]: the stripe lock, exclusive flag and reader count
    io,         \* io[cl]: client cl's RaidIOControl of the whole request
    sio,        \* sio[cl][s]: its RaidStripeIOControl for stripe s
    queued,     \* <<cl, s>> whose nonInterruptLevelCallBackProc is queued
    pc,         \* pc[cl]: where client cl is
    faults,     \* component I/O errors so far
    mem,        \* history: mem[s][i] last value written to data sector i, or Unknown
    staleRead,  \* history: a successful read returned other data than mem
    nreq,       \* history: requests client cl has issued
    ndone,      \* history: doneProc calls client cl has received
    last        \* history: status and amount of cl's last completion

vars == <<disk, failed, lock, io, sio, queued, pc, faults, mem, staleRead, nreq, ndone, last>>

Req == [col : Cols, off : Offs, len : 1..SPU, op : {"READ", "WRITE"},
        role : {"client", "buf"}, state : {"READY", "PENDING", "COMPLETED", "FAILED"},
        buf : [Offs -> Bit]]

Batch == [cb : {"none", "oldInfo", "stripeWrite", "stripeIO", "stripeRead", "reconRead"},
          next : Nat, numIO : Int, nFailed : Nat, fReq : Nat,
          issuing : BOOLEAN, byClient : BOOLEAN]

NoBatch == [cb |-> "none", next |-> 1, numIO |-> 0, nFailed |-> 0, fReq |-> 0,
            issuing |-> FALSE, byClient |-> FALSE]

NoSio == [phase |-> "none", op |-> "READ", first |-> 0, nth |-> 0, pat |-> ReadPat,
          recover |-> "NONE", rangeOff |-> 0, rangeLen |-> SPU, reqs |-> <<>>,
          numFailed |-> 0, failedReq |-> 0, result |-> 0, batch |-> NoBatch]

NoIO == [kind |-> "none", op |-> "READ", first |-> 0, nth |-> 0, pat |-> ReadPat,
         cur |-> 0, numIO |-> 0, status |-> "SUCCESS", amount |-> 0, out |-> {}]

Covers(r, k) == r.off <= k /\ k < r.off + r.len

-----------------------------------------------------------------------------
(* Helpers of devRaidUtil.c, as their callers here use them.              *)

\* Raid_AddDataRangeRequests: one request per data unit for the sectors of
\* [lo, hi) of the stripe whose offset in the unit is in [rOff, rOff+rLen).
\* A write carries the client's data.
DataReqs(x, op, role, lo, hi, rOff, rLen) ==
    LET Secs(u) == {i \in lo..(hi - 1) : i \div SPU = u /\ i % SPU \in rOff..(rOff + rLen - 1)}
        Touched == SelectSeq([k \in 1..NData |-> k - 1], LAMBDA u : Secs(u) # {})
        ReqOf(u) == [col |-> u, off |-> Min({i % SPU : i \in Secs(u)}),
                     len |-> Cardinality(Secs(u)), op |-> op, role |-> role,
                     state |-> "READY",
                     buf |-> IF op = "WRITE" THEN x.pat ELSE Zero]
    IN [k \in 1..Len(Touched) |-> ReqOf(Touched[k])]

\* AddRaidParityRequest and Raid_AddParityRangeRequest.
ParityReq(op, off, len, pb) ==
    [col |-> Parity, off |-> off, len |-> len, op |-> op, role |-> "buf",
     state |-> "READY", buf |-> pb]

\* Adding requests to the RaidRequestControl: a request for a column that
\* has failed is marked failed at once and counted in numFailed, and
\* failedReqPtr points to it.
AddReqs(x, rs) ==
    LET St(r) == IF r.col \in failed THEN "FAILED" ELSE "READY"
        New == [k \in 1..Len(rs) |-> [rs[k] EXCEPT !.state = St(rs[k])]]
        Fails == {k \in 1..Len(rs) : New[k].state = "FAILED"}
    IN [x EXCEPT !.reqs = x.reqs \o New,
                 !.numFailed = @ + Cardinality(Fails),
                 !.failedReq = IF Fails = {} THEN @ ELSE Len(x.reqs) + Max(Fails)]

\* numReq = numFailed = 0: the request list is reused from the start.
ResetReqs(x) == [x EXCEPT !.reqs = <<>>, !.numFailed = 0]

\* Raid_XorRangeRequests: XOR every request that has not failed into dest
\* over [rOff, rOff+rLen).  It must include requests not yet issued: the
\* new data is XORed in before it is written.
XorRange(dest, rs, rOff, rLen) ==
    LET Ones(k) == Quantify(DOMAIN rs, LAMBDA j : rs[j].state # "FAILED"
                                                /\ Covers(rs[j], k) /\ rs[j].buf[k] = 1)
    IN [k \in Offs |-> IF rOff <= k /\ k < rOff + rLen
                       THEN (dest[k] + Ones(k)) % 2 ELSE dest[k]]

-----------------------------------------------------------------------------
(* The stripe-I/O procedures, as operators on a RaidStripeIOControl.  An   *)
(* operator ends either in a new batch of requests (phase "batch") or in   *)
(* stripeIODoneProc (phase "finish", result = numFailed).                  *)

\* Mutant: Raid_InitiateIORequests without the initial numIO++.
StartBatchNoBias(x, cb) ==
    [x EXCEPT !.phase = "batch",
              !.batch = [NoBatch EXCEPT !.cb = cb, !.numIO = 0, !.issuing = TRUE]]

\* Raid_InitiateIORequests up to its loop: numIO starts at 1 so that the
\* loop cannot see it reach 0.
StartBatch(x, cb) ==
    [x EXCEPT !.phase = "batch",
              !.batch = [NoBatch EXCEPT !.cb = cb, !.numIO = 1, !.issuing = TRUE]]

Finish(x, n) == [x EXCEPT !.phase = "finish", !.result = n]

InitiateStripeIOFailure(x) == Finish(x, 2)

SplitCase(x, fr, rp) ==
    x.rangeLen = SPU /\ fr.len # SPU /\ rp # "FAIL"

RECURSIVE InitiateReadModifyWrite(_), InitiateReconstructWrite(_),
          InitiateSplitStripeWrite(_), CallRecover(_, _)

\* Calling stripeIOControlPtr->recoverProc.
CallRecover(x, p) ==
    CASE p = "RMW" -> InitiateReadModifyWrite(x)
      [] p = "RCW" -> InitiateReconstructWrite(x)
      [] p = "FAIL" -> InitiateStripeIOFailure(x)

InitiateSplitStripeWrite(x) ==
    LET fr == x.reqs[x.failedReq]
        deduce == x.recover = "RMW"
        fOff == IF deduce THEN (fr.off + fr.len) % SPU ELSE fr.off
        fLen == IF deduce THEN SPU - fr.len ELSE fr.len
        rOff == (fOff + fLen) % SPU
        rLen == SPU - fLen
        x1 == [ResetReqs(x) EXCEPT !.recover = "FAIL", !.rangeOff = 0, !.rangeLen = SPU]
        x2 == AddReqs(x1, DataReqs(x, "READ", "buf", 0, x.first, fOff, fLen)
                          \o DataReqs(x, "READ", "buf", x.nth, DSPS, fOff, fLen)
                          \o DataReqs(x, "READ", "buf", x.first, x.nth, rOff, rLen)
                          \o <<ParityReq("READ", rOff, rLen, Zero)>>)
    IN IF x2.numFailed = 0 THEN StartBatch(x2, "oldInfo")
                           ELSE CallRecover(x2, x2.recover)

InitiateReadModifyWrite(x) ==
    LET rp == x.recover
        xd == AddReqs(ResetReqs(x), DataReqs(x, "READ", "buf", x.first, x.nth, 0, SPU))
        one == Len(xd.reqs) = 1
        xr == [xd EXCEPT !.rangeOff = IF one THEN xd.reqs[1].off ELSE 0,
                         !.rangeLen = IF one THEN xd.reqs[1].len ELSE SPU]
        xq == AddReqs(xr, <<ParityReq("READ", xr.rangeOff, xr.rangeLen, Zero)>>)
    IN IF xq.numFailed = 0 THEN StartBatch(xq, "oldInfo")
       ELSE IF SplitCase(xq, xq.reqs[xq.failedReq], rp)
            THEN InitiateSplitStripeWrite([xq EXCEPT !.recover = "FAIL"])
            ELSE CallRecover([xq EXCEPT !.recover = "FAIL"], rp)

InitiateReconstructWrite(x) ==
    LET rp == x.recover
        same == x.first \div SPU = (x.nth - 1) \div SPU
        xr == [x EXCEPT !.rangeOff = IF same THEN x.first % SPU ELSE 0,
                        !.rangeLen = IF same THEN x.nth - x.first ELSE SPU]
        xd == AddReqs(ResetReqs(xr),
                      DataReqs(x, "READ", "buf", 0, x.first, xr.rangeOff, xr.rangeLen)
                      \o DataReqs(x, "READ", "buf", x.nth, DSPS, xr.rangeOff, xr.rangeLen))
    IN IF xd.numFailed = 0 THEN StartBatch(xd, "oldInfo")
       ELSE IF SplitCase(xd, xd.reqs[xd.failedReq], rp)
            THEN InitiateSplitStripeWrite(xd)
            ELSE CallRecover([xd EXCEPT !.recover = "FAIL"], rp)

InitiateStripeWrite(x) ==
    LET xp == AddReqs(ResetReqs(x), <<ParityReq("READ", 0, SPU, Zero)>>)
        xd == AddReqs(ResetReqs(xp), DataReqs(x, "WRITE", "client", x.first, x.nth, 0, SPU))
    IN IF xp.numFailed > 0
       THEN IF xd.numFailed = 0 THEN StartBatch(xd, "stripeIO")
                                ELSE InitiateStripeIOFailure(xd)
       ELSE IF x.nth - x.first < DSPS \div 2
            THEN InitiateReadModifyWrite([xp EXCEPT !.recover = "RCW"])
            ELSE InitiateReconstructWrite([xp EXCEPT !.recover = "RMW"])

\* Mutant: the failed write request is left FAILED, so its new data is not
\* XORed into the parity.
oldInfoReadDoneProcNoFix(x, nF, fR) ==
    IF nF = 0
    THEN LET pb0 == XorRange(Zero, x.reqs, x.rangeOff, x.rangeLen)
             xw == AddReqs(ResetReqs(x), DataReqs(x, "WRITE", "client", x.first, x.nth,
                                                  x.rangeOff, x.rangeLen))
             pb == XorRange(pb0, xw.reqs, x.rangeOff, x.rangeLen)
             xp == AddReqs(xw, <<ParityReq("WRITE", x.rangeOff, x.rangeLen, pb)>>)
         IN CASE xp.numFailed = 0 -> StartBatch(xp, "stripeWrite")
              [] xp.numFailed = 1 -> StartBatch(xp, "stripeIO")
              [] OTHER -> InitiateStripeIOFailure(xp)
    ELSE LET xf == [x EXCEPT !.failedReq = fR]
         IN IF SplitCase(xf, xf.reqs[fR], x.recover) THEN InitiateSplitStripeWrite(xf)
            ELSE CallRecover([xf EXCEPT !.recover = "FAIL"], x.recover)

\* Old data and parity are in: XOR out the old, XOR in the new, write data
\* and parity.  A data request for a failed column is marked completed so
\* that its data still goes into the parity.
oldInfoReadDoneProc(x, nF, fR) ==
    IF nF = 0
    THEN LET pb0 == XorRange(Zero, x.reqs, x.rangeOff, x.rangeLen)
             xw == AddReqs(ResetReqs(x), DataReqs(x, "WRITE", "client", x.first, x.nth,
                                                  x.rangeOff, x.rangeLen))
             xw2 == IF xw.numFailed > 0
                    THEN [xw EXCEPT !.reqs[xw.failedReq].state = "COMPLETED"]
                    ELSE xw
             pb == XorRange(pb0, xw2.reqs, x.rangeOff, x.rangeLen)
             xp == AddReqs(xw2, <<ParityReq("WRITE", x.rangeOff, x.rangeLen, pb)>>)
         IN CASE xp.numFailed = 0 -> StartBatch(xp, "stripeWrite")
              [] xp.numFailed = 1 -> StartBatch(xp, "stripeIO")
              [] OTHER -> InitiateStripeIOFailure(xp)
    ELSE LET xf == [x EXCEPT !.failedReq = fR]
         IN IF SplitCase(xf, xf.reqs[fR], x.recover) THEN InitiateSplitStripeWrite(xf)
            ELSE CallRecover([xf EXCEPT !.recover = "FAIL"], x.recover)

\* One of data and parity may fail: the other keeps the stripe recoverable.
stripeWriteDoneProc(x, nF) == Finish(x, IF nF <= 1 THEN 0 ELSE nF)

\* Mutant: the parity unit is not read, so the lost unit is rebuilt from
\* the other data units alone.
InitiateReconstructReadNoParity(x) ==
    LET fr == x.reqs[x.failedReq]
        x2 == AddReqs([x EXCEPT !.numFailed = 0],
                      DataReqs(x, "READ", "buf", 0, x.first, fr.off, fr.len)
                      \o DataReqs(x, "READ", "buf", x.nth, DSPS, fr.off, fr.len))
    IN IF x2.numFailed = 0 THEN StartBatch(x2, "reconRead")
                           ELSE InitiateStripeIOFailure(x2)

\* Only numFailed is reset: the client's requests stay on the list, those
\* still READY are issued with the new ones, and all go into the XOR.
InitiateReconstructRead(x) ==
    LET fr == x.reqs[x.failedReq]
        x2 == AddReqs([x EXCEPT !.numFailed = 0],
                      DataReqs(x, "READ", "buf", 0, x.first, fr.off, fr.len)
                      \o DataReqs(x, "READ", "buf", x.nth, DSPS, fr.off, fr.len)
                      \o <<ParityReq("READ", fr.off, fr.len, Zero)>>)
    IN IF x2.numFailed = 0 THEN StartBatch(x2, "reconRead")
                           ELSE InitiateStripeIOFailure(x2)

InitiateStripeRead(x) ==
    LET xd == AddReqs(ResetReqs(x), DataReqs(x, "READ", "client", x.first, x.nth, 0, SPU))
    IN CASE xd.numFailed = 0 -> StartBatch(xd, "stripeRead")
         [] xd.numFailed = 1 -> InitiateReconstructRead(xd)
         [] OTHER -> InitiateStripeIOFailure(xd)

stripeReadDoneProc(x, nF, fR) ==
    CASE nF = 1 -> InitiateReconstructRead([x EXCEPT !.failedReq = fR])
      [] OTHER -> Finish(x, nF)

reconstructStripeReadDoneProc(x, nF) ==
    IF nF = 0
    THEN LET fi == x.failedReq
             fr == x.reqs[fi]
         IN Finish([x EXCEPT !.reqs[fi].buf = XorRange(Zero, x.reqs, fr.off, fr.len)], 0)
    ELSE Finish(x, nF)

\* The doneProc that Raid_InitiateIORequests was given.
RunDoneProc(x, nF, fR) ==
    CASE x.batch.cb = "oldInfo" -> oldInfoReadDoneProc(x, nF, fR)
      [] x.batch.cb = "stripeWrite" -> stripeWriteDoneProc(x, nF)
      [] x.batch.cb = "stripeIO" -> Finish(x, nF)
      [] x.batch.cb = "stripeRead" -> stripeReadDoneProc(x, nF, fR)
      [] x.batch.cb = "reconRead" -> reconstructStripeReadDoneProc(x, nF)

-----------------------------------------------------------------------------
(* Completion of a stripe I/O and of a whole request.                      *)

\* The data the client's requests of a read hold agree with the history.
ReadMatches(x, s) ==
    \A j \in DOMAIN x.reqs :
        x.reqs[j].role = "client" =>
            \A k \in Offs : Covers(x.reqs[j], k) =>
                LET i == x.reqs[j].col * SPU + k
                IN mem[s][i] \in {Unknown, x.reqs[j].buf[k]}

\* Mutant: a later success overwrites an earlier failure.
SingleStripeIODoneOverwrite(r, st, amt) ==
    [r EXCEPT !.amount = @ + amt, !.status = st, !.numIO = @ - 1]

\* singleStripeIODoneProc and simpleStripeIODoneProc under the mutex: add the
\* amount, keep the first failure, count the component down.
SingleStripeIODone(r, st, amt) ==
    [r EXCEPT !.amount = @ + amt,
              !.status = IF @ = "SUCCESS" THEN st ELSE @,
              !.numIO = @ - 1]

\* The request's doneProc runs when its counter reaches 0; the client
\* waiting for it is woken.  pcv is where the client is after this step.
Complete(cl, r, pcv) ==
    LET fin == r.numIO = 0
    IN /\ io' = [io EXCEPT ![cl] = r]
       /\ ndone' = IF fin THEN [ndone EXCEPT ![cl] = @ + 1] ELSE ndone
       /\ last' = IF fin THEN [last EXCEPT ![cl] = [status |-> r.status, amount |-> r.amount,
                                                   want |-> r.nth - r.first]]
                         ELSE last
       /\ pc' = [pc EXCEPT ![cl] = IF fin /\ pcv = "wait" THEN "idle" ELSE pcv]

\* stripeIODoneProc: unlock the stripe and report to singleStripeIODoneProc.
StripeIODone(cl, s, x, r, lk, pcv) ==
    LET ok == x.result = 0
        w == x.op = "WRITE"
    IN /\ lock' = IF w THEN [lk EXCEPT ![s].x = FALSE] ELSE [lk EXCEPT ![s].sh = @ - 1]
       /\ sio' = [sio EXCEPT ![cl][s] = NoSio]
       /\ mem' = IF w THEN [mem EXCEPT ![s] = [i \in DataSecs |->
                              IF x.first <= i /\ i < x.nth
                              THEN IF ok THEN x.pat[i % SPU] ELSE Unknown
                              ELSE @[i]]]
                      ELSE mem
       /\ staleRead' = (staleRead \/ (~w /\ ok /\ ~ReadMatches(x, s)))
       /\ Complete(cl, SingleStripeIODone(r, IF ok THEN "SUCCESS" ELSE "FAILURE",
                                         IF ok THEN x.nth - x.first ELSE 0), pcv)

\* The end of a procedure chain run by the client (byClient) or by a kernel
\* process: a new batch to issue, or the end of the stripe I/O.
Settle(cl, s, x, byClient, r, lk, pcv) ==
    IF x.phase = "finish"
    THEN StripeIODone(cl, s, x, r, lk, pcv)
    ELSE /\ sio' = [sio EXCEPT ![cl][s] = [x EXCEPT !.batch.byClient = byClient]]
         /\ io' = [io EXCEPT ![cl] = r]
         /\ lock' = lk
         /\ pc' = [pc EXCEPT ![cl] = pcv]
         /\ UNCHANGED <<mem, staleRead, ndone, last>>

-----------------------------------------------------------------------------
(* Actions.                                                                *)

\* Raid_InitiateIORequests or a chain run by the client has not returned.
ClientBusy(cl) ==
    \E s \in Stripes : sio[cl][s].phase = "batch" /\ sio[cl][s].batch.issuing
                       /\ sio[cl][s].batch.byClient

\* Mutant: the counter of the whole request starts at 0.
StartStripeIONoBias(cl, op, sh, pat) ==
    /\ pc[cl] = "idle"
    /\ io' = [io EXCEPT ![cl] = [NoIO EXCEPT !.kind = "stripe", !.op = op, !.first = sh[1],
                                  !.nth = sh[2], !.pat = pat, !.cur = sh[1], !.numIO = 0]]
    /\ pc' = [pc EXCEPT ![cl] = "loop"]
    /\ nreq' = [nreq EXCEPT ![cl] = @ + 1]
    /\ UNCHANGED <<disk, failed, lock, sio, queued, faults, mem, staleRead, ndone, last>>

\* Raid_InitiateStripeIOs: Raid_BeginUse, the IOControl with numIO = 1.
StartStripeIO(cl, op, sh, pat) ==
    /\ pc[cl] = "idle"
    /\ io' = [io EXCEPT ![cl] = [NoIO EXCEPT !.kind = "stripe", !.op = op, !.first = sh[1],
                                  !.nth = sh[2], !.pat = pat, !.cur = sh[1], !.numIO = 1]]
    /\ pc' = [pc EXCEPT ![cl] = "loop"]
    /\ nreq' = [nreq EXCEPT ![cl] = @ + 1]
    /\ UNCHANGED <<disk, failed, lock, sio, queued, faults, mem, staleRead, ndone, last>>

\* Mutant: the loop does not count the stripe I/O it starts.
StripeLoopNoCount(cl) ==
    LET r == io[cl]
        s == r.cur \div DSPS
        n == Min({DSPS - (r.cur % DSPS), r.nth - r.cur})
    IN /\ pc[cl] = "loop" /\ r.kind = "stripe" /\ r.cur < r.nth /\ ~ClientBusy(cl)
       /\ sio' = [sio EXCEPT ![cl][s] = [NoSio EXCEPT !.phase = "lock", !.op = r.op,
                    !.first = r.cur % DSPS, !.nth = (r.cur % DSPS) + n, !.pat = r.pat]]
       /\ pc' = [pc EXCEPT ![cl] = "lock"]
       /\ UNCHANGED <<disk, failed, lock, io, queued, faults, mem, staleRead, nreq, ndone, last>>

\* One turn of the loop of Raid_InitiateStripeIOs: count the stripe I/O and
\* make its RaidStripeIOControl (Raid_MakeStripeIOControl).
StripeLoop(cl) ==
    LET r == io[cl]
        s == r.cur \div DSPS
        n == Min({DSPS - (r.cur % DSPS), r.nth - r.cur})
    IN /\ pc[cl] = "loop" /\ r.kind = "stripe" /\ r.cur < r.nth /\ ~ClientBusy(cl)
       /\ sio' = [sio EXCEPT ![cl][s] = [NoSio EXCEPT !.phase = "lock", !.op = r.op,
                    !.first = r.cur % DSPS, !.nth = (r.cur % DSPS) + n, !.pat = r.pat]]
       /\ io' = [io EXCEPT ![cl].numIO = @ + 1]
       /\ pc' = [pc EXCEPT ![cl] = "lock"]
       /\ UNCHANGED <<disk, failed, lock, queued, faults, mem, staleRead, nreq, ndone, last>>

\* InitiateSingleStripeIO: take the stripe lock (waiting while it is held)
\* and start InitiateStripeRead or InitiateStripeWrite.
LockStripe(cl) ==
    LET r == io[cl]
        s == r.cur \div DSPS
        x == sio[cl][s]
        w == x.op = "WRITE"
        lk == IF w THEN [lock EXCEPT ![s].x = TRUE] ELSE [lock EXCEPT ![s].sh = @ + 1]
    IN /\ pc[cl] = "lock"
       /\ ~lock[s].x /\ (w => lock[s].sh = 0)
       /\ Settle(cl, s, IF w THEN InitiateStripeWrite(x) ELSE InitiateStripeRead(x), TRUE,
                 [r EXCEPT !.cur = @ + (x.nth - x.first)], lk, "loop")
       /\ UNCHANGED <<disk, failed, queued, faults, nreq>>

\* After the loop: count down; the doneProc runs here if all stripes are done.
StripeLoopEnd(cl) ==
    /\ pc[cl] = "loop" /\ io[cl].kind = "stripe" /\ io[cl].cur >= io[cl].nth
    /\ ~ClientBusy(cl)
    /\ Complete(cl, [io[cl] EXCEPT !.numIO = @ - 1], "wait")
    /\ UNCHANGED <<disk, failed, lock, sio, queued, faults, mem, staleRead, nreq>>

\* One turn of the loop of Raid_InitiateIORequests: a READY request is
\* counted, marked PENDING and given to Dev_BlockDeviceIO.
IssueStep(cl, s) ==
    LET x == sio[cl][s]
        j == x.batch.next
    IN /\ x.phase = "batch" /\ x.batch.issuing /\ j <= Len(x.reqs)
       /\ sio' = [sio EXCEPT ![cl][s] =
                    IF x.reqs[j].state = "READY"
                    THEN [x EXCEPT !.reqs[j].state = "PENDING", !.batch.numIO = @ + 1,
                                   !.batch.next = @ + 1]
                    ELSE [x EXCEPT !.batch.next = @ + 1]]
       /\ UNCHANGED <<disk, failed, lock, io, queued, pc, faults, mem, staleRead, nreq, ndone, last>>

\* Mutant: when the count reaches 0 at the end of the loop the doneProc is
\* not called.
BatchEndNoCall(cl, s) ==
    LET x == sio[cl][s]
    IN /\ x.phase = "batch" /\ x.batch.issuing /\ x.batch.next > Len(x.reqs)
       /\ sio' = [sio EXCEPT ![cl][s] = [x EXCEPT !.batch.numIO = @ - 1, !.batch.issuing = FALSE]]
       /\ UNCHANGED <<disk, failed, lock, io, queued, pc, faults, mem, staleRead, nreq, ndone, last>>

\* The end of Raid_InitiateIORequests: count down; if every request has
\* already completed, the doneProc runs here, in the issuing process.
BatchEnd(cl, s) ==
    LET x == sio[cl][s]
        b == x.batch
        y == [x EXCEPT !.batch.numIO = @ - 1, !.batch.issuing = FALSE]
    IN /\ x.phase = "batch" /\ b.issuing /\ b.next > Len(x.reqs)
       /\ IF b.numIO = 1
          THEN Settle(cl, s, RunDoneProc(y, b.nFailed, b.fReq), b.byClient, io[cl], lock, pc[cl])
          ELSE /\ sio' = [sio EXCEPT ![cl][s] = y]
               /\ UNCHANGED <<lock, io, pc, mem, staleRead, ndone, last>>
       /\ UNCHANGED <<disk, failed, queued, faults, nreq>>

\* blockIODoneProc at interrupt level: the request completes or fails; a
\* failed write fails its disk (Raid_FailDisk); the last completion queues
\* nonInterruptLevelCallBackProc.
DiskDone(cl, s, j, ok) ==
    LET x == sio[cl][s]
        r == x.reqs[j]
        rd == [k \in Offs |-> IF Covers(r, k) THEN disk[r.col][s][k] ELSE r.buf[k]]
        r2 == [r EXCEPT !.state = IF ok THEN "COMPLETED" ELSE "FAILED",
                        !.buf = IF ok /\ r.op = "READ" THEN rd ELSE @]
        b2 == [x.batch EXCEPT !.numIO = @ - 1,
                              !.nFailed = IF ok THEN @ ELSE @ + 1,
                              !.fReq = IF ok THEN @ ELSE j]
    IN /\ x.phase = "batch" /\ j \in DOMAIN x.reqs /\ r.state = "PENDING"
       /\ ok \/ faults < MaxFaults
       /\ sio' = [sio EXCEPT ![cl][s] = [x EXCEPT !.reqs[j] = r2, !.batch = b2]]
       /\ disk' = IF ok /\ r.op = "WRITE"
                  THEN [disk EXCEPT ![r.col][s] = [k \in Offs |-> IF Covers(r, k) THEN r.buf[k] ELSE @[k]]]
                  ELSE disk
       /\ failed' = IF ~ok /\ r.op = "WRITE" THEN failed \cup {r.col} ELSE failed
       /\ faults' = IF ok THEN faults ELSE faults + 1
       /\ queued' = IF b2.numIO = 0 THEN queued \cup {<<cl, s>>} ELSE queued
       /\ UNCHANGED <<lock, io, pc, mem, staleRead, nreq, ndone, last>>

\* nonInterruptLevelCallBackProc in a kernel process: the doneProc.
CallBack(cl, s) ==
    LET x == sio[cl][s]
    IN /\ <<cl, s>> \in queued
       /\ queued' = queued \ {<<cl, s>>}
       /\ Settle(cl, s, RunDoneProc(x, x.batch.nFailed, x.batch.fReq), FALSE, io[cl], lock, pc[cl])
       /\ UNCHANGED <<disk, failed, faults, nreq>>

-----------------------------------------------------------------------------
(* Raid_InitiateSimpleStripeIOs: an array without parity.                  *)

StartSimpleIO(cl, op, sh) ==
    /\ pc[cl] = "idle"
    /\ io' = [io EXCEPT ![cl] = [NoIO EXCEPT !.kind = "simple", !.op = op, !.first = sh[1],
                                  !.nth = sh[2], !.cur = sh[1], !.numIO = 1]]
    /\ pc' = [pc EXCEPT ![cl] = "loop"]
    /\ nreq' = [nreq EXCEPT ![cl] = @ + 1]
    /\ UNCHANGED <<disk, failed, lock, sio, queued, faults, mem, staleRead, ndone, last>>

\* One stripe unit (or less) per turn, counted and issued.
SimpleLoop(cl) ==
    LET r == io[cl]
        n == Min({SPU - (r.cur % SPU), r.nth - r.cur})
    IN /\ pc[cl] = "loop" /\ r.kind = "simple" /\ r.cur < r.nth
       /\ io' = [io EXCEPT ![cl] = [r EXCEPT !.numIO = @ + 1, !.out = @ \cup {<<r.cur, r.cur + n>>},
                                          !.cur = @ + n]]
       /\ UNCHANGED <<disk, failed, lock, sio, queued, pc, faults, mem, staleRead, nreq, ndone, last>>

SimpleLoopEnd(cl) ==
    /\ pc[cl] = "loop" /\ io[cl].kind = "simple" /\ io[cl].cur >= io[cl].nth
    /\ Complete(cl, [io[cl] EXCEPT !.numIO = @ - 1], "wait")
    /\ UNCHANGED <<disk, failed, lock, sio, queued, faults, mem, staleRead, nreq>>

\* simpleStripeIODoneProc at interrupt level; the doneProc runs there too.
SimpleDone(cl, c, ok) ==
    /\ io[cl].kind = "simple" /\ c \in io[cl].out
    /\ ok \/ faults < MaxFaults
    /\ faults' = IF ok THEN faults ELSE faults + 1
    /\ Complete(cl, [SingleStripeIODone(io[cl], IF ok THEN "SUCCESS" ELSE "FAILURE",
                                        IF ok THEN c[2] - c[1] ELSE 0)
                     EXCEPT !.out = @ \ {c}], pc[cl])
    /\ UNCHANGED <<disk, failed, lock, sio, queued, mem, staleRead, nreq>>

-----------------------------------------------------------------------------

\* Every step the kernel takes for client cl's request once it is issued:
\* the issuing loops, the device's completions and the queued calls.
SystemStep(cl) ==
    \/ StripeLoop(cl) \/ LockStripe(cl) \/ StripeLoopEnd(cl)
    \/ SimpleLoop(cl) \/ SimpleLoopEnd(cl)
    \/ \E c \in io[cl].out, ok \in BOOLEAN : SimpleDone(cl, c, ok)
    \/ \E s \in Stripes :
          \/ IssueStep(cl, s) \/ BatchEnd(cl, s) \/ CallBack(cl, s)
          \/ \E j \in DOMAIN sio[cl][s].reqs, ok \in BOOLEAN : DiskDone(cl, s, j, ok)

\* The guards of the actions of SystemStep(cl).  Each action's effect is a
\* total function of the state that changes it, so this is ENABLED
\* <<SystemStep(cl)>>_vars written out without evaluating the procedure
\* chains (TLC's ENABLED re-evaluates their LET definitions at every use).
CanStep(cl) ==
    LET r == io[cl]
        s == r.cur \div DSPS
    IN \/ pc[cl] = "loop" /\ r.kind = "stripe" /\ ~ClientBusy(cl)
       \/ pc[cl] = "lock" /\ ~lock[s].x /\ (sio[cl][s].op = "WRITE" => lock[s].sh = 0)
       \/ pc[cl] = "loop" /\ r.kind = "simple"
       \/ r.kind = "simple" /\ r.out # {}
       \/ \E t \in Stripes :
             \/ sio[cl][t].phase = "batch" /\ sio[cl][t].batch.issuing
             \/ sio[cl][t].phase = "batch"
                /\ \E j \in DOMAIN sio[cl][t].reqs : sio[cl][t].reqs[j].state = "PENDING"
             \/ <<cl, t>> \in queued

\* The device completes every request it was given (ok or not), kernel
\* processes run queued calls and the issuing process is scheduled: while
\* any of these steps for cl's request can be taken, one is.  This is
\* WF_vars(SystemStep(cl)) by its definition, with CanStep(cl) for ENABLED.
Fairness ==
    \A cl \in Clients : []<>~CanStep(cl) \/ []<><<SystemStep(cl)>>_vars

\* A degraded array (one column already failed) is a state the driver runs in.
Init ==
    /\ disk = [c \in Cols |-> [s \in Stripes |-> Zero]]
    /\ failed \in {{}} \cup {{c} : c \in Cols}
    /\ lock = [s \in Stripes |-> [x |-> FALSE, sh |-> 0]]
    /\ io = [cl \in Clients |-> NoIO]
    /\ sio = [cl \in Clients |-> [s \in Stripes |-> NoSio]]
    /\ queued = {}
    /\ pc = [cl \in Clients |-> "idle"]
    /\ faults = 0
    /\ mem = [s \in Stripes |-> [i \in DataSecs |-> 0]]
    /\ staleRead = FALSE
    /\ nreq = [cl \in Clients |-> 0]
    /\ ndone = [cl \in Clients |-> 0]
    /\ last = [cl \in Clients |-> [status |-> "SUCCESS", amount |-> 0, want |-> 0]]

Next ==
    \/ \E cl \in Clients, sh \in Shapes :
          \/ StartStripeIO(cl, "READ", sh, ReadPat)
          \/ \E pat \in Patterns : StartStripeIO(cl, "WRITE", sh, pat)
          \/ \E op \in {"READ", "WRITE"} : StartSimpleIO(cl, op, sh)
    \/ \E cl \in Clients : SystemStep(cl)

Spec == Init /\ [][Next]_vars /\ Fairness

-----------------------------------------------------------------------------
(* Properties.                                                             *)

TypeOK ==
    /\ disk \in [Cols -> [Stripes -> [Offs -> Bit]]]
    /\ failed \subseteq Cols
    /\ lock \in [Stripes -> [x : BOOLEAN, sh : Nat]]
    /\ \A cl \in Clients :
          /\ io[cl].numIO \in Nat /\ io[cl].status \in {"SUCCESS", "FAILURE"}
          /\ pc[cl] \in {"idle", "loop", "lock", "wait"}
          /\ \A s \in Stripes : sio[cl][s].phase \in {"none", "lock", "batch"}
                                /\ sio[cl][s].batch.numIO \in Nat
                                /\ \A j \in DOMAIN sio[cl][s].reqs : sio[cl][s].reqs[j] \in Req
    /\ queued \subseteq Clients \X Stripes
    /\ faults \in 0..MaxFaults

\* A stripe I/O's next procedure is queued (blockIODoneProc) only once the
\* issuing loop of Raid_InitiateIORequests has ended and no component
\* request is outstanding: the initial numIO++ keeps an interrupt between
\* two issues from calling it early.
CallbackAfterAllDone ==
    \A q \in queued :
        LET x == sio[q[1]][q[2]]
        IN /\ x.phase = "batch" /\ ~x.batch.issuing /\ x.batch.numIO = 0
           /\ \A j \in DOMAIN x.reqs : x.reqs[j].state # "PENDING"

\* Every request gets its doneProc exactly once, and only after its last
\* stripe I/O or stripe unit has finished (Raid_InitiateStripeIOs,
\* singleStripeIODoneProc, simpleStripeIODoneProc).
DoneExactlyOnce ==
    \A cl \in Clients :
        /\ ndone[cl] = nreq[cl] - (IF pc[cl] = "idle" THEN 0 ELSE 1)
        /\ pc[cl] = "idle" => /\ \A s \in Stripes : sio[cl][s].phase = "none"
                              /\ io[cl].out = {}

\* The content of data sector i of stripe s as the array delivers it: from
\* its disk, or from the parity and the other units if its disk failed.
Logical(s, i) ==
    LET u == i \div SPU
        k == i % SPU
    IN IF u \notin failed THEN disk[u][s][k]
       ELSE (disk[Parity][s][k]
             + Quantify(DataCols \ {u}, LAMBDA v : disk[v][s][k] = 1)) % 2

\* No stripe that is not being written has lost what was last written to
\* it, as long as at most one disk has failed: data and parity stay
\* consistent through read-modify-write, reconstruct write, their
\* recovery procedures and a failure of either write.
ParityRecoverable ==
    \A s \in Stripes :
        ~lock[s].x /\ Cardinality(failed) <= 1 =>
            \A i \in DataSecs : mem[s][i] # Unknown => Logical(s, i) = mem[s][i]

\* A read that reports success returns what was last written, also when a
\* unit is rebuilt by InitiateReconstructRead.
ReadsReturnLastWrite == ~staleRead

\* A request reported successful transferred every sector it asked for:
\* the first failure of a stripe I/O or unit is never overwritten.
CompletionReport ==
    \A cl \in Clients : last[cl].status = "SUCCESS" => last[cl].amount = last[cl].want

\* Every request issued eventually gets its doneProc.
EveryRequestCompletes == \A cl \in Clients : pc[cl] # "idle" ~> pc[cl] = "idle"

====
