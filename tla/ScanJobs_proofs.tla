--------------------------- MODULE ScanJobs_proofs ---------------------------
(***************************************************************************)
(* Proofs about ScanJobs: first its jobs, leases and workers, then what    *)
(* scans do to the local copy of the Saved Messages.                       *)
(***************************************************************************)
EXTENDS ScanJobs, TLAPS, FiniteSetTheorems

\* A worker that is not idle works on a job of the table.  The page in its
\* hands fits what is left of the quota and lies below the offset it was
\* fetched from.
WorkerOK(r) ==
    /\ r \in WorkerType
    /\ r.pc # "idle" => r.job \in Jobs
    /\ r.pc = "page" => /\ IsFiniteSet(r.page)
                        /\ Cardinality(r.page) <= r.left
                        /\ r.next \in Ids
                        /\ r.off # 0 => r.next < r.off

WorkersOK == \A w \in Workers : WorkerOK(worker[w])

TypeInv == TypeOK /\ WorkersOK

USE NoJobAssumption, NoWorkerAssumption, BoundsAssumption, DelayAssumption

-----------------------------------------------------------------------------
(* The local state of a worker.                                             *)

LEMMA IdleOK == WorkerOK(IdleWorker)
BY DEF IdleWorker, WorkerOK, WorkerType, Working, Beating, Outcomes, Ids

LEMMA BecomeOK ==
  ASSUME TypeInv, NEW w \in Workers, NEW r, WorkerOK(r), Become(w, r)
  PROVE  worker' \in [Workers -> WorkerType] /\ WorkersOK'
BY DEF TypeInv, TypeOK, WorkersOK, WorkerOK, Become

LEMMA IdlesOK ==
  ASSUME TypeInv, NEW w \in Workers, Idle(w)
  PROVE  worker' \in [Workers -> WorkerType] /\ WorkersOK'
BY IdleOK, BecomeOK DEF Idle

LEMMA LeaveOK ==
  ASSUME TypeInv, NEW w \in Workers, worker[w].pc # "idle",
         NEW pc \in Working \ {"page"}, NEW out \in Outcomes, Leave(w, pc, out)
  PROVE  worker' \in [Workers -> WorkerType] /\ WorkersOK'
<1> DEFINE r == [IdleWorker EXCEPT !.pc = pc, !.job = worker[w].job,
                                   !.out = out, !.late = worker[w].late]
<1>1. worker[w] \in WorkerType /\ worker[w].job \in Jobs
  BY DEF TypeInv, TypeOK, WorkersOK, WorkerOK
<1>2. WorkerOK(r)
  BY <1>1, IdleOK DEF WorkerOK, WorkerType, IdleWorker
<1> QED
  BY <1>2, BecomeOK DEF Leave

LEMMA RaiseOK ==
  ASSUME TypeInv, NEW w \in Workers, worker[w].pc # "idle", Raise(w)
  PROVE  worker' \in [Workers -> WorkerType] /\ WorkersOK'
<1> DEFINE r == [IdleWorker EXCEPT !.pc = "fail", !.job = worker[w].job]
<1>1. worker[w].job \in Jobs
  BY DEF TypeInv, TypeOK, WorkersOK, WorkerOK
<1>2. WorkerOK(r)
  BY <1>1, IdleOK DEF WorkerOK, WorkerType, IdleWorker, Working
<1> QED
  BY <1>2, BecomeOK DEF Raise

LEMMA GotoOK ==
  ASSUME TypeInv, NEW w \in Workers, worker[w].pc # "idle",
         NEW pc \in Working \ {"page"}, Goto(w, pc)
  PROVE  worker' \in [Workers -> WorkerType] /\ WorkersOK'
<1> DEFINE r == [worker[w] EXCEPT !.pc = pc]
<1>1. worker[w] \in WorkerType /\ worker[w].job \in Jobs
  BY DEF TypeInv, TypeOK, WorkersOK, WorkerOK
<1>2. WorkerOK(r)
  BY <1>1 DEF WorkerOK, WorkerType
<1> QED
  BY <1>2, BecomeOK DEF Goto

\* A transaction of two statements: the rows its first one locked.
LEMMA LocksOK ==
  ASSUME TypeInv, NEW w \in Workers, NEW j \in Jobs, NEW rows \in SUBSET Ids,
         NEW late \in BOOLEAN, NEW pc \in {"requeue", "release"},
         Become(w, [IdleWorker EXCEPT !.pc = pc, !.job = j, !.rows = rows, !.late = late])
  PROVE  worker' \in [Workers -> WorkerType] /\ WorkersOK'
<1> DEFINE r == [IdleWorker EXCEPT !.pc = pc, !.job = j, !.rows = rows, !.late = late]
<1>1. WorkerOK(r)
  BY IdleOK DEF WorkerOK, WorkerType, IdleWorker, Working
<1> QED
  BY <1>1, BecomeOK
-----------------------------------------------------------------------------
(* The rows of scan_jobs and of messages.                                   *)

LEMMA EndedTyped ==
  ASSUME TypeInv, NEW j \in Jobs, NEW s \in TerminalStates
  PROVE  /\ Ended(j, s) \in JobType
         /\ [Ended(j, s) EXCEPT !.stop = TRUE] \in JobType
<1>1. job[j] \in JobType
  BY DEF TypeInv, TypeOK
<1> QED
  BY <1>1 DEF Ended, JobType

LEMMA AdvancedTyped ==
  ASSUME NEW x \in JobType, NEW c \in Ids, NEW n \in Nat
  PROVE  [x EXCEPT !.cursor = c, !.scanned = @ + n] \in JobType
<1>1. ASSUME NEW k \in Nat
      PROVE  [x EXCEPT !.cursor = c, !.scanned = k] \in JobType
  BY DEF JobType
<1>2. x.scanned + n \in Nat
  BY DEF JobType
<1> QED
  BY <1>1, <1>2

LEMMA NextPageTyped ==
  ASSUME NEW x \in WorkerType, NEW c \in Ids, NEW n \in Nat
  PROVE  [x EXCEPT !.pc = "loop", !.page = {}, !.next = 0, !.more = FALSE,
                   !.off = c, !.left = n, !.pages = @ + 1] \in WorkerType
<1>1. ASSUME NEW k \in Nat
      PROVE  [x EXCEPT !.pc = "loop", !.page = {}, !.next = 0, !.more = FALSE,
                       !.off = c, !.left = n, !.pages = k] \in WorkerType
  BY DEF WorkerType, Working, Beating
<1>2. x.pages + 1 \in Nat
  BY DEF WorkerType
<1> QED
  BY <1>1, <1>2

LEMMA UnmarkTyped ==
  ASSUME TypeInv, NEW ids
  PROVE  Unmark(ids) \in [Ids -> {Absent, Unmarked} \union Jobs]
BY DEF TypeInv, TypeOK, Unmark

LEMMA CancelScansTyped ==
  ASSUME TypeInv, NEW S, CancelScans(S)
  PROVE  /\ job' \in [Jobs -> JobType]
         /\ row' \in [Ids -> {Absent, Unmarked} \union Jobs]
<1>1. \A j \in Jobs : job[j] \in JobType /\ [Ended(j, "cancelled") EXCEPT !.stop = TRUE] \in JobType
  BY EndedTyped DEF TypeInv, TypeOK, TerminalStates
<1>2. job' \in [Jobs -> JobType]
  BY <1>1 DEF CancelScans
<1> QED
  BY <1>2, UnmarkTyped DEF CancelScans, ClearMarkers

LEMMA InitTyped == Init => TypeInv
<1> SUFFICES ASSUME Init PROVE TypeInv
  OBVIOUS
<1>1. job \in [Jobs -> JobType]
  BY DEF Init, NewJob, JobType, ActiveStates, TerminalStates
<1>2. worker \in [Workers -> WorkerType] /\ WorkersOK
  BY IdleOK DEF Init, WorkersOK, WorkerOK
<1>3. TypeOK
  BY <1>1, <1>2 DEF Init, TypeOK, Ids
<1> QED
  BY <1>2, <1>3 DEF TypeInv
-----------------------------------------------------------------------------
(* Every action of the user keeps the types.                                *)

LEMMA UserTyped ==
  ASSUME TypeInv, UserStep
  PROVE  TypeInv'
<1> USE DEF TypeInv
<1> SUFFICES TypeOK' /\ WorkersOK'
  OBVIOUS
<1>w. ASSUME worker' = worker
      PROVE  worker' \in [Workers -> WorkerType] /\ WorkersOK'
  BY <1>w DEF TypeOK, WorkersOK
<1>1. ASSUME NEW j \in Jobs, NEW replace \in BOOLEAN, StartCreate(j, replace)
      PROVE  TypeOK' /\ WorkersOK'
  <2>1. [NewJob EXCEPT !.state = "pending", !.replace = replace, !.gen = conn.gen] \in JobType
    BY DEF NewJob, JobType, ActiveStates, TypeOK
  <2>2. job' \in [Jobs -> JobType]
    BY <1>1, <2>1 DEF StartCreate, TypeOK
  <2>3. row' \in [Ids -> {Absent, Unmarked} \union Jobs]
    BY <1>1, UnmarkTyped DEF StartCreate, MarkersAtStart, ClearMarkers, TypeOK
  <2> QED
    BY <1>1, <1>w, <2>2, <2>3 DEF StartCreate, TypeOK
<1>2. ASSUME NEW j \in Jobs, StartReadsExpiredStop(j)
      PROVE  TypeOK' /\ WorkersOK'
  BY <1>2, <1>w DEF StartReadsExpiredStop, TypeOK, telegram
<1>3. ASSUME NEW j \in Jobs, Stop(j)
      PROVE  TypeOK' /\ WorkersOK'
  <2>1. job' \in [Jobs -> JobType]
    <3>1. CASE job[j].state = "pending" \/ ~job[j].live
      BY <1>3, <3>1, EndedTyped DEF Stop, TypeOK, TerminalStates
    <3>2. CASE ~(job[j].state = "pending" \/ ~job[j].live)
      <4> DEFINE r == [job[j] EXCEPT !.state = "stopping", !.stop = TRUE]
      <4>1. job[j] \in JobType
        BY DEF TypeOK
      <4>2. r \in JobType
        BY <4>1 DEF JobType, ActiveStates
      <4>3. job' = [job EXCEPT ![j] = r]
        BY <1>3, <3>2, <4>1 DEF Stop, TypeOK, JobType
      <4> QED
        BY <4>2, <4>3 DEF TypeOK
    <3> QED
      BY <3>1, <3>2
  <2>2. row' \in [Ids -> {Absent, Unmarked} \union Jobs]
    BY <1>3, UnmarkTyped DEF Stop, ClearMarkers, TypeOK
  <2> QED
    BY <1>3, <1>w, <2>1, <2>2 DEF Stop, TypeOK, telegram
<1>4. ASSUME StartInvalidatesConnection
      PROVE  TypeOK' /\ WorkersOK'
  BY <1>4, <1>w DEF StartInvalidatesConnection, TypeOK, telegram
<1>5. ASSUME StartOverwritesExpiredStop
      PROVE  TypeOK' /\ WorkersOK'
  <2>1. job' \in [Jobs -> JobType]
    BY <1>5, EndedTyped DEF StartOverwritesExpiredStop, TypeOK, TerminalStates
  <2>2. row' \in [Ids -> {Absent, Unmarked} \union Jobs]
    BY <1>5, UnmarkTyped DEF StartOverwritesExpiredStop, ClearMarkers, TypeOK
  <2> QED
    BY <1>5, <1>w, <2>1, <2>2 DEF StartOverwritesExpiredStop, TypeOK, telegram
<1>6. ASSUME Disconnect
      PROVE  TypeOK' /\ WorkersOK'
  BY <1>6, <1>w, CancelScansTyped DEF Disconnect, TypeOK, telegram
<1>7. ASSUME RequestCode
      PROVE  TypeOK' /\ WorkersOK'
  BY <1>7, <1>w, CancelScansTyped DEF RequestCode, TypeOK, telegram
<1>8. ASSUME Verify
      PROVE  TypeOK' /\ WorkersOK'
  BY <1>8, <1>w DEF Verify, TypeOK, telegram
<1> QED
  BY <1>1, <1>2, <1>3, <1>4, <1>5, <1>6, <1>7, <1>8 DEF UserStep
-----------------------------------------------------------------------------
(* Every action of a worker keeps the types.                                *)

LEMMA WorkerTyped ==
  ASSUME TypeInv, NEW w \in Workers, WorkerStep(w)
  PROVE  TypeInv'
<1> USE DEF TypeInv
<1> DEFINE J == worker[w].job
<1> SUFFICES TypeOK' /\ WorkersOK'
  OBVIOUS
<1>w. ASSUME worker' = worker
      PROVE  worker' \in [Workers -> WorkerType] /\ WorkersOK'
  BY <1>w DEF TypeOK, WorkersOK
<1>j. ASSUME worker[w].pc # "idle"
      PROVE  J \in Jobs /\ job[J] \in JobType /\ worker[w] \in WorkerType
  BY <1>j DEF TypeOK, WorkersOK, WorkerOK
<1>b. \A pc \in Working \union {"sweep"} : pc # "idle"
  BY DEF Working, Beating
<1>1. ASSUME SweepMarkers(w) PROVE TypeOK' /\ WorkersOK'
  <2>1. PICK j \in Jobs : Become(w, [IdleWorker EXCEPT !.pc = "sweep", !.job = j,
                                                       !.rows = Marked({j})])
    BY <1>1 DEF SweepMarkers
  <2>2. WorkerOK([IdleWorker EXCEPT !.pc = "sweep", !.job = j, !.rows = Marked({j})])
    BY IdleOK DEF WorkerOK, WorkerType, IdleWorker, Marked
  <2>3. worker' \in [Workers -> WorkerType] /\ WorkersOK'
    BY <2>1, <2>2, BecomeOK
  <2> QED
    BY <1>1, <2>3 DEF SweepMarkers, TypeOK, telegram
<1>2. ASSUME SweepJobs(w) PROVE TypeOK' /\ WorkersOK'
  <2>1. job' \in [Jobs -> JobType]
    BY <1>2, EndedTyped DEF SweepJobs, Mine, TypeOK, TerminalStates
  <2> QED
    BY <1>2, <2>1, UnmarkTyped, IdlesOK DEF SweepJobs, TypeOK, telegram
<1>3. ASSUME NEW j \in Jobs, Claim(w, j) PROVE TypeOK' /\ WorkersOK'
  <2> DEFINE r == [job[j] EXCEPT !.state = "running", !.owner = w, !.live = TRUE,
                                 !.clock = IF @ = "unset" THEN "ticking" ELSE @]
             left == IF job[j].scanned < MaxMessages THEN MaxMessages - job[j].scanned ELSE 0
             v == [IdleWorker EXCEPT !.pc = "claimed", !.job = j,
                                     !.off = ResumeOffset(j), !.left = left]
  <2>1. job[j] \in JobType
    BY DEF TypeOK
  <2>2. r \in JobType
    BY <2>1 DEF JobType, ActiveStates
  <2>3. job' = [job EXCEPT ![j] = r]
    BY <1>3, <2>1 DEF Claim, TypeOK, JobType
  <2>4. left \in Nat /\ ResumeOffset(j) \in Ids \union {0}
    BY <2>1 DEF JobType, ResumeOffset
  <2>5. WorkerOK(v)
    BY <2>4, IdleOK DEF WorkerOK, WorkerType, IdleWorker, Working, Beating
  <2>6. worker' \in [Workers -> WorkerType] /\ WorkersOK'
    BY <1>3, <2>5, BecomeOK DEF Claim
  <2> QED
    BY <1>3, <2>2, <2>3, <2>6 DEF Claim, TypeOK, telegram
<1>4. ASSUME NEW j \in Jobs, ClaimCancels(w, j) PROVE TypeOK' /\ WorkersOK'
  <2>1. job' \in [Jobs -> JobType]
    BY <1>4, EndedTyped DEF ClaimCancels, TypeOK, TerminalStates
  <2> QED
    BY <1>4, <1>w, <2>1, UnmarkTyped DEF ClaimCancels, ClearMarkers, TypeOK, telegram
<1>5. ASSUME Renew(w) PROVE TypeOK' /\ WorkersOK'
  <2> DEFINE r == [job[J] EXCEPT !.live = TRUE]
             v == [worker[w] EXCEPT !.late = FALSE]
  <2>1. J \in Jobs /\ job[J] \in JobType /\ worker[w] \in WorkerType
    BY <1>5, <1>j DEF Renew, Beating
  <2>2. r \in JobType /\ v \in WorkerType
    BY <2>1 DEF JobType, WorkerType
  <2>3. job' = [job EXCEPT ![J] = r]
    BY <1>5, <2>1 DEF Renew, Mine, TypeOK, JobType
  <2>4. WorkerOK(v)
    BY <2>1, <2>2 DEF WorkersOK, WorkerOK, WorkerType
  <2>5. worker' \in [Workers -> WorkerType] /\ WorkersOK'
    BY <1>5, <2>4, BecomeOK DEF Renew
  <2> QED
    BY <1>5, <2>2, <2>3, <2>5 DEF Renew, TypeOK, telegram
<1>6. ASSUME LoseLease(w) \/ ConnectionLost(w) PROVE TypeOK' /\ WorkersOK'
  BY <1>6, IdlesOK DEF LoseLease, ConnectionLost, TypeOK, telegram
<1>7. ASSUME Fail(w) \/ DispositionFails(w) PROVE TypeOK' /\ WorkersOK'
  BY <1>7, RaiseOK DEF Fail, DispositionFails, Beating, TypeOK, telegram
<1>8. ASSUME SliceTimeout(w) \/ QuotaGone(w) \/ StopsHere(w) \/ SaveSession(w)
      PROVE  TypeOK' /\ WorkersOK'
  <2>1. PICK pc \in {"dispose", "save"}, out \in Outcomes :
             worker[w].pc # "idle" /\ Leave(w, pc, out)
    <3>1. worker[w].pc # "idle"
      BY <1>8 DEF SliceTimeout, QuotaGone, StopsHere, SaveSession, Beating
    <3>2. worker[w].out \in Outcomes
      BY <1>j, <3>1 DEF WorkerType
    <3> QED
      BY <1>8, <3>1, <3>2 DEF SliceTimeout, QuotaGone, StopsHere, SaveSession, Outcomes
  <2>2. worker' \in [Workers -> WorkerType] /\ WorkersOK'
    BY <2>1, LeaveOK DEF Working, Beating
  <2>3. conn' \in [state : {"connected", "pending", "down"}, gen : Nat, sess : Nat]
    <3>1. CASE SaveSession(w)
      <4>1. Lease(w).gen \in Nat
        BY <3>1, <1>j DEF SaveSession, Lease, JobType
      <4> QED
        BY <3>1, <4>1 DEF SaveSession, TypeOK
    <3>2. CASE ~SaveSession(w)
      BY <1>8, <3>2 DEF SliceTimeout, QuotaGone, StopsHere, TypeOK
    <3> QED
      BY <3>1, <3>2
  <2> QED
    BY <1>8, <2>2, <2>3 DEF SliceTimeout, QuotaGone, StopsHere, SaveSession, TypeOK, telegram
<1>9. ASSUME ReadConnection(w) PROVE TypeOK' /\ WorkersOK'
  <2>1. worker' \in [Workers -> WorkerType] /\ WorkersOK'
    BY <1>9, GotoOK, RaiseOK DEF ReadConnection, Working, Beating
  <2> QED
    BY <1>9, <2>1 DEF ReadConnection, TypeOK, telegram
<1>10. ASSUME EraseConnection(w) PROVE TypeOK' /\ WorkersOK'
  <2>1. Lease(w).gen \in Nat
    BY <1>10, <1>j DEF EraseConnection, Lease, JobType
  <2> QED
    BY <1>10, <2>1, RaiseOK DEF EraseConnection, TypeOK, telegram
<1>11. ASSUME Authorized(w) PROVE TypeOK' /\ WorkersOK'
  <2>1. worker' \in [Workers -> WorkerType] /\ WorkersOK'
    BY <1>11, GotoOK, LeaveOK DEF Authorized, Working, Beating, Outcomes
  <2> QED
    BY <1>11, <2>1 DEF Authorized, TypeOK, telegram
<1>12. ASSUME Downgrade(w) PROVE TypeOK' /\ WorkersOK'
  BY <1>12, RaiseOK, CancelScansTyped DEF Downgrade, TypeOK, telegram
<1>13. ASSUME Fetch(w) PROVE TypeOK' /\ WorkersOK'
  <2> DEFINE source == Below(worker[w].off)
  <2>1. worker[w] \in WorkerType /\ J \in Jobs
    BY <1>13, <1>j DEF Fetch
  <2>2. source \in SUBSET Ids
    BY DEF Below, TypeOK
  <2>3. worker' \in [Workers -> WorkerType] /\ WorkersOK'
    <3>1. CASE source = {}
      BY <1>13, <3>1, LeaveOK DEF Fetch, Working, Beating, Outcomes
    <3>2. CASE source # {}
      <4>1. PICK next \in source :
              LET page == PageDownTo(next, source)
              IN /\ Cardinality(page) <= Capacity(w)
                 /\ Become(w, [worker[w] EXCEPT
                      !.pc = "page", !.page = page, !.next = next,
                      !.more = page # source,
                      !.cut = page # source /\ Cardinality(page) < Capacity(w)])
        BY <1>13, <3>2 DEF Fetch
      <4> DEFINE page == PageDownTo(next, source)
                 r == [worker[w] EXCEPT
                         !.pc = "page", !.page = page, !.next = next,
                         !.more = page # source,
                         !.cut = page # source /\ Cardinality(page) < Capacity(w)]
      <4>2. page \in SUBSET Ids
        BY <2>2 DEF PageDownTo
      <4>3. IsFiniteSet(page)
        <5>1. IsFiniteSet(Ids)
          BY FS_Interval DEF Ids
        <5> QED
          BY <4>2, <5>1, FS_Subset
      <4>4. Cardinality(page) <= worker[w].left
        <5>1. Cardinality(page) \in Nat
          BY <4>3, FS_CardinalityType
        <5> QED
          BY <4>1, <5>1, <2>1 DEF Capacity, WorkerType
      <4>5. worker[w].off # 0 => next < worker[w].off
        BY DEF Below
      <4>6. next \in Ids
        BY <2>2
      <4>7. r \in WorkerType
        BY <2>1, <4>2, <4>6 DEF WorkerType, Working, Beating
      <4>8. /\ r.page = page /\ r.left = worker[w].left /\ r.job = J
            /\ r.next = next /\ r.off = worker[w].off
        BY <2>1 DEF WorkerType
      <4>9. WorkerOK(r)
        BY <2>1, <4>3, <4>4, <4>5, <4>6, <4>7, <4>8 DEF WorkerOK
      <4> QED
        BY <4>1, <4>9, BecomeOK
    <3> QED
      BY <3>1, <3>2
  <2> QED
    BY <1>13, <2>3 DEF Fetch, TypeOK, telegram
<1>14. ASSUME PersistPage(w) PROVE TypeOK' /\ WorkersOK'
  <2> DEFINE page == worker[w].page
             left == worker[w].left - Cardinality(page)
             r == [job[J] EXCEPT !.cursor = worker[w].next,
                                 !.scanned = @ + Cardinality(page)]
             v == [worker[w] EXCEPT
                     !.pc = "loop", !.page = {}, !.next = 0, !.more = FALSE,
                     !.off = worker[w].next, !.left = left, !.pages = @ + 1]
  <2>1. /\ J \in Jobs /\ job[J] \in JobType /\ worker[w] \in WorkerType
        /\ worker[w].pc = "page"
    BY <1>14, <1>j DEF PersistPage
  <2>2. Cardinality(page) \in Nat /\ Cardinality(page) <= worker[w].left /\ worker[w].next \in Ids
    BY <2>1, FS_CardinalityType DEF WorkersOK, WorkerOK
  <2>3. r \in JobType
    BY <2>1, <2>2, AdvancedTyped
  <2>4. job' = [job EXCEPT ![J] = r]
    BY <1>14, <2>1 DEF PersistPage, Mine, TypeOK, JobType
  <2>5. left \in Nat
    BY <2>1, <2>2 DEF WorkerType
  <2>6. v \in WorkerType
    BY <2>1, <2>2, <2>5, NextPageTyped
  <2>7. WorkerOK(v)
    BY <2>1, <2>6 DEF WorkerOK, WorkerType
  <2>8. worker' \in [Workers -> WorkerType] /\ WorkersOK'
    BY <1>14, <2>1, <2>7, BecomeOK, LeaveOK DEF PersistPage, Working, Beating, Outcomes
  <2>9. row' \in [Ids -> {Absent, Unmarked} \union Jobs]
    BY <1>14, <2>1 DEF PersistPage, Mine, TypeOK
  <2>10. job' \in [Jobs -> JobType]
    BY <2>1, <2>3, <2>4 DEF TypeOK
  <2> QED
    BY <1>14, <2>8, <2>9, <2>10 DEF PersistPage, TypeOK, telegram
<1>15. ASSUME Dispose(w) \/ FinalizeFailed(w) PROVE TypeOK' /\ WorkersOK'
  <2>1. PICK state \in TerminalStates :
               worker[w].pc # "idle" /\ \E reason : Finalize(w, state, reason)
    BY <1>15 DEF Dispose, FinalizeFailed, TerminalStates
  <2>2. J \in Jobs
    BY <2>1, <1>j
  <2>3. job' \in [Jobs -> JobType]
    <3>1. Ended(J, state) \in JobType
      BY <2>2, EndedTyped
    <3>2. job' = job \/ job' = [job EXCEPT ![J] = Ended(J, state)]
      BY <2>1 DEF Finalize, Mine
    <3> QED
      BY <3>1, <3>2 DEF TypeOK
  <2>4. row' \in [Ids -> {Absent, Unmarked} \union Jobs]
    BY <2>1 DEF Finalize, TypeOK
  <2> QED
    BY <2>1, <2>3, <2>4, IdlesOK DEF Finalize, TypeOK, telegram
<1>16. ASSUME RequeueMarkers(w) PROVE TypeOK' /\ WorkersOK'
  <2>1. J \in Jobs /\ worker[w].late \in BOOLEAN
    BY <1>16, <1>j DEF RequeueMarkers, WorkerType
  <2>2. worker' \in [Workers -> WorkerType] /\ WorkersOK'
    BY <1>16, <2>1, LocksOK DEF RequeueMarkers, MarkersToClear, Marked, Mine
  <2> QED
    BY <1>16, <2>2 DEF RequeueMarkers, TypeOK, telegram
<1>17. ASSUME RequeueJob(w) \/ ReleaseJob(w) PROVE TypeOK' /\ WorkersOK'
  <2>1. J \in Jobs /\ job[J] \in JobType
    BY <1>17, <1>j DEF RequeueJob, ReleaseJob
  <2>2. HandBack(w) \in JobType
    BY <2>1 DEF HandBack, Lease, JobType, ActiveStates, TerminalStates
  <2>3. job' \in [Jobs -> JobType]
    BY <1>17, <2>2 DEF RequeueJob, ReleaseJob, Mine, TypeOK
  <2> QED
    BY <1>17, <2>3, UnmarkTyped, IdlesOK DEF RequeueJob, ReleaseJob, TypeOK, telegram
<1> QED
  BY <1>1, <1>2, <1>3, <1>4, <1>5, <1>6, <1>7, <1>8, <1>9, <1>10, <1>11, <1>12,
     <1>13, <1>14, <1>15, <1>16, <1>17 DEF WorkerStep
-----------------------------------------------------------------------------
LEMMA EnvironmentTyped ==
  ASSUME TypeInv, Environment
  PROVE  TypeInv'
<1> USE DEF TypeInv
<1> SUFFICES TypeOK' /\ WorkersOK'
  OBVIOUS
<1>w. ASSUME worker' = worker
      PROVE  worker' \in [Workers -> WorkerType] /\ WorkersOK'
  BY <1>w DEF TypeOK, WorkersOK
<1>1. ASSUME NEW w \in Workers, Crash(w) PROVE TypeOK' /\ WorkersOK'
  BY <1>1, IdlesOK DEF Crash, TypeOK, telegram
<1>2. ASSUME NEW w \in Workers, ReleaseMarkers(w) PROVE TypeOK' /\ WorkersOK'
  <2>1. worker[w].job \in Jobs
    BY <1>2 DEF ReleaseMarkers, Working, Beating, WorkersOK, WorkerOK
  <2>2. WorkerOK([IdleWorker EXCEPT !.pc = "release", !.job = Mine(w),
                                    !.rows = MarkersToClear(w, Owns(w))])
    BY <2>1, IdleOK DEF WorkerOK, WorkerType, IdleWorker, MarkersToClear, Marked, Mine, Working
  <2>3. worker' \in [Workers -> WorkerType] /\ WorkersOK'
    BY <1>2, <2>2, BecomeOK DEF ReleaseMarkers
  <2> QED
    BY <1>2, <2>3 DEF ReleaseMarkers, TypeOK, telegram
<1>3. ASSUME NEW j \in Jobs, Expire(j) PROVE TypeOK' /\ WorkersOK'
  <2> DEFINE r == [job[j] EXCEPT !.live = FALSE]
  <2>1. job[j] \in JobType
    BY DEF TypeOK
  <2>2. r \in JobType
    BY <2>1 DEF JobType
  <2>3. job' = [job EXCEPT ![j] = r]
    BY <1>3, <2>1 DEF Expire, TypeOK, JobType
  <2>4. \A v \in Workers : WorkerOK(worker[v]) /\ WorkerOK([worker[v] EXCEPT !.late = TRUE])
    BY DEF WorkersOK, WorkerOK, WorkerType
  <2>5. PICK late \in BOOLEAN :
          worker' = [v \in Workers |->
             IF Holds(v, j) /\ (worker[v].pc = "requeue" \/ late)
             THEN [worker[v] EXCEPT !.late = TRUE] ELSE worker[v]]
    BY <1>3 DEF Expire
  <2>6. worker' \in [Workers -> WorkerType] /\ WorkersOK'
    BY <2>4, <2>5 DEF WorkersOK, WorkerOK
  <2>7. faults' \in Nat
    BY <1>3 DEF Expire, TypeOK
  <2> QED
    BY <1>3, <2>2, <2>3, <2>6, <2>7 DEF Expire, TypeOK, telegram
<1>4. ASSUME NEW j \in Jobs, SpendRuntime(j) PROVE TypeOK' /\ WorkersOK'
  <2> DEFINE r == [job[j] EXCEPT !.clock = "spent"]
  <2>1. job[j] \in JobType
    BY DEF TypeOK
  <2>2. r \in JobType
    BY <2>1 DEF JobType
  <2>3. job' = [job EXCEPT ![j] = r]
    BY <1>4, <2>1 DEF SpendRuntime, TypeOK, JobType
  <2> QED
    BY <1>4, <1>w, <2>2, <2>3 DEF SpendRuntime, TypeOK, telegram
<1>5. ASSUME Arrive PROVE TypeOK' /\ WorkersOK'
  <2>1. top + 1 \in Ids
    BY <1>5 DEF Arrive, TypeOK, Ids
  <2> QED
    BY <1>5, <1>w, <2>1 DEF Arrive, TypeOK
<1>6. ASSUME NEW m \in Ids, Vanish(m) PROVE TypeOK' /\ WorkersOK'
  BY <1>6, <1>w DEF Vanish, TypeOK
<1> QED
  BY <1>1, <1>2, <1>3, <1>4, <1>5, <1>6 DEF Environment

LEMMA TypeStep == TypeInv /\ [Next]_vars => TypeInv'
<1> SUFFICES ASSUME TypeInv, [Next]_vars PROVE TypeInv'
  OBVIOUS
<1>1. CASE UNCHANGED vars
  BY <1>1 DEF TypeInv, TypeOK, WorkersOK, vars
<1> QED
  BY <1>1, UserTyped, WorkerTyped, EnvironmentTyped DEF Next

\* Every variable keeps the type of the columns and locals it stands for; in
\* particular the remaining quota of a scanner never goes below zero.
THEOREM TypeCorrect == Spec => []TypeOK
<1>1. Spec => []TypeInv
  BY InitTyped, TypeStep, PTL DEF Spec
<1> QED
  BY <1>1, PTL DEF TypeInv
-----------------------------------------------------------------------------
(* The ways in which a step changes a row of scan_jobs.                     *)

SameJob(j) ==
    /\ job'[j].replace = job[j].replace /\ job'[j].gen = job[j].gen
    /\ job[j].stop => job'[j].stop

SameProgress(j) == job'[j].cursor = job[j].cursor /\ job'[j].scanned = job[j].scanned

NoLease(j) == job'[j].owner = NoWorker /\ ~job'[j].live

Creates(j) ==
    /\ StartCreate(j, job'[j].replace)
    /\ NoScanActive
    /\ job'[j].state = "pending" /\ NoLease(j) /\ ~job'[j].stop
    /\ job[j].state = "none" /\ job'[j].scanned = 0 /\ job'[j].cursor = 0
    /\ \A i \in Jobs \ {j} : job'[i] = job[i]
    /\ conn.state = "connected" /\ job'[j].gen = conn.gen /\ conn' = conn

Claims(j) ==
    /\ job[j].state \in {"pending", "running"}
    /\ job'[j].state = "running" /\ SameJob(j) /\ SameProgress(j)
    /\ job'[j].stop = job[j].stop
    /\ \E w \in Workers : worker[w].pc = "idle" /\ job'[j].owner = w

\* A lease that was dead is live again only through a heartbeat that was late,
\* and a live one dies only by expiring.
Keeps(j) ==
    /\ {job[j].state, job'[j].state} \subseteq LeasedStates
    /\ job'[j].owner = job[j].owner /\ SameJob(j) /\ SameProgress(j)
    /\ job[j].state = "stopping" => job'[j].state = "stopping"
    /\ job'[j].stop => job[j].stop \/ job'[j].state = "stopping"
    /\ job'[j].state = "stopping" => job'[j].stop \/ job[j].state = "stopping"
    /\ job'[j].live /\ ~job[j].live =>
         \E w \in Workers : worker[w].late /\ worker[w].pc \in Beating
    /\ job[j].live /\ ~job'[j].live => Expire(j)

Pends(j) ==
    /\ Active(j) /\ job'[j].state = "pending" /\ SameJob(j) /\ SameProgress(j)
    /\ job'[j].stop = job[j].stop
    /\ \/ NoLease(j) /\ ~job[j].stop
       \/ job[j].state = "pending" /\ job'[j].owner = job[j].owner
                                   /\ job'[j].live = job[j].live

\* The only statement that writes a terminal state without having found the job
\* active is that of a start() over an expired stop.
MayEnd(j, state) ==
    /\ Active(j) \/ (StartOverwritesExpiredStop /\ j = starter)
    /\ \/ state = "cancelled"
       \/ \E w \in Workers : (Dispose(w) \/ FinalizeFailed(w)) /\ j = Mine(w) /\ FenceThen(w)

Ends(j) ==
    /\ job'[j].state \in TerminalStates /\ NoLease(j) /\ SameJob(j) /\ SameProgress(j)
    /\ MayEnd(j, job'[j].state)

Advances(j) ==
    /\ \E w \in Workers : PersistPage(w) /\ j = worker[w].job
    /\ job'[j].state = job[j].state /\ job'[j].owner = job[j].owner
    /\ job'[j].live = job[j].live /\ job'[j].stop = job[j].stop /\ SameJob(j)

JobChange(j) ==
    \/ job'[j] = job[j]
    \/ Creates(j) \/ Claims(j) \/ Keeps(j) \/ Pends(j) \/ Ends(j) \/ Advances(j)

LEMMA EndedEnds ==
  ASSUME TypeInv, NEW j \in Jobs, NEW s \in TerminalStates, MayEnd(j, s),
         job'[j] \in {Ended(j, s), [Ended(j, s) EXCEPT !.stop = TRUE]}
  PROVE  Ends(j)
<1>1. job[j] \in JobType
  BY DEF TypeInv, TypeOK
<1>2. CASE job'[j] = Ended(j, s)
  BY <1>1, <1>2 DEF Ends, NoLease, SameJob, SameProgress, Ended, JobType
<1>3. CASE job'[j] = [Ended(j, s) EXCEPT !.stop = TRUE]
  BY <1>1, <1>3 DEF Ends, NoLease, SameJob, SameProgress, Ended, JobType
<1> QED
  BY <1>2, <1>3

LEMMA CancelScansEnds ==
  ASSUME TypeInv, NEW S \in SUBSET ActiveJobs, CancelScans(S), NEW j \in Jobs
  PROVE  job'[j] = job[j] \/ Ends(j)
<1>1. "cancelled" \in TerminalStates
  BY DEF TerminalStates
<1>2. CASE j \in S
  <2>1. MayEnd(j, "cancelled")
    BY <1>2 DEF MayEnd, ActiveJobs
  <2> QED
    BY <1>1, <1>2, <2>1, EndedEnds DEF CancelScans
<1> QED
  BY <1>2 DEF CancelScans

LEMMA UserJobs ==
  ASSUME TypeInv, UserStep, NEW i \in Jobs
  PROVE  JobChange(i)
<1>t. job \in [Jobs -> JobType] /\ "cancelled" \in TerminalStates
  BY DEF TypeInv, TypeOK, TerminalStates
<1>1. ASSUME NEW j \in Jobs, NEW replace \in BOOLEAN, StartCreate(j, replace)
      PROVE  JobChange(i)
  <2>1. CASE i = j
    BY <1>1, <1>t, <2>1 DEF StartCreate, NewJob, JobChange, Creates, NoLease
  <2>2. CASE i # j
    BY <1>1, <1>t, <2>2 DEF StartCreate, JobChange
  <2> QED
    BY <2>1, <2>2
<1>2. ASSUME NEW j \in Jobs, StartReadsExpiredStop(j) PROVE JobChange(i)
  BY <1>2 DEF StartReadsExpiredStop, JobChange
<1>3. ASSUME NEW j \in Jobs, Stop(j) PROVE JobChange(i)
  <2>1. CASE i # j
    BY <1>3, <1>t, <2>1 DEF Stop, JobChange
  <2>2. CASE i = j /\ (job[j].state = "pending" \/ ~job[j].live)
    BY <1>3, <1>t, <2>2, EndedEnds DEF Stop, JobChange, MayEnd
  <2>3. CASE i = j /\ ~(job[j].state = "pending" \/ ~job[j].live)
    <3>1. job[j].state \in LeasedStates
      BY <1>3, <2>3 DEF Stop, Active, ActiveStates, LeasedStates
    <3>2. Keeps(j)
      BY <1>3, <1>t, <2>3, <3>1 DEF Stop, Keeps, SameJob, SameProgress, LeasedStates, JobType
    <3> QED
      BY <2>3, <3>2 DEF JobChange
  <2> QED
    BY <2>1, <2>2, <2>3
<1>4. ASSUME StartInvalidatesConnection \/ Verify PROVE JobChange(i)
  BY <1>4 DEF StartInvalidatesConnection, Verify, JobChange
<1>5. ASSUME StartOverwritesExpiredStop PROVE JobChange(i)
  <2>1. job'[i] = job[i] \/ job'[i] = Ended(i, "cancelled")
    BY <1>5, <1>t DEF StartOverwritesExpiredStop
  <2>2. CASE job'[i] # job[i]
    <3>1. i = starter
      BY <1>5, <1>t, <2>2 DEF StartOverwritesExpiredStop
    <3> QED
      BY <1>5, <1>t, <2>1, <2>2, <3>1, EndedEnds DEF JobChange, MayEnd
  <2> QED
    BY <2>2 DEF JobChange
<1>6. ASSUME Disconnect \/ RequestCode PROVE JobChange(i)
  BY <1>6, CancelScansEnds DEF Disconnect, RequestCode, JobChange
<1> QED
  BY <1>1, <1>2, <1>3, <1>4, <1>5, <1>6 DEF UserStep

LEMMA WorkerJobs ==
  ASSUME TypeInv, NEW w \in Workers, WorkerStep(w), NEW i \in Jobs
  PROVE  JobChange(i)
<1> DEFINE J == worker[w].job
<1>t. job \in [Jobs -> JobType] /\ "cancelled" \in TerminalStates
  BY DEF TypeInv, TypeOK, TerminalStates
<1>j. ASSUME worker[w].pc # "idle"
      PROVE  J \in Jobs /\ job[J] \in JobType
  BY <1>j DEF TypeInv, TypeOK, WorkersOK, WorkerOK
<1>0. ASSUME UNCHANGED job PROVE JobChange(i)
  BY <1>0 DEF JobChange
<1>1. CASE \/ SweepMarkers(w) \/ LoseLease(w) \/ Fail(w) \/ SliceTimeout(w)
           \/ QuotaGone(w) \/ ReadConnection(w) \/ EraseConnection(w)
           \/ Authorized(w) \/ StopsHere(w) \/ Fetch(w) \/ ConnectionLost(w)
           \/ SaveSession(w) \/ RequeueMarkers(w) \/ DispositionFails(w)
  BY <1>1, <1>0 DEF SweepMarkers, LoseLease, Fail, SliceTimeout, QuotaGone,
       ReadConnection, EraseConnection, Authorized, StopsHere, Fetch,
       ConnectionLost, SaveSession, RequeueMarkers, DispositionFails
<1>2. CASE SweepJobs(w)
  <2>1. \/ job'[i] = job[i]
        \/ job'[i] = [Ended(i, "cancelled") EXCEPT !.stop = TRUE] /\ ExpiredStop(i)
    BY <1>2, <1>t DEF SweepJobs, Mine
  <2>2. ExpiredStop(i) => MayEnd(i, "cancelled")
    BY DEF ExpiredStop, MayEnd, Active, ActiveStates
  <2> QED
    BY <1>t, <2>1, <2>2, EndedEnds DEF JobChange
<1>3. ASSUME NEW j \in Jobs, Claim(w, j) PROVE JobChange(i)
  <2>1. CASE i # j
    BY <1>3, <1>t, <2>1 DEF Claim, JobChange
  <2>2. CASE i = j
    <3>1. Claims(j)
      BY <1>3, <1>t DEF Claim, Claims, SameJob, SameProgress, JobType
    <3> QED
      BY <2>2, <3>1 DEF JobChange
  <2> QED
    BY <2>1, <2>2
<1>4. ASSUME NEW j \in Jobs, ClaimCancels(w, j) PROVE JobChange(i)
  <2>1. job'[i] = job[i] \/ (job'[i] = Ended(i, "cancelled") /\ ExpiredStop(i))
    BY <1>4, <1>t DEF ClaimCancels
  <2>2. ExpiredStop(i) => MayEnd(i, "cancelled")
    BY DEF ExpiredStop, MayEnd, Active, ActiveStates
  <2> QED
    BY <1>t, <2>1, <2>2, EndedEnds DEF JobChange
<1>5. CASE Renew(w)
  <2>1. J \in Jobs /\ job[J] \in JobType
    BY <1>5, <1>j DEF Renew, Beating
  <2>2. CASE i # J
    BY <1>5, <1>t, <2>2 DEF Renew, Mine, JobChange
  <2>3. CASE i = J
    <3>1. Keeps(i)
      BY <1>5, <1>t, <2>1, <2>3
      DEF Renew, Mine, Lease, FenceThen, Owns, Keeps, SameJob, SameProgress, JobType
    <3> QED
      BY <3>1 DEF JobChange
  <2> QED
    BY <2>2, <2>3
<1>6. CASE Downgrade(w)
  BY <1>6, CancelScansEnds DEF Downgrade, JobChange
<1>7. CASE PersistPage(w)
  <2>1. J \in Jobs /\ job[J] \in JobType
    BY <1>7, <1>j DEF PersistPage
  <2>2. CASE i # J
    BY <1>7, <1>t, <2>2 DEF PersistPage, Mine, JobChange
  <2>3. CASE i = J
    <3>1. Advances(i)
      BY <1>7, <1>t, <2>1, <2>3 DEF PersistPage, Mine, Advances, SameJob, JobType
    <3> QED
      BY <3>1 DEF JobChange
  <2> QED
    BY <2>2, <2>3
<1>8. CASE Dispose(w) \/ FinalizeFailed(w)
  <2>1. PICK state \in TerminalStates : \E reason : Finalize(w, state, reason)
    BY <1>8 DEF Dispose, FinalizeFailed, TerminalStates
  <2>2. job' = job \/ job' = [job EXCEPT ![J] = Ended(J, state)]
    BY <2>1 DEF Finalize, Mine
  <2>3. CASE job'[i] # job[i]
    <3>1. i = J /\ job'[i] = Ended(i, state) /\ FenceThen(w)
      BY <1>t, <2>1, <2>2, <2>3 DEF Finalize
    <3>2. Active(i)
      BY <3>1 DEF FenceThen, Owns, Lease, Active, ActiveStates, LeasedStates
    <3>3. MayEnd(i, state)
      BY <1>8, <3>1, <3>2 DEF MayEnd, Mine
    <3> QED
      BY <3>1, <3>3, EndedEnds DEF JobChange
  <2> QED
    BY <2>3 DEF JobChange
<1>9. CASE RequeueJob(w) \/ ReleaseJob(w)
  <2>1. J \in Jobs /\ job[J] \in JobType
    BY <1>9, <1>j DEF RequeueJob, ReleaseJob
  <2>2. CASE job'[i] = job[i]
    BY <2>2 DEF JobChange
  <2>3. CASE job'[i] # job[i]
    <3>1. i = J /\ job'[i] = HandBack(w) /\ Owns(w)
      BY <1>9, <1>t, <2>3 DEF RequeueJob, ReleaseJob, Mine, FenceThen
    <3>2. /\ job'[i].state = IF job[i].stop THEN "cancelled" ELSE "pending"
          /\ NoLease(i) /\ SameJob(i) /\ SameProgress(i) /\ job'[i].stop = job[i].stop
      BY <2>1, <3>1 DEF HandBack, Lease, NoLease, SameJob, SameProgress, JobType
    <3>3. Active(i)
      BY <3>1 DEF Owns, Lease, Active, ActiveStates, LeasedStates
    <3>4. Pends(i) \/ Ends(i)
      BY <3>2, <3>3 DEF Pends, Ends, MayEnd, TerminalStates
    <3> QED
      BY <3>4 DEF JobChange
  <2> QED
    BY <2>2, <2>3
<1> QED
  BY <1>1, <1>2, <1>3, <1>4, <1>5, <1>6, <1>7, <1>8, <1>9 DEF WorkerStep

LEMMA EnvironmentJobs ==
  ASSUME TypeInv, Environment, NEW i \in Jobs
  PROVE  JobChange(i)
<1>t. job \in [Jobs -> JobType]
  BY DEF TypeInv, TypeOK
<1>1. ASSUME NEW j \in Jobs, Expire(j) PROVE JobChange(i)
  <2>1. CASE i # j
    BY <1>1, <1>t, <2>1 DEF Expire, JobChange
  <2>2. CASE i = j
    <3>1. Keeps(i)
      BY <1>1, <1>t, <2>2 DEF Expire, Keeps, SameJob, SameProgress, JobType
    <3> QED
      BY <3>1 DEF JobChange
  <2> QED
    BY <2>1, <2>2
<1>2. ASSUME NEW j \in Jobs, SpendRuntime(j) PROVE JobChange(i)
  <2>1. CASE i # j
    BY <1>2, <1>t, <2>1 DEF SpendRuntime, JobChange
  <2>2. CASE i = j
    <3>1. /\ job'[i].state = job[i].state /\ job'[i].owner = job[i].owner
          /\ job'[i].live = job[i].live /\ job'[i].stop = job[i].stop
          /\ SameJob(i) /\ SameProgress(i)
      BY <1>2, <1>t, <2>2 DEF SpendRuntime, SameJob, SameProgress, JobType
    <3>2. job[i].state \in ActiveStates
      BY <1>2, <2>2 DEF SpendRuntime, Active
    <3>3. Keeps(i) \/ Pends(i)
      BY <3>1, <3>2 DEF Keeps, Pends, Active, ActiveStates, LeasedStates
    <3> QED
      BY <3>3 DEF JobChange
  <2> QED
    BY <2>1, <2>2
<1>3. ASSUME UNCHANGED job PROVE JobChange(i)
  BY <1>3 DEF JobChange
<1> QED
  BY <1>1, <1>2, <1>3 DEF Environment, Crash, ReleaseMarkers, Arrive, Vanish

LEMMA JobSteps ==
  ASSUME TypeInv, [Next]_vars, NEW i \in Jobs
  PROVE  JobChange(i)
<1>1. CASE UNCHANGED vars
  BY <1>1 DEF JobChange, vars
<1> QED
  BY <1>1, UserJobs, WorkerJobs, EnvironmentJobs DEF Next
-----------------------------------------------------------------------------
(* Leases and progress.                                                     *)

\* The phases in which the scanner's own cursor and quota are still used.
Scanning == {"claimed", "client", "loop", "page"}

LeaseInv == OneActiveJob /\ LeaseMatchesState /\ ScannerInStep /\ QuotaRespected

\* Another process never touches the locals of a worker; an expiring lease may
\* make a statement of its holder late.
OwnStep(w) == WorkerStep(w) \/ Crash(w) \/ ReleaseMarkers(w)

GetsLate(w) ==
    /\ \E j \in Jobs : Expire(j) /\ Holds(w, j)
    /\ worker[w].pc = "requeue" \/ DelayedStatements
    /\ worker'[w] = [worker[w] EXCEPT !.late = TRUE]

LEMMA OthersKeep ==
  ASSUME TypeInv, [Next]_vars, NEW w \in Workers
  PROVE  worker'[w] = worker[w] \/ OwnStep(w) \/ GetsLate(w)
<1>t. worker \in [Workers -> WorkerType]
  BY DEF TypeInv, TypeOK
<1>1. CASE UNCHANGED vars
  BY <1>1 DEF vars
<1>2. CASE UserStep
  BY <1>2 DEF UserStep, StartCreate, StartReadsExpiredStop, Stop, Disconnect,
       StartInvalidatesConnection, StartOverwritesExpiredStop, RequestCode, Verify
<1>3. CASE \E v \in Workers : Crash(v) \/ ReleaseMarkers(v)
  <2>1. PICK v \in Workers : Crash(v) \/ ReleaseMarkers(v)
    BY <1>3
  <2>2. CASE v = w
    BY <2>1, <2>2 DEF OwnStep
  <2>3. CASE v # w
    BY <1>t, <2>1, <2>3 DEF Crash, ReleaseMarkers, Idle, Become
  <2> QED
    BY <2>2, <2>3
<1>4. ASSUME NEW j \in Jobs, Expire(j) PROVE worker'[w] = worker[w] \/ GetsLate(w)
  <2>1. PICK late \in (IF DelayedStatements THEN BOOLEAN ELSE {FALSE}) :
          worker' = [v \in Workers |->
             IF Holds(v, j) /\ (worker[v].pc = "requeue" \/ late)
             THEN [worker[v] EXCEPT !.late = TRUE] ELSE worker[v]]
    BY <1>4 DEF Expire
  <2> QED
    BY <1>4, <2>1 DEF GetsLate
<1>5. CASE worker' = worker
  BY <1>5
<1>6. ASSUME NEW v \in Workers, WorkerStep(v), v # w PROVE worker'[w] = worker[w]
  <2>1. worker' = worker \/ \E r : Become(v, r)
    BY <1>6 DEF WorkerStep, SweepMarkers, SweepJobs, Claim, ClaimCancels, Renew, LoseLease,
         Fail, SliceTimeout, QuotaGone, ReadConnection, EraseConnection, Authorized,
         Downgrade, StopsHere, Fetch, PersistPage, ConnectionLost, SaveSession, Dispose,
         FinalizeFailed, Finalize, RequeueMarkers, RequeueJob, DispositionFails,
         ReleaseJob, Idle, Leave, Goto, Raise
  <2> QED
    BY <1>6, <1>t, <2>1 DEF Become
<1> QED
  BY <1>1, <1>2, <1>3, <1>4, <1>5, <1>6
  DEF Next, Environment, OwnStep, SpendRuntime, Arrive, Vanish

\* A scanner comes by its cursor and quota at a claim or with a page.
LEMMA ScannerSteps ==
  ASSUME TypeInv, [Next]_vars, NEW w \in Workers, worker'[w].pc \in Scanning
  PROVE  \/ \E j \in Jobs : Claim(w, j)
         \/ PersistPage(w)
         \/ /\ worker[w].pc \in Scanning /\ worker'[w].job = worker[w].job
            /\ worker'[w].off = worker[w].off /\ worker'[w].left = worker[w].left
<1> DEFINE Kept(v) == /\ worker[v].pc \in Scanning /\ worker'[v].job = worker[v].job
                      /\ worker'[v].off = worker[v].off /\ worker'[v].left = worker[v].left
<1>t. worker \in [Workers -> WorkerType]
  BY DEF TypeInv, TypeOK
<1>0. ASSUME worker'[w] = worker[w] PROVE Kept(w)
  BY <1>0
<1>1. CASE GetsLate(w)
  <2>1. worker[w] \in WorkerType
    BY <1>t
  <2> QED
    BY <1>1, <2>1 DEF GetsLate, WorkerType
<1>2. CASE Crash(w) \/ ReleaseMarkers(w)
  <2>1. worker'[w] = IdleWorker \/ \E rows :
          worker'[w] = [IdleWorker EXCEPT !.pc = "release", !.job = Mine(w), !.rows = rows]
    BY <1>t, <1>2 DEF Crash, ReleaseMarkers, Idle, Become
  <2>2. IdleWorker.pc = "idle"
    BY DEF IdleWorker
  <2>3. \A j, rows :
          [IdleWorker EXCEPT !.pc = "release", !.job = j, !.rows = rows].pc = "release"
    BY DEF IdleWorker
  <2> QED
    BY <2>1, <2>2, <2>3 DEF Scanning
<1>3. ASSUME WorkerStep(w), ~PersistPage(w), ~\E j \in Jobs : Claim(w, j) PROVE Kept(w)
  <2>1. ASSUME NEW r, Become(w, r) PROVE worker'[w] = r
    BY <1>t, <2>1 DEF Become
  <2>2. ~Idle(w) /\ ~Raise(w)
    <3>1. IdleWorker.pc = "idle"
      BY DEF IdleWorker
    <3>2. \A j : [IdleWorker EXCEPT !.pc = "fail", !.job = j].pc = "fail"
      BY DEF IdleWorker
    <3> QED
      BY <2>1, <3>1, <3>2 DEF Idle, Raise, Scanning
  <2>3. \A pc \in {"dispose", "save"} : \A out : ~Leave(w, pc, out)
    BY <2>1 DEF Leave, IdleWorker, Scanning
  <2>4. CASE Renew(w)
    BY <1>t, <2>1, <2>4 DEF Renew, WorkerType
  <2>5. CASE ReadConnection(w) \/ Authorized(w)
    BY <1>t, <2>1, <2>2, <2>3, <2>5
    DEF ReadConnection, Authorized, Goto, WorkerType, Scanning
  <2>6. CASE Fetch(w)
    <3>1. Below(worker[w].off) # {}
      BY <2>3, <2>6 DEF Fetch
    <3>2. PICK next, page, more, cut :
            Become(w, [worker[w] EXCEPT !.pc = "page", !.page = page, !.next = next,
                                        !.more = more, !.cut = cut])
      BY <2>6, <3>1 DEF Fetch
    <3> QED
      BY <1>t, <2>1, <2>6, <3>2 DEF Fetch, WorkerType, Scanning
  <2>7. CASE SweepMarkers(w) \/ RequeueMarkers(w)
    BY <2>1, <2>7 DEF SweepMarkers, RequeueMarkers, IdleWorker, Scanning
  <2>8. CASE \E j \in Jobs : ClaimCancels(w, j)
    BY <1>0, <2>8 DEF ClaimCancels
  <2> QED
    BY <1>3, <2>2, <2>3, <2>4, <2>5, <2>6, <2>7, <2>8
    DEF WorkerStep, SweepJobs, LoseLease, Fail, SliceTimeout, QuotaGone, EraseConnection,
        Downgrade, StopsHere, ConnectionLost, SaveSession, Dispose,
        FinalizeFailed, Finalize, RequeueJob, DispositionFails, ReleaseJob
<1> QED
  BY <1>0, <1>1, <1>2, <1>3, OthersKeep DEF OwnStep

LEMMA LeaseInit == Init => LeaseInv
BY DEF Init, LeaseInv, OneActiveJob, ActiveJobs, Active, ActiveStates, LeaseMatchesState,
       LeasedStates, ScannerInStep, QuotaRespected, NewJob, IdleWorker

LEMMA OneActiveStep ==
  ASSUME TypeInv, OneActiveJob, [Next]_vars
  PROVE  OneActiveJob'
<1>t. \A i \in Jobs : JobChange(i)
  BY JobSteps
<1>1. CASE \E j \in Jobs : Creates(j)
  <2>1. PICK j \in Jobs : Creates(j)
    BY <1>1
  <2>2. \A i \in Jobs \ {j} : job'[i] = job[i] /\ ~Active(i)
    BY <2>1 DEF Creates, NoScanActive, ActiveJobs
  <2> QED
    BY <2>2 DEF OneActiveJob, ActiveJobs, Active
<1>2. CASE ~\E j \in Jobs : Creates(j)
  <2>1. ASSUME NEW i \in Jobs, job'[i].state \in ActiveStates
        PROVE  job[i].state \in ActiveStates
    <3>1. CASE Advances(i)
      <4>1. job'[i].state = job[i].state
        BY <3>1 DEF Advances
      <4> QED
        BY <2>1, <4>1
    <3>2. CASE ~Advances(i)
      BY <1>2, <1>t, <2>1, <3>2
      DEF JobChange, Claims, Keeps, Pends, Ends, Active, ActiveStates, LeasedStates, TerminalStates
    <3> QED
      BY <3>1, <3>2
  <2> QED
    BY <2>1 DEF OneActiveJob, ActiveJobs, Active
<1> QED
  BY <1>1, <1>2

LEMMA LeaseMatchesStep ==
  ASSUME TypeInv, LeaseMatchesState, [Next]_vars
  PROVE  LeaseMatchesState'
<1> DEFINE Matches(r) == /\ r.owner # NoWorker <=> r.state \in LeasedStates
                         /\ r.live => r.state \in LeasedStates
                         /\ r.state = "stopping" => r.stop
<1> SUFFICES ASSUME NEW j \in Jobs PROVE Matches(job'[j])
  BY DEF LeaseMatchesState
<1>1. Matches(job[j]) /\ JobChange(j)
  BY JobSteps DEF LeaseMatchesState
<1>2. CASE Creates(j) \/ Ends(j)
  BY <1>2 DEF Creates, Ends, NoLease, LeasedStates, TerminalStates
<1>3. CASE Claims(j)
  BY <1>3, NoWorkerAssumption DEF Claims, LeasedStates
<1>4. CASE Keeps(j)
  <2>1. /\ job[j].state \in LeasedStates /\ job'[j].state \in LeasedStates
        /\ job'[j].owner = job[j].owner
    BY <1>4 DEF Keeps, LeasedStates
  <2>2. job'[j].state = "stopping" => job'[j].stop
    BY <1>1, <1>4 DEF Keeps, SameJob
  <2> QED
    BY <1>1, <2>1, <2>2
<1>5. CASE Pends(j)
  BY <1>1, <1>5 DEF Pends, NoLease, LeasedStates
<1>6. CASE Advances(j)
  <2>1. /\ job'[j].state = job[j].state /\ job'[j].owner = job[j].owner
        /\ job'[j].live = job[j].live /\ job'[j].stop = job[j].stop
    BY <1>6 DEF Advances
  <2> QED
    BY <1>1, <2>1
<1> QED
  BY <1>1, <1>2, <1>3, <1>4, <1>5, <1>6 DEF JobChange

\* What a persisted page does to its job.
LEMMA PageEffect ==
  ASSUME TypeInv, ScannerInStep, NEW w \in Workers, PersistPage(w)
  PROVE  LET j == worker[w].job
             n == Cardinality(worker[w].page)
         IN /\ j \in Jobs /\ n \in Nat /\ n <= worker[w].left
            /\ job[j].owner = w /\ job[j].state \in LeasedStates
            /\ worker[w].off = job[j].cursor
            /\ worker[w].left + job[j].scanned = MaxMessages
            /\ job'[j].cursor = worker[w].next
            /\ job'[j].scanned = job[j].scanned + n
            /\ worker'[w].pc \in Scanning =>
                 /\ worker'[w].job = j
                 /\ worker'[w].off = worker[w].next
                 /\ worker'[w].left = worker[w].left - n
<1> DEFINE j == worker[w].job
           n == Cardinality(worker[w].page)
<1>1. worker[w] \in WorkerType /\ j \in Jobs /\ job[j] \in JobType /\ WorkerOK(worker[w])
  BY DEF TypeInv, TypeOK, WorkersOK, WorkerOK, PersistPage
<1>2. n \in Nat /\ n <= worker[w].left
  BY <1>1, FS_CardinalityType DEF WorkerOK, PersistPage
<1>3. Owns(w) /\ worker[w].pc = "page"
  BY DEF PersistPage, FenceNow
<1>4. worker[w].off = job[j].cursor /\ worker[w].left + job[j].scanned = MaxMessages
  BY <1>3 DEF ScannerInStep, Lease
<1>5. job'[j].cursor = worker[w].next /\ job'[j].scanned = job[j].scanned + n
  BY <1>1 DEF PersistPage, Mine, TypeInv, TypeOK, JobType
<1>6. worker'[w].pc \in Scanning =>
        /\ worker'[w].job = j
        /\ worker'[w].off = worker[w].next
        /\ worker'[w].left = worker[w].left - n
  <2>1. \A out : Leave(w, "save", out) => worker'[w].pc \notin Scanning
    BY DEF Leave, Become, IdleWorker, Scanning, TypeInv, TypeOK
  <2>2. ASSUME Become(w, [worker[w] EXCEPT
                    !.pc = "loop", !.page = {}, !.next = 0, !.more = FALSE,
                    !.off = worker[w].next, !.left = worker[w].left - n, !.pages = @ + 1])
        PROVE  /\ worker'[w].job = j /\ worker'[w].off = worker[w].next
               /\ worker'[w].left = worker[w].left - n
    BY <1>1, <2>2 DEF Become, WorkerType, TypeInv, TypeOK
  <2> QED
    BY <2>1, <2>2 DEF PersistPage
<1> QED
  BY <1>1, <1>2, <1>3, <1>4, <1>5, <1>6 DEF Owns, Lease

LEMMA QuotaStep ==
  ASSUME TypeInv, ScannerInStep, QuotaRespected, [Next]_vars
  PROVE  QuotaRespected'
<1> SUFFICES ASSUME NEW j \in Jobs PROVE job'[j].scanned <= MaxMessages
  BY DEF QuotaRespected
<1>1. job[j].scanned <= MaxMessages /\ JobChange(j) /\ job[j].scanned \in Nat
  BY JobSteps DEF QuotaRespected, TypeInv, TypeOK, JobType
<1>2. CASE Advances(j)
  <2>1. PICK w \in Workers : PersistPage(w) /\ j = worker[w].job
    BY <1>2 DEF Advances
  <2>2. worker[w].left \in Nat
    BY DEF TypeInv, TypeOK, WorkerType
  <2>3. PICK n \in Nat : /\ n <= worker[w].left
                         /\ worker[w].left + job[j].scanned = MaxMessages
                         /\ job'[j].scanned = job[j].scanned + n
    BY <2>1, PageEffect
  <2> QED
    BY <1>1, <2>2, <2>3
<1>3. CASE ~Advances(j)
  BY <1>1, <1>3 DEF JobChange, Creates, Claims, Keeps, Pends, Ends, SameProgress
<1> QED
  BY <1>2, <1>3

LEMMA ScannerStep ==
  ASSUME TypeInv, ScannerInStep, QuotaRespected, [Next]_vars
  PROVE  ScannerInStep'
<1> SUFFICES ASSUME NEW w \in Workers, worker'[w].pc \in Scanning, Owns(w)'
             PROVE  /\ worker'[w].off = job'[worker'[w].job].cursor
                    /\ worker'[w].left + job'[worker'[w].job].scanned = MaxMessages
  BY DEF ScannerInStep, Lease, Scanning
<1>1. CASE PersistPage(w)
  <2> DEFINE j == worker[w].job
             n == Cardinality(worker[w].page)
  <2>1. worker[w].left \in Nat /\ job[j].scanned \in Nat
    <3>1. j \in Jobs
      BY <1>1, PageEffect
    <3> QED
      BY <3>1 DEF TypeInv, TypeOK, WorkerType, JobType
  <2>2. n \in Nat
    BY <1>1, PageEffect
  <2> HIDE DEF n
  <2>3. /\ worker'[w].job = j /\ worker'[w].off = job'[j].cursor
        /\ worker'[w].left = worker[w].left - n
        /\ job'[j].scanned = job[j].scanned + n
        /\ worker[w].left + job[j].scanned = MaxMessages
    BY <1>1, PageEffect DEF n
  <2> QED
    BY <2>1, <2>2, <2>3
<1>2. CASE \E j \in Jobs : Claim(w, j)
  <2>1. PICK j \in Jobs : Claim(w, j)
    BY <1>2
  <2>2. /\ worker'[w].job = j /\ worker'[w].off = job[j].cursor
        /\ worker'[w].left = IF job[j].scanned < MaxMessages
                             THEN MaxMessages - job[j].scanned ELSE 0
    BY <2>1 DEF Claim, Become, ResumeOffset, IdleWorker, TypeInv, TypeOK, WorkerType
  <2>3. job'[j].cursor = job[j].cursor /\ job'[j].scanned = job[j].scanned
    BY <2>1 DEF Claim, TypeInv, TypeOK, JobType
  <2>4. job[j].scanned \in Nat /\ job[j].scanned <= MaxMessages
    BY DEF TypeInv, TypeOK, JobType, QuotaRespected
  <2> QED
    BY <2>2, <2>3, <2>4
<1>3. CASE ~PersistPage(w) /\ ~\E j \in Jobs : Claim(w, j)
  <2> DEFINE j == worker[w].job
  <2>1. /\ worker[w].pc \in Scanning /\ worker'[w].job = j
        /\ worker'[w].off = worker[w].off /\ worker'[w].left = worker[w].left
    BY <1>3, ScannerSteps
  <2>2. j \in Jobs
    BY <2>1 DEF TypeInv, WorkersOK, WorkerOK, Scanning
  <2>3. job'[j].owner = w /\ job'[j].state \in LeasedStates
    BY <2>1 DEF Owns, Lease
  <2>4. JobChange(j)
    BY <2>2, JobSteps
  <2>5. CASE job'[j] = job[j]
    <3>1. Owns(w)
      BY <2>3, <2>5 DEF Owns, Lease
    <3> QED
      BY <2>1, <2>5, <3>1 DEF ScannerInStep, Lease, Scanning
  <2>6. CASE Creates(j) \/ Pends(j) \/ Ends(j)
    BY <2>3, <2>6 DEF Creates, Pends, Ends, NoLease, LeasedStates, TerminalStates
  <2>7. CASE Claims(j)
    BY <2>1, <2>3, <2>7 DEF Claims, Scanning
  <2>8. CASE Keeps(j)
    <3>1. Owns(w)
      BY <2>3, <2>8 DEF Keeps, Owns, Lease, LeasedStates
    <3> QED
      BY <2>1, <2>8, <3>1 DEF Keeps, SameProgress, ScannerInStep, Lease, Scanning
  <2>9. CASE Advances(j)
    <3>1. PICK v \in Workers : PersistPage(v) /\ j = worker[v].job
      BY <2>9 DEF Advances
    <3>2. job[j].owner = v /\ job'[j].owner = job[j].owner
      BY <2>9, <3>1, PageEffect DEF Advances
    <3> QED
      BY <1>3, <2>3, <3>1, <3>2
  <2> QED
    BY <2>4, <2>5, <2>6, <2>7, <2>8, <2>9 DEF JobChange
<1> QED
  BY <1>1, <1>2, <1>3

IInv == TypeInv /\ LeaseInv

LEMMA Inductive == Spec => []IInv
<1>1. Init => IInv
  BY InitTyped, LeaseInit DEF IInv
<1>2. IInv /\ [Next]_vars => IInv'
  BY TypeStep, OneActiveStep, LeaseMatchesStep, ScannerStep, QuotaStep DEF IInv, LeaseInv
<1> QED
  BY <1>1, <1>2, PTL DEF Spec

\* At most one scan of the account is active, for any number of jobs, workers
\* and requests.
THEOREM OneScanAtATime == Spec => []OneActiveJob
BY Inductive, PTL DEF IInv, LeaseInv

\* A lease exists exactly for the running and stopping jobs, and a stopping job
\* carries its request, whatever crashes and however late statements arrive.
THEOREM LeasesMatchStates == Spec => []LeaseMatchesState
BY Inductive, PTL DEF IInv, LeaseInv

\* The cursor and the quota that a scanner took at its claim are those of the
\* row for as long as its worker owns the lease.
THEOREM ScannersInStep == Spec => []ScannerInStep
BY Inductive, PTL DEF IInv, LeaseInv

\* No sequence of slices, crashes and reclaims imports more than max_messages.
THEOREM QuotaHolds == Spec => []QuotaRespected
BY Inductive, PTL DEF IInv, LeaseInv

\* The cursor of a job only moves to older messages.
THEOREM CursorOnlyDescends == Spec => CursorDescends
<1>1. IInv /\ [Next]_vars =>
        [\A j \in Jobs :
           job[j].state # "none" /\ job[j].cursor # 0 /\ job'[j].cursor # job[j].cursor
           => job'[j].cursor # 0 /\ job'[j].cursor < job[j].cursor]_vars
  <2> SUFFICES ASSUME IInv, [Next]_vars, NEW j \in Jobs, job[j].state # "none",
                      job[j].cursor # 0, job'[j].cursor # job[j].cursor
               PROVE  job'[j].cursor # 0 /\ job'[j].cursor < job[j].cursor
    OBVIOUS
  <2>1. JobChange(j)
    BY JobSteps DEF IInv
  <2>2. Advances(j)
    BY <2>1 DEF JobChange, Creates, Claims, Keeps, Pends, Ends, SameProgress
  <2>3. PICK w \in Workers : PersistPage(w) /\ j = worker[w].job
    BY <2>2 DEF Advances
  <2>4. worker[w].off = job[j].cursor /\ job'[j].cursor = worker[w].next
    BY <2>3, PageEffect DEF IInv, LeaseInv
  <2>5. worker[w].next \in Ids /\ (worker[w].off # 0 => worker[w].next < worker[w].off)
    BY <2>3 DEF PersistPage, IInv, TypeInv, WorkersOK, WorkerOK
  <2> QED
    BY <2>4, <2>5 DEF Ids
<1> QED
  BY <1>1, Inductive, PTL DEF Spec, CursorDescends

-----------------------------------------------------------------------------
(***************************************************************************)
(* What scans do to the local copy of the Saved Messages.                  *)
(*                                                                         *)
(* The first part holds whatever DelayedStatements is: the login, and      *)
(* whose markers the rows carry.  The second assumes that no statement     *)
(* arrives after the lease its "now" found live has expired: a replacement *)
(* then never deletes a message that was there all along.                  *)
(***************************************************************************)

-----------------------------------------------------------------------------
(* The login.                                                               *)

\* How a step changes the connection: it takes it down, starts a new login
\* with every scan cancelled, or keeps the generation.
LEMMA ConnSteps ==
  ASSUME TypeInv, [Next]_vars
  PROVE  \/ conn'.state = "down"
         \/ conn'.sess = conn'.gen /\ \A j \in Jobs : ~Active(j)'
         \/ /\ conn'.gen = conn.gen /\ conn.state # "down"
            /\ conn'.sess \in {conn.sess, conn.gen}
         \/ conn' = conn
<1>t. conn \in [state : {"connected", "pending", "down"}, gen : Nat, sess : Nat]
  BY DEF TypeInv, TypeOK
<1>1. CASE RequestCode
  <2>1. \A j \in Jobs : ~Active(j)'
    <3>1. SUFFICES ASSUME NEW j \in Jobs PROVE job'[j].state \notin ActiveStates
      BY DEF Active
    <3>2. CASE j \in ActiveJobs
      <4>1. job'[j] = [Ended(j, "cancelled") EXCEPT !.stop = TRUE] /\ job[j] \in JobType
        BY <1>1, <3>2 DEF RequestCode, CancelScans, TypeInv, TypeOK
      <4>2. job'[j].state = "cancelled"
        BY <4>1 DEF Ended, JobType
      <4> QED
        BY <4>2 DEF ActiveStates
    <3>3. CASE j \notin ActiveJobs
      BY <1>1, <3>3 DEF RequestCode, CancelScans, ActiveJobs, Active
    <3> QED
      BY <3>2, <3>3
  <2> QED
    BY <1>1, <1>t, <2>1 DEF RequestCode
<1>2. CASE Disconnect \/ StartInvalidatesConnection
  BY <1>2 DEF Disconnect, StartInvalidatesConnection
<1>3. CASE Verify
  BY <1>3, <1>t DEF Verify
<1>4. CASE \E w \in Workers : EraseConnection(w) \/ Downgrade(w)
  BY <1>4 DEF EraseConnection, Downgrade
<1>5. CASE \E w \in Workers : SaveSession(w)
  BY <1>5, <1>t DEF SaveSession, ConnectionMatches
<1>6. CASE UNCHANGED conn
  BY <1>6
<1> QED
  BY <1>1, <1>2, <1>3, <1>4, <1>5, <1>6
  DEF Next, vars, UserStep, WorkerStep, Environment, StartCreate, StartReadsExpiredStop,
      Stop, StartOverwritesExpiredStop, SweepMarkers, SweepJobs, Claim, ClaimCancels,
      Renew, LoseLease, Fail, SliceTimeout, QuotaGone, ReadConnection, Authorized,
      StopsHere, Fetch, PersistPage, ConnectionLost, Dispose, FinalizeFailed, Finalize,
      RequeueMarkers, RequeueJob, DispositionFails, ReleaseJob, Crash, ReleaseMarkers,
      Expire, SpendRuntime, Arrive, Vanish

LoginInv == SessionIsCurrent /\ ActiveJobUsesCurrentLogin

LEMMA LoginStep ==
  ASSUME IInv, LoginInv, [Next]_vars
  PROVE  LoginInv'
<1>1. SessionIsCurrent'
  BY ConnSteps DEF IInv, LoginInv, SessionIsCurrent
<1>2. ASSUME NEW j \in Jobs, Active(j)', conn'.state # "down"
      PROVE  job'[j].gen = conn'.gen
  <2>1. JobChange(j)
    BY JobSteps DEF IInv
  <2>2. CASE Creates(j)
    BY <2>2 DEF Creates
  <2>3. CASE ~Creates(j)
    <3>1. job'[j].gen = job[j].gen /\ Active(j)
      <4>1. CASE Advances(j)
        BY <1>2, <4>1 DEF Advances, SameJob, Active
      <4>2. CASE ~Advances(j)
        BY <1>2, <2>1, <2>3, <4>2
        DEF JobChange, Claims, Keeps, Pends, Ends, SameJob, Active, ActiveStates,
            LeasedStates, TerminalStates
      <4> QED
        BY <4>1, <4>2
    <3>2. conn'.gen = conn.gen /\ conn.state # "down"
      BY <1>2, ConnSteps DEF IInv
    <3> QED
      BY <3>1, <3>2 DEF LoginInv, ActiveJobUsesCurrentLogin, ActiveJobs
  <2> QED
    BY <2>2, <2>3
<1> QED
  BY <1>1, <1>2 DEF LoginInv, ActiveJobUsesCurrentLogin, ActiveJobs, Active

LEMMA LoginInvariant == Spec => []LoginInv
<1>1. Init => LoginInv
  BY DEF Init, LoginInv, SessionIsCurrent, ActiveJobUsesCurrentLogin, ActiveJobs, Active,
         ActiveStates, NewJob
<1>2. IInv /\ LoginInv /\ [Next]_vars => LoginInv'
  BY LoginStep
<1> QED
  BY <1>1, <1>2, Inductive, PTL DEF Spec

\* A slow worker never stores the session of a login that was replaced.
THEOREM SessionsAreCurrent == Spec => []SessionIsCurrent
BY LoginInvariant, PTL DEF LoginInv

\* A login is never replaced without cancelling the scans bound to it.
THEOREM JobsUseTheCurrentLogin == Spec => []ActiveJobUsesCurrentLogin
BY LoginInvariant, PTL DEF LoginInv
-----------------------------------------------------------------------------
(* The ways in which a step changes a row of messages.                      *)

USE MarkAssumption

StaysActive(j) == job'[j].state \in ActiveStates

\* The job that marked the row ends in this step, or has ended before.
ClearedAtEnd(m) ==
    /\ row[m] \in Jobs /\ row'[m] = Unmarked
    /\ ~StaysActive(row[m]) \/ \E replace \in BOOLEAN : StartCreate(row[m], replace)

\* The second statement of a transaction commits the row that the first locked.
ClearedAtCommit(m) ==
    /\ row'[m] = Unmarked
    /\ \E w \in Workers : /\ m \in worker[w].rows
                          /\ SweepJobs(w) \/ RequeueJob(w) \/ ReleaseJob(w)

Paged(m) ==
    \E w \in Workers : /\ PersistPage(w) /\ m \in worker[w].page
                       /\ row'[m] = IF Lease(w).replace THEN Mine(w)
                                    ELSE IF row[m] = Absent THEN Unmarked ELSE row[m]

Pruned(m) ==
    /\ row'[m] = Absent
    /\ \E w \in Workers : /\ Dispose(w) /\ worker[w].out = "exhausted" /\ FenceThen(w)
                          /\ Lease(w).replace /\ row[m] # Mine(w) /\ ~StaysActive(Mine(w))

RowChange(m) ==
    row'[m] = row[m] \/ ClearedAtEnd(m) \/ ClearedAtCommit(m) \/ Paged(m) \/ Pruned(m)

LEMMA EndedIsOver ==
  ASSUME TypeInv, NEW j \in Jobs, NEW s \in TerminalStates,
         job'[j] \in {Ended(j, s), [Ended(j, s) EXCEPT !.stop = TRUE]}
  PROVE  ~StaysActive(j)
<1>1. job[j] \in JobType
  BY DEF TypeInv, TypeOK
<1>2. job'[j].state = s
  <2>1. CASE job'[j] = Ended(j, s)
    BY <1>1, <2>1 DEF Ended, JobType
  <2>2. CASE job'[j] = [Ended(j, s) EXCEPT !.stop = TRUE]
    BY <1>1, <2>2 DEF Ended, JobType
  <2> QED
    BY <2>1, <2>2
<1> QED
  BY <1>2 DEF StaysActive, ActiveStates, TerminalStates

LEMMA ClearingRows ==
  ASSUME TypeInv, NEW S \in SUBSET Jobs, row' = ClearMarkers(S), NEW m \in Ids,
         \A j \in S : row[m] = j => ~StaysActive(j) \/ \E replace \in BOOLEAN : StartCreate(j, replace)
  PROVE  row'[m] = row[m] \/ ClearedAtEnd(m)
BY DEF ClearMarkers, Unmark, Marked, ClearedAtEnd

LEMMA CancelledRows ==
  ASSUME TypeInv, NEW S \in SUBSET Jobs, CancelScans(S), NEW m \in Ids
  PROVE  row'[m] = row[m] \/ ClearedAtEnd(m)
<1>1. \A j \in S : ~StaysActive(j)
  <2> SUFFICES ASSUME NEW j \in S PROVE ~StaysActive(j)
    OBVIOUS
  <2>1. job'[j] = [Ended(j, "cancelled") EXCEPT !.stop = TRUE]
    BY DEF CancelScans
  <2> QED
    BY <2>1, EndedIsOver DEF TerminalStates
<1> QED
  BY <1>1, ClearingRows DEF CancelScans

LEMMA UserRows ==
  ASSUME TypeInv, UserStep, NEW m \in Ids
  PROVE  RowChange(m)
<1>t. job \in [Jobs -> JobType] /\ "cancelled" \in TerminalStates
  BY DEF TypeInv, TypeOK, TerminalStates
<1>1. ASSUME NEW j \in Jobs, NEW replace \in BOOLEAN, StartCreate(j, replace)
      PROVE  RowChange(m)
  <2>1. CASE replace
    <3>1. \A i \in Jobs : ~StaysActive(i) \/ StartCreate(i, replace)
      BY <1>1, <1>t DEF StartCreate, NoScanActive, ActiveJobs, Active, StaysActive
    <3>2. row' = ClearMarkers(Jobs)
      BY <1>1, <2>1 DEF StartCreate, MarkersAtStart
    <3> QED
      BY <3>1, <3>2, ClearingRows DEF RowChange
  <2>2. CASE ~replace
    BY <1>1, <2>2 DEF StartCreate, MarkersAtStart, RowChange
  <2> QED
    BY <2>1, <2>2
<1>2. ASSUME NEW j \in Jobs, Stop(j) PROVE RowChange(m)
  <2>1. CASE job[j].state = "pending" \/ ~job[j].live
    <3>1. ~StaysActive(j)
      BY <1>2, <1>t, <2>1, EndedIsOver DEF Stop
    <3>2. row' = ClearMarkers({j}) \/ row' = row
      BY <1>2, <2>1 DEF Stop
    <3> QED
      BY <3>1, <3>2, ClearingRows DEF RowChange
  <2>2. CASE ~(job[j].state = "pending" \/ ~job[j].live)
    BY <1>2, <2>2 DEF Stop, RowChange
  <2> QED
    BY <2>1, <2>2
<1>3. CASE StartOverwritesExpiredStop
  <2>1. starter \in Jobs
    BY <1>3 DEF StartOverwritesExpiredStop, TypeInv, TypeOK
  <2>2. ~StaysActive(starter)
    BY <1>3, <1>t, <2>1, EndedIsOver DEF StartOverwritesExpiredStop
  <2>3. row' = ClearMarkers({starter}) \/ row' = row
    BY <1>3 DEF StartOverwritesExpiredStop
  <2>4. \A j \in {starter} : ~StaysActive(j)
    BY <2>2
  <2> QED
    BY <2>1, <2>3, <2>4, ClearingRows DEF RowChange
<1>4. CASE Disconnect \/ RequestCode
  BY <1>4, CancelledRows DEF Disconnect, RequestCode, ActiveJobs, RowChange
<1>5. CASE row' = row
  BY <1>5 DEF RowChange
<1> QED
  BY <1>1, <1>2, <1>3, <1>4, <1>5
  DEF UserStep, StartReadsExpiredStop, StartInvalidatesConnection, Verify

LEMMA FinalizeRows ==
  ASSUME TypeInv, NEW w \in Workers, Mine(w) \in Jobs, NEW m \in Ids,
         NEW s \in TerminalStates, NEW reason, Finalize(w, s, reason),
         Prunes(s, reason) => Dispose(w) /\ worker[w].out = "exhausted"
  PROVE  RowChange(m)
<1> DEFINE j == Mine(w)
<1>1. CASE ~FenceThen(w) \/ ~job[j].replace
  BY <1>1 DEF Finalize, RowChange
<1>2. CASE FenceThen(w) /\ job[j].replace
  <2>1. job'[j] = Ended(j, s)
    BY <1>2 DEF Finalize, TypeInv, TypeOK
  <2>2. ~StaysActive(j)
    BY <2>1, EndedIsOver
  <2>3. row'[m] = IF row[m] = j THEN Unmarked
                  ELSE IF Prunes(s, reason) THEN Absent ELSE row[m]
    BY <1>2 DEF Finalize
  <2>4. CASE row[m] = j
    BY <2>2, <2>3, <2>4 DEF RowChange, ClearedAtEnd
  <2>5. CASE row[m] # j /\ Prunes(s, reason)
    BY <1>2, <2>2, <2>3, <2>5 DEF RowChange, Pruned, Lease, Mine
  <2> QED
    BY <2>3, <2>4, <2>5 DEF RowChange
<1> QED
  BY <1>1, <1>2

LEMMA WorkerRows ==
  ASSUME TypeInv, NEW w \in Workers, WorkerStep(w), NEW m \in Ids
  PROVE  RowChange(m)
<1>t. job \in [Jobs -> JobType] /\ "cancelled" \in TerminalStates
  BY DEF TypeInv, TypeOK, TerminalStates
<1>j. worker[w].pc # "idle" => Mine(w) \in Jobs
  BY DEF TypeInv, WorkersOK, WorkerOK, Mine
<1>1. CASE SweepJobs(w) \/ RequeueJob(w) \/ ReleaseJob(w)
  <2>1. row' = Unmark(worker[w].rows)
    BY <1>1 DEF SweepJobs, RequeueJob, ReleaseJob
  <2> QED
    BY <1>1, <2>1 DEF Unmark, RowChange, ClearedAtCommit
<1>2. ASSUME NEW j \in Jobs, ClaimCancels(w, j) PROVE RowChange(m)
  <2>1. ~StaysActive(j)
    <3>1. CASE ExpiredStop(j)
      <4>1. job'[j] = Ended(j, "cancelled")
        BY <1>2, <1>t, <3>1 DEF ClaimCancels
      <4> QED
        BY <1>t, <4>1, EndedIsOver
    <3>2. CASE ~ExpiredStop(j)
      BY <1>2, <3>2 DEF ClaimCancels, StaysActive, ActiveStates
    <3> QED
      BY <3>1, <3>2
  <2> QED
    BY <1>2, <2>1, ClearingRows DEF ClaimCancels, RowChange
<1>3. CASE Downgrade(w)
  <2>1. CASE UNCHANGED row
    BY <2>1 DEF RowChange
  <2>2. CASE ~UNCHANGED row
    <3>1. CancelScans({j \in ActiveJobs : job[j].gen = Lease(w).gen})
      BY <1>3, <2>2 DEF Downgrade
    <3> QED
      BY <3>1, CancelledRows DEF ActiveJobs, RowChange
  <2> QED
    BY <2>1, <2>2
<1>4. CASE PersistPage(w)
  BY <1>4 DEF PersistPage, Paged, RowChange, Mine
<1>5. CASE Dispose(w)
  <2>1. CASE worker[w].out = "stopped"
    BY <1>5, <1>t, <1>j, <2>1, FinalizeRows DEF Dispose, Prunes
  <2>2. CASE worker[w].out # "stopped"
    <3> DEFINE reason == IF worker[w].out = "slice" THEN "runtime" ELSE worker[w].out
    <3>1. Finalize(w, "completed", reason)
      BY <1>5, <2>2 DEF Dispose
    <3>2. Prunes("completed", reason) => worker[w].out = "exhausted"
      BY DEF Prunes
    <3>3. "completed" \in TerminalStates /\ Mine(w) \in Jobs
      BY <1>5, <1>j DEF Dispose, TerminalStates
    <3> HIDE DEF reason
    <3> QED
      BY <1>5, <3>1, <3>2, <3>3, FinalizeRows
  <2> QED
    BY <2>1, <2>2
<1>6. CASE FinalizeFailed(w)
  <2>1. "failed" \in TerminalStates
    BY DEF TerminalStates
  <2> QED
    BY <1>6, <1>j, <2>1, FinalizeRows DEF FinalizeFailed, Prunes
<1>7. CASE row' = row
  BY <1>7 DEF RowChange
<1> QED
  BY <1>1, <1>2, <1>3, <1>4, <1>5, <1>6, <1>7
  DEF WorkerStep, SweepMarkers, Claim, Renew, LoseLease, Fail, SliceTimeout, QuotaGone,
      ReadConnection, EraseConnection, Authorized, StopsHere, Fetch, ConnectionLost,
      SaveSession, RequeueMarkers, DispositionFails

LEMMA RowSteps ==
  ASSUME TypeInv, [Next]_vars, NEW m \in Ids
  PROVE  RowChange(m)
<1>1. CASE Environment \/ UNCHANGED vars
  BY <1>1 DEF Environment, vars, Crash, ReleaseMarkers, Expire, SpendRuntime, Arrive,
              Vanish, RowChange
<1> QED
  BY <1>1, UserRows, WorkerRows DEF Next
-----------------------------------------------------------------------------
(* Markers.                                                                 *)

\* Only a replacement marks rows, on top of MarkersAreOfTheRunningJob.
MarkerInv ==
    \A m \in Ids, j \in Jobs :
      row[m] = j => /\ job[j].replace
                    /\ job[j].state \notin {"completed", "failed", "none"}
                    /\ \A i \in ActiveJobs : job[i].replace => i = j

LEMMA MarkerStep ==
  ASSUME IInv, MarkerInv, [Next]_vars, OneActiveJob'
  PROVE  MarkerInv'
<1> SUFFICES ASSUME NEW m \in Ids, NEW j \in Jobs, row'[m] = j
             PROVE  /\ job'[j].replace
                    /\ job'[j].state \notin {"completed", "failed", "none"}
                    /\ \A i \in Jobs : StaysActive(i) /\ job'[i].replace => i = j
  BY DEF MarkerInv, ActiveJobs, Active, StaysActive
<1>1. TypeInv /\ JobChange(j) /\ job[j] \in JobType
  BY JobSteps DEF IInv, TypeInv, TypeOK
<1>2. ASSUME NEW w \in Workers, PersistPage(w), j = Mine(w), Lease(w).replace
      PROVE  /\ job'[j].replace /\ job'[j].state \in LeasedStates
  <2>1. job[j].state \in LeasedStates
    BY <1>2 DEF PersistPage, FenceNow, Owns, Lease, Mine
  <2>2. job'[j].replace = job[j].replace /\ job'[j].state = job[j].state
    BY <1>1, <1>2 DEF PersistPage, Mine, JobType, TypeInv, TypeOK
  <2> QED
    BY <1>2, <2>1, <2>2 DEF Lease, Mine
<1>3. CASE row[m] # j
  <2>1. PICK w \in Workers : PersistPage(w) /\ j = Mine(w) /\ Lease(w).replace
    BY <1>1, <1>3, RowSteps DEF RowChange, ClearedAtEnd, ClearedAtCommit, Paged, Pruned
  <2>2. job'[j].replace /\ job'[j].state \in LeasedStates
    BY <1>2, <2>1
  <2> QED
    BY <2>2 DEF OneActiveJob, ActiveJobs, Active, StaysActive, ActiveStates, LeasedStates
<1>4. CASE row[m] = j
  <2>1. /\ job[j].replace
        /\ job[j].state \notin {"completed", "failed", "none"}
        /\ \A i \in ActiveJobs : job[i].replace => i = j
    BY <1>4 DEF MarkerInv
  <2>2. ~Creates(j) /\ job'[j].replace
    <3>1. CASE Advances(j)
      BY <2>1, <3>1 DEF Advances, Creates, SameJob
    <3>2. CASE ~Advances(j)
      BY <1>1, <2>1, <3>2 DEF JobChange, Creates, Claims, Keeps, Pends, Ends, SameJob
    <3> QED
      BY <3>1, <3>2
  <2>3. ASSUME NEW w \in Workers, Dispose(w) \/ FinalizeFailed(w), j = Mine(w), FenceThen(w)
        PROVE  FALSE
    <3>1. \E s, reason : Finalize(w, s, reason)
      BY <2>3 DEF Dispose, FinalizeFailed
    <3>2. row'[m] = Unmarked
      BY <1>4, <2>1, <2>3, <3>1 DEF Finalize
    <3> QED
      BY <3>2
  <2>4. job'[j].state \notin {"completed", "failed", "none"}
    <3>1. CASE Ends(j)
      BY <2>3, <3>1 DEF Ends, MayEnd, TerminalStates
    <3>2. CASE Advances(j)
      BY <2>1, <3>2 DEF Advances
    <3>3. CASE ~Ends(j) /\ ~Advances(j)
      BY <1>1, <2>1, <2>2, <3>3 DEF JobChange, Claims, Keeps, Pends, LeasedStates
    <3> QED
      BY <3>1, <3>2, <3>3
  <2>5. ASSUME NEW i \in Jobs, StaysActive(i), job'[i].replace
        PROVE  i = j
    <3>1. JobChange(i)
      BY <1>1, JobSteps
    <3>2. CASE Creates(i)
      <4>1. row' = ClearMarkers(Jobs)
        BY <2>5, <3>2 DEF Creates, StartCreate, MarkersAtStart
      <4> QED
        BY <4>1, <1>4 DEF ClearMarkers, Unmark, Marked
    <3>3. CASE Advances(i)
      BY <2>1, <2>5, <3>3 DEF Advances, SameJob, ActiveJobs, Active, StaysActive
    <3>4. CASE ~Creates(i) /\ ~Advances(i)
      BY <2>1, <2>5, <3>1, <3>4
      DEF JobChange, Claims, Keeps, Pends, Ends, SameJob, ActiveJobs, Active, StaysActive,
          ActiveStates, LeasedStates, TerminalStates
    <3> QED
      BY <3>2, <3>3, <3>4
  <2> QED
    BY <2>2, <2>4, <2>5
<1> QED
  BY <1>3, <1>4

LEMMA MarkerInvariant == Spec => []MarkerInv
<1>1. Init => MarkerInv
  BY DEF Init, MarkerInv
<1>2. IInv /\ IInv' /\ MarkerInv /\ [Next]_vars => MarkerInv'
  BY MarkerStep DEF IInv, LeaseInv
<1> QED
  BY <1>1, <1>2, Inductive, PTL DEF Spec

\* While a replacement runs no row carries the marker of another job, and no
\* completed or failed job leaves a marker, however late statements arrive.
THEOREM MarkersBelongToTheRunningJob == Spec => []MarkersAreOfTheRunningJob
<1>1. MarkerInv => MarkersAreOfTheRunningJob
  BY DEF MarkerInv, MarkersAreOfTheRunningJob
<1> QED
  BY <1>1, MarkerInvariant, PTL
-----------------------------------------------------------------------------
(* What a worker does to its own local state.                               *)

\* Why a slice may come out as exhausted.
SeesTheEnd(w) ==
    \/ Fetch(w) /\ Below(worker[w].off) = {}
    \/ PersistPage(w) /\ ~worker[w].more
    \/ SaveSession(w) /\ worker[w].out = "exhausted"

Leaves(w) ==
    \E pc \in {"dispose", "save"} : \E out \in Outcomes :
       /\ worker[w].pc # "idle" /\ Leave(w, pc, out)
       /\ out = "exhausted" => SeesTheEnd(w)

Locks(w) == SweepMarkers(w) \/ RequeueMarkers(w) \/ ReleaseMarkers(w)

TakesPage(w) == Fetch(w) /\ Below(worker[w].off) # {}

NextPage(w) ==
    /\ PersistPage(w)
    /\ \E left \in Int : \E pages \in Nat :
         Become(w, [worker[w] EXCEPT
                 !.pc = "loop", !.page = {}, !.next = 0, !.more = FALSE,
                 !.off = worker[w].next, !.left = left, !.pages = pages])

OwnChange(w) ==
    \/ Idle(w) \/ worker' = worker
    \/ \E j \in Jobs : Claim(w, j)
    \/ Locks(w)
    \/ worker[w].pc # "idle" /\ Raise(w)
    \/ Renew(w)
    \/ worker[w].pc # "idle" /\ \E pc \in {"client", "corrupt", "loop"} : Goto(w, pc)
    \/ TakesPage(w) \/ NextPage(w) \/ Leaves(w)

LEMMA OwnChanges ==
  ASSUME TypeInv, NEW w \in Workers, OwnStep(w)
  PROVE  OwnChange(w)
<1>t. worker[w] \in WorkerType
  BY DEF TypeInv, TypeOK
<1>1. CASE SweepJobs(w) \/ LoseLease(w) \/ ConnectionLost(w) \/ Dispose(w) \/ FinalizeFailed(w)
           \/ RequeueJob(w) \/ ReleaseJob(w) \/ Crash(w)
  BY <1>1 DEF SweepJobs, LoseLease, ConnectionLost, Dispose, FinalizeFailed, Finalize,
              RequeueJob, ReleaseJob, Crash, OwnChange
<1>2. CASE \E j \in Jobs : Claim(w, j) \/ ClaimCancels(w, j)
  BY <1>2 DEF ClaimCancels, OwnChange
<1>3. CASE Locks(w) \/ Renew(w)
  BY <1>3 DEF OwnChange
<1>4. CASE Fail(w) \/ EraseConnection(w) \/ Downgrade(w) \/ DispositionFails(w)
  BY <1>4 DEF Fail, EraseConnection, Downgrade, DispositionFails, Beating, OwnChange
<1>5. CASE SliceTimeout(w) \/ QuotaGone(w) \/ StopsHere(w)
  <2>1. PICK pc \in {"dispose", "save"}, out \in Outcomes :
          worker[w].pc # "idle" /\ Leave(w, pc, out) /\ out # "exhausted"
    BY <1>5 DEF SliceTimeout, QuotaGone, StopsHere, Beating, Outcomes
  <2>2. Leaves(w)
    BY <2>1 DEF Leaves
  <2> QED
    BY <2>2 DEF OwnChange
<1>6. CASE SaveSession(w)
  <2>1. Leave(w, "dispose", worker[w].out) /\ worker[w].pc # "idle" /\ worker[w].out \in Outcomes
    BY <1>6, <1>t DEF SaveSession, WorkerType
  <2>2. Leaves(w)
    BY <1>6, <2>1 DEF Leaves, SeesTheEnd
  <2> QED
    BY <2>2 DEF OwnChange
<1>7. CASE ReadConnection(w)
  BY <1>7 DEF ReadConnection, OwnChange
<1>8. CASE Authorized(w)
  <2>1. CASE Goto(w, "loop")
    BY <1>8, <2>1 DEF Authorized, OwnChange
  <2>2. CASE Leave(w, "dispose", "runtime")
    <3>1. Leaves(w)
      BY <1>8, <2>2 DEF Authorized, Leaves, Outcomes
    <3> QED
      BY <3>1 DEF OwnChange
  <2> QED
    BY <1>8, <2>1, <2>2 DEF Authorized
<1>9. CASE Fetch(w)
  <2>1. CASE Below(worker[w].off) = {}
    <3>1. Leave(w, "save", "exhausted") /\ worker[w].pc # "idle"
      BY <1>9, <2>1 DEF Fetch
    <3>2. Leaves(w)
      BY <1>9, <2>1, <3>1 DEF Leaves, SeesTheEnd, Outcomes
    <3> QED
      BY <3>2 DEF OwnChange
  <2>2. CASE Below(worker[w].off) # {}
    BY <1>9, <2>2 DEF TakesPage, OwnChange
  <2> QED
    BY <2>1, <2>2
<1>10. CASE PersistPage(w)
  <2>1. CASE worker[w].cut
    <3>1. Leaves(w)
      BY <1>10, <2>1 DEF PersistPage, Leaves, Outcomes
    <3> QED
      BY <3>1 DEF OwnChange
  <2>2. CASE ~worker[w].cut /\ ~worker[w].more
    <3>1. Leaves(w)
      BY <1>10, <2>2 DEF PersistPage, Leaves, Outcomes, SeesTheEnd
    <3> QED
      BY <3>1 DEF OwnChange
  <2>3. CASE ~worker[w].cut /\ worker[w].more
    <3> DEFINE left == worker[w].left - Cardinality(worker[w].page)
    <3>1. left \in Int
      <4>1. worker[w].left \in Nat /\ IsFiniteSet(worker[w].page)
        BY <1>10, <1>t DEF PersistPage, TypeInv, WorkersOK, WorkerOK, WorkerType
      <4>2. Cardinality(worker[w].page) \in Nat
        BY <4>1, FS_CardinalityType
      <4> QED
        BY <4>1, <4>2
    <3>2. worker[w].pages + 1 \in Nat
      BY <1>t DEF WorkerType
    <3>3. Become(w, [worker[w] EXCEPT
                 !.pc = "loop", !.page = {}, !.next = 0, !.more = FALSE,
                 !.off = worker[w].next, !.left = left, !.pages = worker[w].pages + 1])
      BY <1>10, <2>3 DEF PersistPage
    <3> HIDE DEF left
    <3>4. NextPage(w)
      BY <1>10, <3>1, <3>2, <3>3 DEF NextPage
    <3> QED
      BY <3>4 DEF OwnChange
  <2> QED
    BY <2>1, <2>2, <2>3
<1> QED
  BY <1>1, <1>2, <1>3, <1>4, <1>5, <1>6, <1>7, <1>8, <1>9, <1>10
  DEF OwnStep, WorkerStep, Locks

\* The fields of the local state after a step: who works on which job, ...
JobKept(w) ==
    /\ worker[w].pc # "idle" /\ worker'[w].pc # "idle"
    /\ worker'[w].job = worker[w].job

Restarts(w) ==
    \E j \in Jobs : /\ Claim(w, j) \/ (SweepMarkers(w) /\ ExpiredStop(j))
                    /\ worker'[w].job = j

\* ... and what stays as it is while a worker goes on with its operation.
GoesOn(w) ==
    /\ JobKept(w)
    /\ worker'[w].rows = worker[w].rows /\ worker'[w].late = worker[w].late
    /\ worker'[w].out = worker[w].out /\ worker'[w].page = worker[w].page
    /\ worker'[w].next = worker[w].next /\ worker'[w].more = worker[w].more
    /\ worker'[w].off = worker[w].off

LocalChange(w) ==
    \/ worker'[w] = worker[w]
    \/ worker'[w] = IdleWorker
    \/ GetsLate(w) /\ JobKept(w) /\ worker'[w].pc = worker[w].pc
                   /\ worker'[w].rows = worker[w].rows
    \/ /\ worker'[w].rows = {} /\ ~worker'[w].late
       /\ \/ Restarts(w) /\ worker'[w].pc = "claimed"
          \/ JobKept(w) /\ worker'[w].pc = "fail"
    \/ SweepMarkers(w) /\ Restarts(w) /\ worker'[w].pc = "sweep" /\ ~worker'[w].late
                       /\ worker'[w].rows = Marked({worker'[w].job})
    \/ RequeueMarkers(w) /\ JobKept(w) /\ worker'[w].pc = "requeue"
                         /\ worker'[w].late = worker[w].late
                         /\ worker'[w].rows = MarkersToClear(w, FenceThen(w))
    \/ ReleaseMarkers(w) /\ JobKept(w) /\ worker'[w].pc = "release" /\ ~worker'[w].late
                         /\ worker'[w].rows = MarkersToClear(w, Owns(w))
    \/ Renew(w) /\ JobKept(w) /\ worker'[w] = [worker[w] EXCEPT !.late = FALSE]
    \/ GoesOn(w) /\ worker'[w].pc \in {"client", "corrupt", "loop"}
    \/ TakesPage(w) /\ JobKept(w) /\ worker'[w].pc = "page"
                    /\ worker'[w].rows = worker[w].rows /\ worker'[w].late = worker[w].late
    \/ NextPage(w) /\ JobKept(w) /\ worker'[w].pc = "loop"
                   /\ worker'[w].rows = worker[w].rows /\ worker'[w].late = worker[w].late
    \/ /\ JobKept(w) /\ worker'[w].pc \in {"dispose", "save"} /\ worker'[w].rows = {}
       /\ worker'[w].late = worker[w].late
       /\ worker'[w].out = "exhausted" => SeesTheEnd(w)

LEMMA LocalSteps ==
  ASSUME TypeInv, [Next]_vars, NEW w \in Workers
  PROVE  LocalChange(w)
<1>t. worker \in [Workers -> WorkerType]
  BY DEF TypeInv, TypeOK
<1>b. ASSUME NEW r, Become(w, r) PROVE worker'[w] = r
  BY <1>t, <1>b DEF Become
<1>1. CASE worker'[w] = worker[w]
  BY <1>1 DEF LocalChange
<1>2. CASE GetsLate(w)
  <2>1. worker[w].pc # "idle"
    BY <1>2 DEF GetsLate, Holds, Working, Beating
  <2>2. /\ worker'[w].pc = worker[w].pc /\ worker'[w].job = worker[w].job
        /\ worker'[w].rows = worker[w].rows
    BY <1>2, <1>t DEF GetsLate, WorkerType
  <2> QED
    BY <1>2, <2>1, <2>2 DEF JobKept, LocalChange
<1>3. CASE Idle(w)
  BY <1>3, <1>b DEF Idle, LocalChange
<1>4. ASSUME NEW j \in Jobs, Claim(w, j) PROVE LocalChange(w)
  <2>1. worker'[w].pc = "claimed" /\ worker'[w].job = j /\ worker'[w].rows = {} /\ ~worker'[w].late
    BY <1>4, <1>b DEF Claim, IdleWorker
  <2> QED
    BY <1>4, <2>1 DEF LocalChange, Restarts
<1>5. CASE SweepMarkers(w)
  <2>1. PICK j \in Jobs : ExpiredStop(j) /\ Become(w, [IdleWorker EXCEPT !.pc = "sweep", !.job = j,
                                                       !.rows = Marked({j})])
    BY <1>5 DEF SweepMarkers
  <2>2. /\ worker'[w].pc = "sweep" /\ worker'[w].job = j
        /\ worker'[w].rows = Marked({j}) /\ ~worker'[w].late
    BY <1>b, <2>1 DEF IdleWorker
  <2> QED
    BY <1>5, <2>1, <2>2 DEF LocalChange, Restarts
<1>6. CASE RequeueMarkers(w)
  <2> DEFINE rows == MarkersToClear(w, FenceThen(w))
  <2>1. Become(w, [IdleWorker EXCEPT !.pc = "requeue", !.job = Mine(w), !.rows = rows,
                                     !.late = worker[w].late])
    BY <1>6 DEF RequeueMarkers
  <2> HIDE DEF rows
  <2>2. /\ worker'[w].pc = "requeue" /\ worker'[w].job = worker[w].job
        /\ worker'[w].rows = rows /\ worker'[w].late = worker[w].late
    BY <1>b, <2>1 DEF IdleWorker, Mine
  <2>3. JobKept(w)
    BY <1>6, <2>2 DEF RequeueMarkers, JobKept
  <2> QED
    BY <1>6, <2>2, <2>3 DEF LocalChange, rows
<1>7. CASE ReleaseMarkers(w)
  <2> DEFINE rows == MarkersToClear(w, Owns(w))
  <2>1. Become(w, [IdleWorker EXCEPT !.pc = "release", !.job = Mine(w), !.rows = rows])
    BY <1>7 DEF ReleaseMarkers
  <2> HIDE DEF rows
  <2>2. /\ worker'[w].pc = "release" /\ worker'[w].job = worker[w].job
        /\ worker'[w].rows = rows /\ ~worker'[w].late
    BY <1>b, <2>1 DEF IdleWorker, Mine
  <2>3. JobKept(w)
    BY <1>7, <2>2 DEF ReleaseMarkers, JobKept, Working, Beating
  <2> QED
    BY <1>7, <2>2, <2>3 DEF LocalChange, rows
<1>8. CASE worker[w].pc # "idle" /\ Raise(w)
  <2>1. /\ worker'[w].pc = "fail" /\ worker'[w].job = worker[w].job
        /\ worker'[w].rows = {} /\ ~worker'[w].late
    BY <1>8, <1>b DEF Raise, IdleWorker
  <2> QED
    BY <1>8, <2>1 DEF LocalChange, JobKept
<1>9. CASE Renew(w)
  <2>1. worker'[w] = [worker[w] EXCEPT !.late = FALSE] /\ worker[w].pc # "idle"
    BY <1>9, <1>b DEF Renew, Beating
  <2>2. JobKept(w)
    BY <1>t, <2>1 DEF JobKept, WorkerType
  <2> QED
    BY <1>9, <2>1, <2>2 DEF LocalChange
<1>10. ASSUME worker[w].pc # "idle", NEW pc \in {"client", "corrupt", "loop"}, Goto(w, pc)
       PROVE  LocalChange(w)
  <2>1. worker'[w] = [worker[w] EXCEPT !.pc = pc]
    BY <1>10, <1>b DEF Goto
  <2>2. GoesOn(w) /\ worker'[w].pc = pc
    BY <1>t, <1>10, <2>1 DEF GoesOn, JobKept, WorkerType
  <2> QED
    BY <2>2 DEF LocalChange
<1>11. CASE TakesPage(w)
  <2>1. PICK next, page, more, cut :
          Become(w, [worker[w] EXCEPT !.pc = "page", !.page = page, !.next = next,
                                      !.more = more, !.cut = cut])
    BY <1>11 DEF TakesPage, Fetch
  <2>a. worker'[w] = [worker[w] EXCEPT !.pc = "page", !.page = page, !.next = next,
                                       !.more = more, !.cut = cut]
    BY <1>b, <2>1
  <2>2. /\ worker'[w].pc = "page" /\ worker'[w].job = worker[w].job
        /\ worker'[w].rows = worker[w].rows /\ worker'[w].late = worker[w].late
    BY <1>t, <2>a DEF WorkerType
  <2>3. JobKept(w)
    BY <1>11, <2>2 DEF TakesPage, Fetch, JobKept
  <2> QED
    BY <1>11, <2>2, <2>3 DEF LocalChange
<1>12. CASE NextPage(w)
  <2>1. PICK left, pages :
          Become(w, [worker[w] EXCEPT
                 !.pc = "loop", !.page = {}, !.next = 0, !.more = FALSE,
                 !.off = worker[w].next, !.left = left, !.pages = pages])
    BY <1>12 DEF NextPage
  <2>a. worker'[w] = [worker[w] EXCEPT
                      !.pc = "loop", !.page = {}, !.next = 0, !.more = FALSE,
                      !.off = worker[w].next, !.left = left, !.pages = pages]
    BY <1>b, <2>1
  <2>2. /\ worker'[w].pc = "loop" /\ worker'[w].job = worker[w].job
        /\ worker'[w].rows = worker[w].rows /\ worker'[w].late = worker[w].late
    BY <1>t, <2>a DEF WorkerType
  <2>3. JobKept(w)
    BY <1>12, <2>2 DEF NextPage, PersistPage, JobKept
  <2> QED
    BY <1>12, <2>2, <2>3 DEF LocalChange
<1>13. CASE Leaves(w)
  <2>1. PICK pc \in {"dispose", "save"}, out \in Outcomes :
          /\ worker[w].pc # "idle" /\ Leave(w, pc, out)
          /\ out = "exhausted" => SeesTheEnd(w)
    BY <1>13 DEF Leaves
  <2>2. /\ worker'[w].pc = pc /\ worker'[w].job = worker[w].job /\ worker'[w].rows = {}
        /\ worker'[w].late = worker[w].late /\ worker'[w].out = out
    BY <1>b, <2>1 DEF Leave, IdleWorker
  <2>3. JobKept(w)
    BY <2>1, <2>2 DEF JobKept
  <2> QED
    BY <2>1, <2>2, <2>3 DEF LocalChange
<1> QED
  BY <1>1, <1>2, <1>3, <1>4, <1>5, <1>6, <1>7, <1>8, <1>9, <1>10, <1>11, <1>12, <1>13,
     OthersKeep, OwnChanges DEF OwnChange, Locks
-----------------------------------------------------------------------------
(* A job that a worker or a start() has in hand.                            *)

\* A busy worker's job exists; only stopping and ended jobs have a stop
\* requested; a start() overwrites a stop that has expired, or its cancellation.
BusyJobs == \A w \in Workers : worker[w].pc # "idle" => job[worker[w].job].state # "none"
StopsStick == \A j \in Jobs : job[j].stop => job[j].state \in {"stopping"} \union TerminalStates

HandInv == BusyJobs /\ StopsStick

LEMMA HandStep ==
  ASSUME IInv, HandInv, [Next]_vars
  PROVE  HandInv'
<1>1. TypeInv /\ \A j \in Jobs : JobChange(j)
  BY JobSteps DEF IInv
<1>2. ASSUME NEW j \in Jobs, job[j].state # "none" PROVE job'[j].state # "none"
  <2>1. CASE Advances(j)
    BY <1>2, <2>1 DEF Advances
  <2>2. CASE ~Advances(j)
    BY <1>1, <1>2, <2>2 DEF JobChange, Creates, Claims, Keeps, Pends, Ends, LeasedStates,
                            TerminalStates
  <2> QED
    BY <2>1, <2>2
<1>3. ASSUME NEW w \in Workers, worker'[w].pc # "idle"
      PROVE  job'[worker'[w].job].state # "none"
  <2>1. CASE worker'[w] = worker[w] \/ JobKept(w)
    <3>1. worker'[w].job = worker[w].job /\ worker[w].pc # "idle"
      BY <1>3, <2>1 DEF JobKept
    <3>2. worker[w].job \in Jobs
      BY <1>1, <3>1 DEF TypeInv, WorkersOK, WorkerOK
    <3> QED
      BY <1>2, <3>1, <3>2 DEF HandInv, BusyJobs
  <2>2. CASE Restarts(w)
    BY <1>2, <2>2 DEF Restarts, Claim, ExpiredStop
  <2>3. IdleWorker.pc = "idle"
    BY DEF IdleWorker
  <2> QED
    BY <1>1, <1>3, <2>1, <2>2, <2>3, LocalSteps DEF LocalChange, GoesOn
<1>4. ASSUME NEW j \in Jobs, job'[j].stop
      PROVE  job'[j].state \in {"stopping"} \union TerminalStates
  <2>1. job[j].stop => job[j].state \in {"stopping"} \union TerminalStates
    BY DEF HandInv, StopsStick
  <2>2. CASE Advances(j)
    BY <1>4, <2>1, <2>2 DEF Advances
  <2>3. CASE Keeps(j)
    BY <1>4, <2>1, <2>3 DEF Keeps, LeasedStates, TerminalStates
  <2>4. CASE ~Advances(j) /\ ~Keeps(j)
    BY <1>1, <1>4, <2>1, <2>4 DEF JobChange, Creates, Claims, Pends, Ends, TerminalStates,
         Active, ActiveStates
  <2> QED
    BY <2>2, <2>3, <2>4
<1> QED
  BY <1>3, <1>4 DEF HandInv, BusyJobs, StopsStick
-----------------------------------------------------------------------------
(* Statements that are not delayed.                                         *)

\* Only the job statement of a requeue runs on a "now" that may have expired.
OnlyRequeuesLate == \A w \in Workers : worker[w].late => worker[w].pc = "requeue"

LEMMA LateStep ==
  ASSUME TypeInv, OnlyRequeuesLate, ~DelayedStatements, [Next]_vars
  PROVE  OnlyRequeuesLate'
<1> SUFFICES ASSUME NEW w \in Workers, worker'[w].late PROVE worker'[w].pc = "requeue"
  BY DEF OnlyRequeuesLate
<1>1. worker[w].late => worker[w].pc = "requeue"
  BY DEF OnlyRequeuesLate
<1>2. ~IdleWorker.late
  BY DEF IdleWorker
<1>3. CASE GetsLate(w) /\ worker'[w].pc = worker[w].pc
  BY <1>3 DEF GetsLate
<1>4. CASE Renew(w) /\ worker'[w] = [worker[w] EXCEPT !.late = FALSE]
  BY <1>4 DEF TypeInv, TypeOK, WorkerType
<1>5. CASE /\ worker'[w].late = worker[w].late
           /\ worker[w].pc = "requeue" => worker'[w].pc = "requeue"
  BY <1>1, <1>5
<1>6. CASE worker[w].pc = "requeue" /\ worker'[w].pc # "requeue"
  <2>1. worker'[w] # worker[w] /\ ~GetsLate(w) /\ OwnStep(w)
    <3>1. ~GetsLate(w)
      BY <1>6 DEF GetsLate, TypeInv, TypeOK, WorkerType
    <3> QED
      BY <1>6, <3>1, OthersKeep
  <2>2. worker'[w] = IdleWorker \/ ~worker'[w].late
    <3>1. CASE Idle(w)
      BY <3>1 DEF Idle, Become, TypeInv, TypeOK
    <3>2. CASE Raise(w)
      BY <3>2 DEF Raise, Become, IdleWorker, TypeInv, TypeOK
    <3>3. CASE ReleaseMarkers(w)
      BY <3>3 DEF ReleaseMarkers, Become, IdleWorker, TypeInv, TypeOK
    <3>4. CASE \E j \in Jobs : ClaimCancels(w, j)
      BY <1>6, <3>4 DEF ClaimCancels
    <3> QED
      BY <1>6, <2>1, <3>1, <3>2, <3>3, <3>4
      DEF OwnStep, WorkerStep, SweepMarkers, SweepJobs, Claim, Renew, LoseLease, Fail,
          SliceTimeout, QuotaGone, ReadConnection, EraseConnection, Authorized, Downgrade,
          StopsHere, Fetch, PersistPage, ConnectionLost, SaveSession, Dispose,
          FinalizeFailed, RequeueMarkers, RequeueJob, DispositionFails, ReleaseJob, Crash,
          Beating
  <2> QED
    BY <1>2, <2>2
<1> QED
  BY <1>1, <1>2, <1>3, <1>4, <1>5, <1>6, LocalSteps DEF LocalChange, GoesOn

\* A lease that is dead stays dead, and a stopping job whose lease is dead is
\* only ever cancelled.
LEMMA DeadStaysDead ==
  ASSUME IInv, OnlyRequeuesLate, [Next]_vars, NEW j \in Jobs,
         job[j].state = "stopping", ~job[j].live
  PROVE  \/ job'[j].state = "stopping" /\ ~job'[j].live
         \/ job'[j].state = "cancelled"
<1>1. JobChange(j) /\ job[j].stop
  BY JobSteps DEF IInv, LeaseInv, LeaseMatchesState
<1>2. ASSUME NEW w \in Workers, worker[w].late PROVE worker[w].pc = "requeue"
  BY <1>2 DEF OnlyRequeuesLate
<1>3. CASE Keeps(j)
  <2>1. job'[j].state = "stopping"
    BY <1>3 DEF Keeps
  <2>2. ~job'[j].live
    BY <1>2, <1>3 DEF Keeps, Beating
  <2> QED
    BY <2>1, <2>2
<1>4. CASE Ends(j)
  <2>1. ASSUME NEW w \in Workers, Dispose(w) \/ FinalizeFailed(w), j = Mine(w), FenceThen(w)
        PROVE  FALSE
    BY <1>2, <2>1 DEF Dispose, FinalizeFailed, FenceThen, Lease, Mine
  <2> QED
    BY <1>4, <2>1 DEF Ends, MayEnd
<1>5. CASE Advances(j)
  BY <1>5 DEF Advances
<1>6. CASE ~Keeps(j) /\ ~Ends(j) /\ ~Advances(j)
  BY <1>1, <1>6 DEF JobChange, Creates, Claims, Pends
<1> QED
  BY <1>3, <1>4, <1>5, <1>6

\* What start() read is still there to be cancelled, or cancelled already.
StarterInv == starter # NoJob => ExpiredStop(starter) \/ job[starter].state = "cancelled"

LEMMA StarterStep ==
  ASSUME IInv, OnlyRequeuesLate, StarterInv, [Next]_vars
  PROVE  StarterInv'
<1>1. CASE starter' = starter
  <2> SUFFICES ASSUME starter # NoJob
               PROVE  \/ job'[starter].state = "stopping" /\ ~job'[starter].live
                      \/ job'[starter].state = "cancelled"
    BY <1>1 DEF StarterInv, ExpiredStop
  <2>1. starter \in Jobs /\ JobChange(starter)
    BY JobSteps DEF IInv, TypeInv, TypeOK
  <2>2. CASE job[starter].state = "stopping" /\ ~job[starter].live
    BY <2>1, <2>2, DeadStaysDead
  <2>3. CASE job[starter].state = "cancelled"
    <3>1. ~Creates(starter) /\ ~Claims(starter) /\ ~Keeps(starter) /\ ~Pends(starter)
      BY <2>3 DEF Creates, Claims, Keeps, Pends, Active, ActiveStates, LeasedStates
    <3>2. CASE Ends(starter)
      <4>1. ASSUME NEW w \in Workers, starter = Mine(w), FenceThen(w) PROVE FALSE
        BY <2>3, <4>1 DEF FenceThen, Owns, Lease, Mine, LeasedStates
      <4> QED
        BY <3>2, <4>1 DEF Ends, MayEnd
    <3>3. CASE Advances(starter)
      BY <2>3, <3>3 DEF Advances
    <3> QED
      BY <2>1, <2>3, <3>1, <3>2, <3>3 DEF JobChange
  <2> QED
    BY <2>2, <2>3 DEF StarterInv, ExpiredStop
<1>2. ASSUME NEW j \in Jobs, StartReadsExpiredStop(j) PROVE StarterInv'
  BY <1>2 DEF StartReadsExpiredStop, StarterInv, ExpiredStop
<1>3. CASE StartOverwritesExpiredStop
  BY <1>3 DEF StartOverwritesExpiredStop, StarterInv
<1> QED
  BY <1>1, <1>2, <1>3
  DEF Next, vars, UserStep, WorkerStep, Environment, StartCreate,
      StartInvalidatesConnection, Stop, Disconnect, RequestCode, Verify,
      SweepMarkers, SweepJobs, Claim, ClaimCancels,
      Renew, LoseLease, Fail, SliceTimeout, QuotaGone, ReadConnection, EraseConnection,
      Authorized, Downgrade, StopsHere, Fetch, PersistPage, ConnectionLost, SaveSession,
      Dispose, FinalizeFailed, Finalize, RequeueMarkers, RequeueJob, DispositionFails,
      ReleaseJob, Crash, ReleaseMarkers, Expire, SpendRuntime, Arrive, Vanish
-----------------------------------------------------------------------------
(* The rows a transaction has locked.                                       *)

RowsMarked == \A w \in Workers : \A m \in worker[w].rows : row[m] = worker[w].job

RowsApart == \A v, w \in Workers : v # w => worker[v].rows \intersect worker[w].rows = {}

\* The job of a transaction that clears markers is stopped for good: it has
\* ended, or the second statement of the transaction will end it.
RowsStopped ==
    \A w \in Workers :
      worker[w].rows # {} =>
        /\ worker[w].pc \in {"sweep", "requeue", "release"}
        /\ Lease(w).stop
        /\ Lease(w).state = "stopping" =>
             IF worker[w].pc = "sweep" THEN ~Lease(w).live
             ELSE /\ Lease(w).owner = w
                  /\ worker[w].pc = "requeue" => Lease(w).live \/ worker[w].late

LockInv == RowsMarked /\ RowsApart /\ RowsStopped

\* Rows are kept only by a worker that stays between its two statements.
LEMMA RowsKept ==
  ASSUME TypeInv, RowsStopped, [Next]_vars, NEW w \in Workers, worker'[w].rows # {}
  PROVE  \/ Locks(w)
         \/ /\ worker'[w].rows = worker[w].rows /\ worker'[w].job = worker[w].job
            /\ worker'[w].pc = worker[w].pc
            /\ worker'[w] = worker[w] \/ GetsLate(w)
<1>1. IdleWorker.rows = {}
  BY DEF IdleWorker
<1>2. worker[w].rows # {} => worker[w].pc \in {"sweep", "requeue", "release"}
  BY DEF RowsStopped
<1>3. CASE Renew(w) /\ worker'[w] = [worker[w] EXCEPT !.late = FALSE]
  BY <1>2, <1>3 DEF Renew, Beating, TypeInv, TypeOK, WorkerType
<1>4. CASE GoesOn(w) /\ worker'[w].pc \in {"client", "corrupt", "loop"}
  <2>1. worker[w].pc \in {"sweep", "requeue", "release"} /\ worker'[w] # worker[w] /\ ~GetsLate(w)
    BY <1>2, <1>4 DEF GoesOn, GetsLate, TypeInv, TypeOK, WorkerType
  <2>2. OwnStep(w)
    BY <2>1, OthersKeep
  <2>3. Idle(w) \/ Raise(w) \/ ReleaseMarkers(w) \/ \E j \in Jobs : ClaimCancels(w, j)
    BY <2>1, <2>2
    DEF OwnStep, WorkerStep, SweepMarkers, SweepJobs, Claim, Renew, LoseLease, Fail,
        SliceTimeout, QuotaGone, ReadConnection, EraseConnection, Authorized, Downgrade,
        StopsHere, Fetch, PersistPage, ConnectionLost, SaveSession, Dispose,
        FinalizeFailed, RequeueMarkers, RequeueJob, DispositionFails, ReleaseJob, Crash,
        Beating
  <2>4. CASE Idle(w)
    BY <1>1, <2>4 DEF Idle, Become, TypeInv, TypeOK
  <2>5. CASE Raise(w)
    BY <2>5 DEF Raise, Become, IdleWorker, TypeInv, TypeOK
  <2> QED
    BY <2>1, <2>3, <2>4, <2>5 DEF Locks, ClaimCancels
<1>5. CASE (TakesPage(w) \/ NextPage(w)) /\ worker'[w].rows = worker[w].rows
  BY <1>2, <1>5 DEF TakesPage, NextPage, Fetch, PersistPage
<1> QED
  BY <1>1, <1>2, <1>3, <1>4, <1>5, LocalSteps DEF LocalChange, JobKept, Locks

LEMMA RowsStoppedStep ==
  ASSUME IInv, HandInv, OnlyRequeuesLate, RowsStopped, OnlyRequeuesLate', [Next]_vars
  PROVE  RowsStopped'
<1> SUFFICES ASSUME NEW w \in Workers, worker'[w].rows # {}
             PROVE  LET r == worker'[w]
                        x == job'[r.job]
                    IN /\ r.pc \in {"sweep", "requeue", "release"}
                       /\ x.stop
                       /\ x.state = "stopping" =>
                            IF r.pc = "sweep" THEN ~x.live
                            ELSE /\ x.owner = w
                                 /\ r.pc = "requeue" => x.live \/ r.late
  BY DEF RowsStopped, Lease
<1>t. TypeInv
  BY DEF IInv
<1>1. CASE SweepMarkers(w)
  <2>1. PICK j \in Jobs : ExpiredStop(j) /\ Become(w, [IdleWorker EXCEPT !.pc = "sweep", !.job = j,
                                                       !.rows = Marked({j})])
    BY <1>1 DEF SweepMarkers
  <2>2. worker'[w].pc = "sweep" /\ worker'[w].job = j
    BY <1>t, <2>1 DEF Become, IdleWorker, TypeInv, TypeOK
  <2>3. job' = job /\ job[j].stop
    BY <1>1, <2>1 DEF SweepMarkers, ExpiredStop, IInv, LeaseInv, LeaseMatchesState
  <2> QED
    BY <2>1, <2>2, <2>3 DEF ExpiredStop
<1>2. CASE RequeueMarkers(w)
  <2> DEFINE rows == MarkersToClear(w, FenceThen(w))
  <2>1. Become(w, [IdleWorker EXCEPT !.pc = "requeue", !.job = Mine(w), !.rows = rows,
                                     !.late = worker[w].late])
    BY <1>2 DEF RequeueMarkers
  <2> HIDE DEF rows
  <2>2. /\ worker'[w].pc = "requeue" /\ worker'[w].job = worker[w].job
        /\ worker'[w].rows = rows /\ worker'[w].late = worker[w].late
    BY <1>t, <2>1 DEF Become, IdleWorker, TypeInv, TypeOK, Mine
  <2>3. FenceThen(w) /\ Lease(w).stop /\ job' = job
    BY <1>2, <2>2 DEF MarkersToClear, rows, RequeueMarkers
  <2> QED
    BY <2>2, <2>3 DEF FenceThen, Owns, Lease
<1>3. CASE ReleaseMarkers(w)
  <2> DEFINE rows == MarkersToClear(w, Owns(w))
  <2>1. Become(w, [IdleWorker EXCEPT !.pc = "release", !.job = Mine(w), !.rows = rows])
    BY <1>3 DEF ReleaseMarkers
  <2> HIDE DEF rows
  <2>2. /\ worker'[w].pc = "release" /\ worker'[w].job = worker[w].job
        /\ worker'[w].rows = rows
    BY <1>t, <2>1 DEF Become, IdleWorker, TypeInv, TypeOK, Mine
  <2>3. Owns(w) /\ Lease(w).stop /\ job' = job
    BY <1>3, <2>2 DEF MarkersToClear, rows, ReleaseMarkers
  <2> QED
    BY <2>2, <2>3 DEF Owns, Lease
<1>4. CASE /\ worker'[w].rows = worker[w].rows /\ worker'[w].job = worker[w].job
           /\ worker'[w].pc = worker[w].pc
           /\ worker'[w] = worker[w] \/ GetsLate(w)
  <2> DEFINE j == worker[w].job
  <2>1. /\ worker[w].pc \in {"sweep", "requeue", "release"} /\ job[j].stop
        /\ job[j].state = "stopping" =>
             IF worker[w].pc = "sweep" THEN ~job[j].live
             ELSE /\ job[j].owner = w
                  /\ worker[w].pc = "requeue" => job[j].live \/ worker[w].late
    BY <1>4 DEF RowsStopped, Lease
  <2>2. j \in Jobs /\ JobChange(j) /\ job[j].state # "none"
    BY <1>t, <2>1, JobSteps DEF HandInv, BusyJobs, TypeInv, WorkersOK, WorkerOK
  <2>3. job'[j].stop
    <3>1. CASE Advances(j)
      BY <2>1, <3>1 DEF Advances, SameJob
    <3>2. CASE ~Advances(j)
      BY <2>1, <2>2, <3>2 DEF JobChange, Creates, Claims, Keeps, Pends, Ends, SameJob
    <3> QED
      BY <3>1, <3>2
  <2>4. job[j].state \in {"stopping"} \union TerminalStates
    BY <2>1, <2>2 DEF HandInv, StopsStick
  <2>5. ASSUME job'[j].state = "stopping"
        PROVE  IF worker[w].pc = "sweep" THEN ~job'[j].live
               ELSE /\ job'[j].owner = w
                    /\ worker[w].pc = "requeue" => job'[j].live \/ worker'[w].late
    <3>1. job[j].state = "stopping" /\ job'[j].owner = job[j].owner
      <4>1. CASE Advances(j)
        BY <2>5, <4>1 DEF Advances
      <4>2. CASE ~Advances(j)
        BY <2>2, <2>4, <2>5, <4>2 DEF JobChange, Creates, Claims, Keeps, Pends, Ends,
             LeasedStates, TerminalStates
      <4> QED
        BY <4>1, <4>2
    <3>2. CASE worker[w].pc = "sweep"
      BY <2>1, <2>2, <2>5, <3>1, <3>2, DeadStaysDead
    <3>3. CASE worker[w].pc = "requeue"
      <4>1. CASE worker[w].late
        <5>1. worker'[w].late
          BY <1>4, <4>1, <1>t DEF GetsLate, TypeInv, TypeOK, WorkerType
        <5> QED
          BY <2>1, <3>1, <3>3, <5>1
      <4>2. CASE job[j].live /\ ~job'[j].live
        <5>1. Keeps(j)
          <6>1. ~Advances(j)
            BY <4>2 DEF Advances
          <6> QED
            BY <2>2, <2>5, <3>1, <4>2, <6>1 DEF JobChange, Creates, Claims, Pends, Ends,
               TerminalStates
        <5>2. Expire(j)
          BY <4>2, <5>1 DEF Keeps
        <5>3. Holds(w, j)
          BY <2>1, <3>1, <3>3 DEF Holds, Working, Beating
        <5>4. worker'[w] = [worker[w] EXCEPT !.late = TRUE]
          BY <1>t, <3>3, <5>2, <5>3 DEF Expire, TypeInv, TypeOK
        <5>5. worker'[w].late
          BY <1>t, <5>4 DEF TypeInv, TypeOK, WorkerType
        <5> QED
          BY <2>1, <3>1, <3>3, <5>5
      <4> QED
        BY <2>1, <3>1, <3>3, <4>1, <4>2
    <3>4. CASE worker[w].pc = "release"
      BY <2>1, <3>1, <3>4
    <3> QED
      BY <2>1, <3>2, <3>3, <3>4
  <2> QED
    BY <1>4, <2>1, <2>3, <2>5
<1> QED
  BY <1>t, <1>1, <1>2, <1>3, <1>4, RowsKept DEF Locks

\* A locked row changes only when the transaction that locked it commits.
LEMMA LockedRows ==
  ASSUME TypeInv, [Next]_vars, NEW m \in Locked
  PROVE  row'[m] = row[m] \/ ClearedAtCommit(m)
<1>m. m \in Ids
  BY DEF Locked, TypeInv, TypeOK, WorkerType
<1>1. CASE RowLocks
  BY <1>1 DEF RowLocks
<1>2. CASE row' = row
  BY <1>2
<1>3. ASSUME NEW w \in Workers, Finalize(w, "cancelled", "stopped") \/ \E s, r : Finalize(w, s, r)
      PROVE  RowLocks \/ row' = row
  BY <1>3 DEF Finalize
<1>4. ASSUME NEW w \in Workers, SweepJobs(w) \/ RequeueJob(w) \/ ReleaseJob(w)
      PROVE  row'[m] = row[m] \/ ClearedAtCommit(m)
  <2>1. row' = Unmark(worker[w].rows)
    BY <1>4 DEF SweepJobs, RequeueJob, ReleaseJob
  <2> QED
    BY <1>m, <1>4, <2>1 DEF Unmark, ClearedAtCommit
<1>5. CASE UserStep
  BY <1>1, <1>2, <1>5 DEF UserStep, StartCreate, StartReadsExpiredStop, Stop, CancelScans,
       StartInvalidatesConnection, StartOverwritesExpiredStop, Disconnect, RequestCode, Verify
<1>6. CASE Environment \/ UNCHANGED vars
  BY <1>2, <1>6 DEF Environment, vars, Crash, ReleaseMarkers, Expire, SpendRuntime, Arrive, Vanish
<1>7. ASSUME NEW w \in Workers, WorkerStep(w)
      PROVE  row'[m] = row[m] \/ ClearedAtCommit(m)
  <2>1. CASE Dispose(w) \/ FinalizeFailed(w)
    BY <1>1, <1>2, <1>3, <2>1 DEF Dispose, FinalizeFailed
  <2>2. CASE Downgrade(w) \/ \E j \in Jobs : ClaimCancels(w, j)
    BY <1>1, <1>2, <2>2 DEF Downgrade, CancelScans, ClaimCancels
  <2>3. CASE PersistPage(w)
    BY <1>1, <2>3 DEF PersistPage
  <2> QED
    BY <1>2, <1>4, <1>7, <2>1, <2>2, <2>3
    DEF WorkerStep, SweepMarkers, Claim, Renew, LoseLease, Fail, SliceTimeout, QuotaGone,
        ReadConnection, EraseConnection, Authorized, StopsHere, Fetch, ConnectionLost,
        SaveSession, RequeueMarkers, DispositionFails
<1> QED
  BY <1>5, <1>6, <1>7 DEF Next

LEMMA LockTaken ==
  ASSUME TypeInv, NEW w \in Workers, Locks(w)
  PROVE  /\ row' = row
         /\ \A v \in Workers \ {w} : worker'[v] = worker[v]
         /\ worker'[w].rows \subseteq Marked({worker'[w].job})
         /\ (worker'[w].rows \ worker[w].rows) \intersect Locked = {}
<1>t. worker \in [Workers -> WorkerType]
  BY DEF TypeInv, TypeOK
<1>1. PICK r : /\ Become(w, r)
               /\ r.rows \subseteq Marked({r.job})
               /\ (r.rows \ worker[w].rows) \intersect Locked = {}
  <2>1. CASE SweepMarkers(w)
    <3>1. PICK j \in Jobs : /\ LockFree(Marked({j}))
                            /\ Become(w, [IdleWorker EXCEPT !.pc = "sweep", !.job = j,
                                                           !.rows = Marked({j})])
      BY <2>1 DEF SweepMarkers
    <3> DEFINE r == [IdleWorker EXCEPT !.pc = "sweep", !.job = j, !.rows = Marked({j})]
    <3>2. r.rows = Marked({j}) /\ r.job = j
      BY DEF IdleWorker
    <3> HIDE DEF r
    <3> QED
      BY <3>1, <3>2 DEF LockFree, r
  <2>2. CASE RequeueMarkers(w)
    <3> DEFINE rows == MarkersToClear(w, FenceThen(w))
               r == [IdleWorker EXCEPT !.pc = "requeue", !.job = Mine(w), !.rows = rows,
                                       !.late = worker[w].late]
    <3>1. LockFree(rows) /\ Become(w, r)
      BY <2>2 DEF RequeueMarkers
    <3>2. rows \subseteq Marked({Mine(w)})
      BY DEF MarkersToClear
    <3>3. r.rows = rows /\ r.job = Mine(w)
      BY DEF IdleWorker
    <3> HIDE DEF rows, r
    <3> QED
      BY <3>1, <3>2, <3>3 DEF LockFree
  <2>3. CASE ReleaseMarkers(w)
    <3> DEFINE rows == MarkersToClear(w, Owns(w))
               r == [IdleWorker EXCEPT !.pc = "release", !.job = Mine(w), !.rows = rows]
    <3>1. LockFree(rows \ worker[w].rows) /\ Become(w, r)
      BY <2>3 DEF ReleaseMarkers
    <3>2. rows \subseteq Marked({Mine(w)})
      BY DEF MarkersToClear
    <3>3. r.rows = rows /\ r.job = Mine(w)
      BY DEF IdleWorker
    <3> HIDE DEF rows, r
    <3> QED
      BY <3>1, <3>2, <3>3 DEF LockFree
  <2> QED
    BY <2>1, <2>2, <2>3 DEF Locks
<1>2. worker'[w] = r
  BY <1>t, <1>1 DEF Become
<1>3. \A v \in Workers \ {w} : worker'[v] = worker[v]
  BY <1>t, <1>1 DEF Become
<1>4. row' = row
  BY DEF Locks, SweepMarkers, RequeueMarkers, ReleaseMarkers
<1> QED
  BY <1>1, <1>2, <1>3, <1>4

LEMMA LockStep ==
  ASSUME IInv, HandInv, OnlyRequeuesLate, LockInv, OnlyRequeuesLate', [Next]_vars
  PROVE  LockInv'
<1>t. TypeInv /\ RowsStopped /\ RowsMarked /\ RowsApart
  BY DEF IInv, LockInv
<1>1. RowsStopped'
  BY <1>t, RowsStoppedStep
<1>2. ASSUME NEW w \in Workers, NEW m \in worker'[w].rows
      PROVE  row'[m] = worker'[w].job
  <2>1. CASE Locks(w)
    BY <1>t, <1>2, <2>1, LockTaken DEF Marked
  <2>2. CASE /\ worker'[w].rows = worker[w].rows /\ worker'[w].job = worker[w].job
             /\ worker'[w] = worker[w] \/ GetsLate(w)
    <3>1. m \in Locked /\ row[m] = worker'[w].job
      BY <1>t, <1>2, <2>2 DEF Locked, RowsMarked
    <3>2. ASSUME NEW v \in Workers, m \in worker[v].rows,
                 SweepJobs(v) \/ RequeueJob(v) \/ ReleaseJob(v)
          PROVE  FALSE
      <4>1. v = w
        BY <1>t, <1>2, <2>2, <3>2 DEF RowsApart
      <4>2. worker'[w] = IdleWorker
        BY <1>t, <3>2, <4>1 DEF SweepJobs, RequeueJob, ReleaseJob, Idle, Become, TypeInv, TypeOK
      <4> QED
        BY <1>2, <4>2 DEF IdleWorker
    <3> QED
      BY <1>t, <3>1, <3>2, LockedRows DEF ClearedAtCommit
  <2> QED
    BY <1>t, <1>2, <2>1, <2>2, RowsKept
<1>3. ASSUME NEW v \in Workers, NEW w \in Workers, v # w, Locks(w),
             NEW m \in worker'[v].rows, m \in worker'[w].rows
      PROVE  FALSE
  <2>1. m \in worker[v].rows /\ m \in Locked
    BY <1>t, <1>3, LockTaken DEF Locked
  <2>2. m \in worker[w].rows
    BY <1>t, <1>3, <2>1, LockTaken
  <2> QED
    BY <1>t, <1>3, <2>1, <2>2 DEF RowsApart
<1>4. ASSUME NEW v \in Workers, NEW w \in Workers, v # w,
             NEW m \in worker'[v].rows, m \in worker'[w].rows
      PROVE  FALSE
  <2>1. CASE Locks(v) \/ Locks(w)
    BY <1>3, <1>4, <2>1
  <2>2. CASE ~Locks(v) /\ ~Locks(w)
    <3>1. worker'[v].rows = worker[v].rows /\ worker'[w].rows = worker[w].rows
      BY <1>t, <1>4, <2>2, RowsKept
    <3> QED
      BY <1>t, <1>4, <3>1 DEF RowsApart
  <2> QED
    BY <2>1, <2>2
<1> QED
  BY <1>1, <1>2, <1>4 DEF LockInv, RowsMarked, RowsApart
-----------------------------------------------------------------------------
(* What a scan has imported stays, for as long as the scan goes on.         *)

\* A job that is still scanned, or may be.
Going(j) == Active(j) /\ ~ExpiredStop(j)

\* A scan of job j need not import m again.
Here(j, m) == row[m] # Absent /\ (job[j].replace => row[m] = j)

QuietInv == HandInv /\ OnlyRequeuesLate /\ LockInv /\ StarterInv

LEMMA GoingBefore ==
  ASSUME IInv, QuietInv, [Next]_vars, NEW j \in Jobs, Going(j)'
  PROVE  \/ Creates(j)
         \/ Going(j) /\ job'[j].replace = job[j].replace
<1>1. JobChange(j) /\ job'[j].state \in ActiveStates
      /\ (job[j].state = "stopping" => job[j].stop)
  BY JobSteps DEF IInv, Going, Active, LeaseInv, LeaseMatchesState
<1>2. CASE Advances(j)
  <2>1. job'[j].state = job[j].state /\ job'[j].live = job[j].live
        /\ job'[j].replace = job[j].replace
    BY <1>2 DEF Advances, SameJob
  <2> QED
    BY <2>1 DEF Going, Active, ExpiredStop
<1>3. CASE job'[j] = job[j]
  BY <1>3 DEF Going, Active, ExpiredStop
<1>4. CASE Claims(j)
  BY <1>4 DEF Claims, SameJob, Going, Active, ActiveStates, ExpiredStop
<1>5. CASE Keeps(j)
  <2>1. job[j].state \in LeasedStates /\ job'[j].replace = job[j].replace
    BY <1>5 DEF Keeps, SameJob
  <2>2. ~ExpiredStop(j)
    <3>1. SUFFICES ASSUME job[j].state = "stopping", ~job[j].live PROVE FALSE
      BY DEF ExpiredStop
    <3>2. job'[j].state = "stopping" /\ ~job'[j].live
      BY <1>1, <3>1, DeadStaysDead DEF QuietInv, ActiveStates
    <3> QED
      BY <3>2 DEF Going, ExpiredStop
  <2> QED
    BY <2>1, <2>2 DEF Going, Active, ActiveStates, LeasedStates
<1>6. CASE Pends(j)
  <2>1. job[j].state # "stopping"
    BY <1>1, <1>6 DEF Pends
  <2> QED
    BY <1>6, <2>1 DEF Pends, SameJob, Going, ExpiredStop
<1>7. CASE Ends(j)
  BY <1>1, <1>7 DEF Ends, ActiveStates, TerminalStates
<1> QED
  BY <1>1, <1>2, <1>3, <1>4, <1>5, <1>6, <1>7 DEF JobChange

LEMMA OneGoing ==
  ASSUME IInv, NEW i \in Jobs, NEW j \in Jobs, Active(i), Active(j)
  PROVE  i = j
BY DEF IInv, LeaseInv, OneActiveJob, ActiveJobs

\* A commit that clears rows is the end of the job that marked them.
LEMMA CommitEndsJob ==
  ASSUME IInv, QuietInv, NEW w \in Workers, worker[w].rows # {},
         SweepJobs(w) \/ RequeueJob(w) \/ ReleaseJob(w)
  PROVE  LET j == worker[w].job IN ~Going(j) \/ ~StaysActive(j)
<1> DEFINE j == worker[w].job
<1>1. /\ worker[w].pc \in {"sweep", "requeue", "release"} /\ job[j].stop
      /\ job[j].state = "stopping" =>
             IF worker[w].pc = "sweep" THEN ~job[j].live
             ELSE /\ job[j].owner = w
                  /\ worker[w].pc = "requeue" => job[j].live \/ worker[w].late
  BY DEF QuietInv, LockInv, RowsStopped, Lease
<1>2. j \in Jobs /\ job[j] \in JobType /\ job \in [Jobs -> JobType]
  BY <1>1 DEF IInv, TypeInv, TypeOK, WorkersOK, WorkerOK
<1> SUFFICES ASSUME Going(j) PROVE ~StaysActive(j)
  OBVIOUS
<1>3. job[j].state = "stopping" /\ job[j].live
  BY <1>1, <1>2 DEF Going, Active, ActiveStates, TerminalStates, ExpiredStop, QuietInv, HandInv,
     StopsStick
<1>4. Owns(w) /\ ~SweepJobs(w)
  BY <1>1, <1>3 DEF Owns, Lease, LeasedStates, SweepJobs
<1>5. job'[j] = HandBack(w)
  BY <1>2, <1>3, <1>4 DEF RequeueJob, ReleaseJob, Mine, FenceThen, Lease
<1>6. job'[j].state = "cancelled"
  BY <1>1, <1>2, <1>5 DEF HandBack, Lease, JobType
<1> QED
  BY <1>6 DEF StaysActive, ActiveStates

LEMMA HereStays ==
  ASSUME IInv, QuietInv, [Next]_vars, NEW j \in Jobs, Going(j), Going(j)',
         NEW m \in Ids, Here(j, m)
  PROVE  Here(j, m)'
<1>1. Active(j) /\ StaysActive(j) /\ ~Creates(j) /\ TypeInv
  BY DEF Going, Active, StaysActive, ActiveStates, Creates, IInv
<1>2. job'[j].replace = job[j].replace
  BY <1>1, GoingBefore
<1>3. row[m] # Absent /\ (job[j].replace => row[m] = j)
  BY DEF Here
<1> SUFFICES row'[m] # Absent /\ (job[j].replace => row'[m] = j)
  BY <1>2 DEF Here
<1>4. CASE ClearedAtEnd(m)
  <2>1. \A replace : ~StartCreate(j, replace)
    BY <1>1 DEF StartCreate, Active, ActiveStates
  <2>2. row[m] # j /\ row'[m] = Unmarked
    BY <1>1, <1>4, <2>1 DEF ClearedAtEnd
  <2> QED
    BY <1>3, <2>2 DEF Absent, Unmarked
<1>5. CASE ClearedAtCommit(m)
  <2>1. PICK w \in Workers : /\ m \in worker[w].rows
                             /\ SweepJobs(w) \/ RequeueJob(w) \/ ReleaseJob(w)
    BY <1>5 DEF ClearedAtCommit
  <2>2. row[m] = worker[w].job
    <3>1. RowsMarked
      BY DEF QuietInv, LockInv
    <3> QED
      BY <2>1, <3>1 DEF RowsMarked
  <2>3. row[m] # j
    <3>1. SUFFICES ASSUME worker[w].job = j PROVE FALSE
      BY <2>2
    <3>2. worker[w].rows # {}
      BY <2>1
    <3>3. ~Going(worker[w].job) \/ ~StaysActive(worker[w].job)
      BY <2>1, <3>2, CommitEndsJob
    <3> QED
      BY <1>1, <3>1, <3>3
  <2> QED
    BY <1>3, <1>5, <2>3 DEF ClearedAtCommit, Absent, Unmarked
<1>6. CASE Paged(m)
  <2>1. PICK w \in Workers :
           /\ PersistPage(w)
           /\ row'[m] = IF Lease(w).replace THEN Mine(w)
                        ELSE IF row[m] = Absent THEN Unmarked ELSE row[m]
    BY <1>6 DEF Paged
  <2>2. Mine(w) \in Jobs /\ Active(Mine(w))
    BY <1>1, <2>1 DEF PersistPage, FenceNow, Owns, Lease, Mine, Active, ActiveStates, LeasedStates,
         TypeInv, WorkersOK, WorkerOK
  <2>3. Mine(w) = j
    BY <1>1, <2>2, OneGoing
  <2> QED
    BY <1>3, <2>1, <2>3, MarkAssumption DEF Lease, Mine
<1>7. CASE Pruned(m)
  <2>1. PICK w \in Workers : /\ Dispose(w) /\ FenceThen(w) /\ ~StaysActive(Mine(w))
    BY <1>7 DEF Pruned
  <2>2. Mine(w) \in Jobs /\ Active(Mine(w))
    BY <1>1, <2>1 DEF Dispose, FenceThen, Owns, Lease, Mine, Active, ActiveStates, LeasedStates,
         TypeInv, WorkersOK, WorkerOK
  <2> QED
    BY <1>1, <2>1, <2>2, OneGoing
<1> QED
  BY <1>1, <1>3, <1>4, <1>5, <1>6, <1>7, RowSteps DEF RowChange
-----------------------------------------------------------------------------
(* A complete scan has seen every message that was there all along.         *)

SteadyThere == steady \subseteq remote

\* Behind the cursor of a job that goes on, every steady message is imported.
Imported ==
    \A j \in Jobs : Going(j) /\ job[j].cursor # 0 =>
      \A m \in steady : m >= job[j].cursor => Here(j, m)

\* A fetched page holds every steady message between its two offsets, and the
\* scanner knows if any is left below.
PageIsComplete ==
    \A w \in Workers : worker[w].pc = "page" /\ Active(worker[w].job) =>
      \A m \in steady :
        /\ m >= worker[w].next /\ (worker[w].off = 0 \/ m < worker[w].off)
             => m \in worker[w].page
        /\ m < worker[w].next => worker[w].more

\* A slice that has come out as exhausted left no steady message behind.
EndMeansImported ==
    \A w \in Workers :
      /\ worker[w].pc \in {"save", "dispose"} /\ worker[w].out = "exhausted"
      /\ Going(worker[w].job)
      => \A m \in steady : Here(worker[w].job, m)

SteadyInv == SteadyThere /\ Imported /\ PageIsComplete /\ EndMeansImported

\* Messages become steady only with a new job.
LEMMA SteadySteps ==
  ASSUME TypeInv, SteadyThere, [Next]_vars
  PROVE  /\ SteadyThere'
         /\ steady' \subseteq steady \/ \E j \in Jobs, replace \in BOOLEAN : StartCreate(j, replace)
<1>1. CASE \E j \in Jobs, replace \in BOOLEAN : StartCreate(j, replace)
  BY <1>1 DEF StartCreate, SteadyThere
<1>2. CASE UNCHANGED <<remote, steady>>
  BY <1>2 DEF SteadyThere
<1>3. CASE Arrive \/ \E m \in Ids : Vanish(m)
  BY <1>3 DEF Arrive, Vanish, SteadyThere
<1> QED
  BY <1>1, <1>2, <1>3
  DEF Next, vars, telegram, UserStep, WorkerStep, Environment, StartReadsExpiredStop,
      StartInvalidatesConnection, StartOverwritesExpiredStop, Stop, Disconnect, RequestCode,
      Verify, SweepMarkers, SweepJobs, Claim, ClaimCancels,
      Renew, LoseLease, Fail, SliceTimeout, QuotaGone, ReadConnection, EraseConnection,
      Authorized, Downgrade, StopsHere, Fetch, PersistPage, ConnectionLost, SaveSession,
      Dispose, FinalizeFailed, Finalize, RequeueMarkers, RequeueJob, DispositionFails,
      ReleaseJob, Crash, ReleaseMarkers, Expire, SpendRuntime

\* With a job that was active before, no message becomes steady.
LEMMA SteadyShrinks ==
  ASSUME TypeInv, SteadyThere, [Next]_vars,
         NEW j \in Jobs, job[j].state # "none", StaysActive(j)
  PROVE  steady' \subseteq steady
<1>1. ASSUME NEW i \in Jobs, NEW replace \in BOOLEAN, StartCreate(i, replace) PROVE FALSE
  <2>1. job'[j] = job[j] /\ ~Active(j)
    BY <1>1 DEF StartCreate, NoScanActive, ActiveJobs, TypeInv, TypeOK
  <2> QED
    BY <2>1 DEF StaysActive, Active
<1> QED
  BY <1>1, SteadySteps

LEMMA ImportedStep ==
  ASSUME IInv, QuietInv, SteadyInv, [Next]_vars
  PROVE  Imported'
<1> SUFFICES ASSUME NEW j \in Jobs, Going(j)', job'[j].cursor # 0,
                    NEW m \in steady', m >= job'[j].cursor
             PROVE  Here(j, m)'
  BY DEF Imported
<1>1. JobChange(j) /\ TypeInv /\ ~Creates(j)
  BY JobSteps DEF IInv, Creates
<1>2. Going(j) /\ job'[j].replace = job[j].replace
  BY <1>1, GoingBefore
<1>3. job[j].state # "none" /\ StaysActive(j) /\ Active(j)
  BY <1>2 DEF Going, Active, StaysActive, ActiveStates
<1>4. m \in steady /\ m \in Ids
  BY <1>1, <1>3, SteadyShrinks DEF SteadyInv, SteadyThere, TypeInv, TypeOK
<1>5. CASE Advances(j)
  <2>1. PICK w \in Workers : PersistPage(w) /\ j = worker[w].job
    BY <1>5 DEF Advances
  <2>2. /\ worker[w].off = job[j].cursor /\ job'[j].cursor = worker[w].next
        /\ worker[w].pc = "page"
    BY <1>1, <2>1, PageEffect DEF IInv, LeaseInv, PersistPage
  <2>3. CASE m \in worker[w].page
    <3>1. row'[m] = IF job[j].replace THEN j ELSE IF row[m] = Absent THEN Unmarked ELSE row[m]
      BY <1>4, <2>1, <2>3 DEF PersistPage, Lease, Mine
    <3> QED
      BY <1>2, <3>1, MarkAssumption DEF Here, Absent, Unmarked
  <2>4. CASE m \notin worker[w].page
    <3>1. worker[w].off # 0 /\ m >= worker[w].off
      <4>1. ~(worker[w].off = 0 \/ m < worker[w].off)
        BY <1>3, <1>4, <2>1, <2>2, <2>4 DEF SteadyInv, PageIsComplete
      <4>2. worker[w].off \in Nat /\ m \in Nat
        BY <1>1, <1>4 DEF TypeInv, TypeOK, WorkerType, Ids
      <4> QED
        BY <4>1, <4>2
    <3>2. Here(j, m)
      BY <1>2, <1>4, <2>2, <3>1 DEF SteadyInv, Imported
    <3> QED
      BY <1>2, <1>4, <3>2, HereStays
  <2> QED
    BY <2>3, <2>4
<1>6. CASE ~Advances(j)
  <2>1. job'[j].cursor = job[j].cursor
    BY <1>1, <1>6 DEF JobChange, Claims, Keeps, Pends, Ends, SameProgress
  <2>2. Here(j, m)
    BY <1>2, <1>4, <2>1 DEF SteadyInv, Imported
  <2> QED
    BY <1>2, <1>4, <2>2, HereStays
<1> QED
  BY <1>5, <1>6

\* The job a busy worker goes on with was there, and active, before.
LEMMA BusyBefore ==
  ASSUME IInv, QuietInv, SteadyInv, [Next]_vars, NEW w \in Workers, worker[w].pc # "idle",
         NEW j, j = worker[w].job, StaysActive(j)
  PROVE  /\ j \in Jobs /\ Active(j) /\ ~Creates(j)
         /\ steady' \subseteq steady
<1>1. j \in Jobs /\ TypeInv
  BY DEF IInv, TypeInv, WorkersOK, WorkerOK
<1>2. JobChange(j) /\ job[j].state # "none"
  BY <1>1, JobSteps DEF QuietInv, HandInv, BusyJobs
<1>3. ~Creates(j)
  BY <1>2 DEF Creates
<1>4. Active(j)
  <2>1. CASE Advances(j)
    BY <2>1 DEF Advances, StaysActive, Active
  <2>2. CASE ~Advances(j)
    BY <1>2, <1>3, <2>2 DEF JobChange, Claims, Keeps, Pends, Ends, StaysActive, Active,
         ActiveStates, LeasedStates, TerminalStates
  <2> QED
    BY <2>1, <2>2
<1> QED
  BY <1>1, <1>2, <1>3, <1>4, SteadyShrinks DEF SteadyInv

LEMMA PageIsCompleteStep ==
  ASSUME IInv, QuietInv, SteadyInv, [Next]_vars
  PROVE  PageIsComplete'
<1> DEFINE OK(r) == \A m \in steady' :
                      /\ m >= r.next /\ (r.off = 0 \/ m < r.off) => m \in r.page
                      /\ m < r.next => r.more
<1> SUFFICES ASSUME NEW w \in Workers, worker'[w].pc = "page", StaysActive(worker'[w].job)
             PROVE  OK(worker'[w])
  BY DEF PageIsComplete, StaysActive, Active
<1>t. TypeInv /\ worker \in [Workers -> WorkerType]
  BY DEF IInv, TypeInv, TypeOK
<1>1. ASSUME /\ worker[w].pc = "page" /\ worker'[w].job = worker[w].job
             /\ worker'[w].page = worker[w].page /\ worker'[w].next = worker[w].next
             /\ worker'[w].more = worker[w].more /\ worker'[w].off = worker[w].off
      PROVE  OK(worker'[w])
  <2>1. Active(worker[w].job) /\ steady' \subseteq steady
    BY <1>1, BusyBefore
  <2> QED
    BY <1>1, <2>1 DEF SteadyInv, PageIsComplete
<1>2. CASE worker'[w] = worker[w]
  BY <1>1, <1>2
<1>3. CASE GetsLate(w) /\ worker'[w].pc = worker[w].pc
  <2>1. worker'[w] = [worker[w] EXCEPT !.late = TRUE]
    BY <1>3 DEF GetsLate
  <2> QED
    BY <1>t, <1>1, <1>3, <2>1 DEF WorkerType
<1>4. CASE worker'[w] = [worker[w] EXCEPT !.late = FALSE]
  BY <1>t, <1>1, <1>4 DEF WorkerType
<1>5. CASE TakesPage(w)
  <2>1. /\ Fetch(w) /\ steady' = steady /\ Below(worker[w].off) # {}
    BY <1>5 DEF TakesPage, Fetch, telegram
  <2>2. PICK next \in Below(worker[w].off), cut \in BOOLEAN :
          Become(w, [worker[w] EXCEPT
                         !.pc = "page", !.page = PageDownTo(next, Below(worker[w].off)),
                         !.next = next,
                         !.more = PageDownTo(next, Below(worker[w].off)) # Below(worker[w].off),
                         !.cut = cut])
    BY <2>1 DEF Fetch
  <2>3. /\ worker'[w].page = PageDownTo(next, Below(worker[w].off))
        /\ worker'[w].next = next /\ worker'[w].off = worker[w].off
        /\ worker'[w].more = (PageDownTo(next, Below(worker[w].off)) # Below(worker[w].off))
    BY <1>t, <2>2 DEF Become, WorkerType
  <2>4. ASSUME NEW m \in steady
        PROVE  /\ m >= next /\ (worker[w].off = 0 \/ m < worker[w].off)
                    => m \in PageDownTo(next, Below(worker[w].off))
               /\ m < next => PageDownTo(next, Below(worker[w].off)) # Below(worker[w].off)
    <3>1. m \in remote /\ m \in Nat /\ next \in Nat /\ worker[w].off \in Nat
          /\ (worker[w].off = 0 \/ next < worker[w].off)
      BY <1>t DEF SteadyInv, SteadyThere, TypeInv, TypeOK, Ids, Below, WorkerType
    <3>2. m < next => m \in Below(worker[w].off) /\ m \notin PageDownTo(next, Below(worker[w].off))
      BY <3>1 DEF Below, PageDownTo
    <3> QED
      BY <3>1, <3>2 DEF Below, PageDownTo
  <2> QED
    BY <2>1, <2>3, <2>4
<1>6. IdleWorker.pc = "idle"
  BY DEF IdleWorker
<1> QED
  BY <1>t, <1>2, <1>3, <1>4, <1>5, <1>6, LocalSteps DEF LocalChange

LEMMA EndMeansImportedStep ==
  ASSUME IInv, QuietInv, SteadyInv, OnlyRequeuesLate', Imported', [Next]_vars
  PROVE  EndMeansImported'
<1> SUFFICES ASSUME NEW w \in Workers, worker'[w].pc \in {"save", "dispose"},
                    worker'[w].out = "exhausted",
                    NEW j, j = worker'[w].job, Going(j)', NEW m \in steady'
             PROVE  Here(j, m)'
  BY DEF EndMeansImported
<1>t. TypeInv /\ worker \in [Workers -> WorkerType] /\ StaysActive(j)
  BY DEF IInv, TypeInv, TypeOK, Going, Active, StaysActive
<1>1. ASSUME worker[w].pc \in {"save", "dispose"}, worker[w].out = "exhausted", j = worker[w].job
      PROVE  Here(j, m)'
  <2>1. j \in Jobs /\ ~Creates(j) /\ steady' \subseteq steady
    BY <1>t, <1>1, BusyBefore
  <2>2. Going(j)
    BY <2>1, GoingBefore
  <2>3. m \in Ids /\ Here(j, m)
    BY <1>t, <1>1, <2>1, <2>2 DEF SteadyInv, EndMeansImported, TypeInv, TypeOK
  <2> QED
    BY <2>1, <2>2, <2>3, HereStays
<1>2. CASE worker'[w] = worker[w]
  BY <1>1, <1>2
<1>3. CASE GetsLate(w) /\ worker'[w].pc = worker[w].pc
  <2>1. worker'[w] = [worker[w] EXCEPT !.late = TRUE]
    BY <1>3 DEF GetsLate
  <2> QED
    BY <1>t, <1>1, <1>3, <2>1 DEF WorkerType
<1>4. CASE worker'[w] = [worker[w] EXCEPT !.late = FALSE]
  BY <1>t, <1>1, <1>4 DEF WorkerType
<1>5. CASE JobKept(w) /\ SeesTheEnd(w)
  <2>1. j = worker[w].job /\ worker[w].pc # "idle" /\ j \in Jobs
    BY <1>5, <1>t DEF JobKept, TypeInv, WorkersOK, WorkerOK
  <2>2. CASE SaveSession(w) /\ worker[w].out = "exhausted"
    BY <1>1, <2>1, <2>2 DEF SaveSession
  <2>3. CASE Fetch(w) /\ Below(worker[w].off) = {}
    <3>1. /\ worker[w].pc = "loop" /\ Owns(w) /\ job[j].live /\ job' = job
          /\ row' = row /\ steady' = steady
      BY <2>1, <2>3 DEF Fetch, FenceNow, Lease, telegram
    <3>2. Going(j) /\ worker[w].off = job[j].cursor
      BY <2>1, <3>1 DEF Going, Active, ExpiredStop, ActiveStates, LeasedStates, Owns, Lease,
         IInv, LeaseInv, ScannerInStep
    <3>3. m \in remote /\ m \in Nat /\ worker[w].off \in Nat
      BY <1>t, <3>1 DEF SteadyInv, SteadyThere, TypeInv, TypeOK, Ids, WorkerType
    <3>4. worker[w].off # 0 /\ m >= worker[w].off
      BY <2>3, <3>3 DEF Below
    <3>5. Here(j, m)
      BY <2>1, <3>1, <3>2, <3>4 DEF SteadyInv, Imported
    <3> QED
      BY <3>1, <3>5 DEF Here
  <2>4. CASE PersistPage(w) /\ ~worker[w].more
    <3>1. /\ worker[w].pc = "page" /\ steady' = steady
      BY <2>4 DEF PersistPage, telegram
    <3>2. Active(j)
      BY <1>t, <2>1, BusyBefore
    <3>3. ~(m < worker[w].next)
      BY <2>1, <2>4, <3>1, <3>2 DEF SteadyInv, PageIsComplete
    <3>4. worker[w].next \in Ids /\ m \in Nat
      <4>1. worker[w].next \in Ids
        BY <1>t, <3>1 DEF TypeInv, WorkersOK, WorkerOK
      <4>2. m \in Ids
        BY <1>t, <3>1 DEF TypeInv, TypeOK
      <4> QED
        BY <4>1, <4>2 DEF Ids
    <3>5. job'[j].cursor = worker[w].next
      BY <1>t, <2>1, <2>4, PageEffect DEF IInv, LeaseInv
    <3>6. job'[j].cursor # 0 /\ m >= job'[j].cursor
      BY <3>3, <3>4, <3>5 DEF Ids
    <3> QED
      BY <2>1, <3>6 DEF Imported
  <2> QED
    BY <1>5, <2>2, <2>3, <2>4 DEF SeesTheEnd
<1>6. IdleWorker.pc = "idle"
  BY DEF IdleWorker
<1> QED
  BY <1>t, <1>2, <1>3, <1>4, <1>5, <1>6, LocalSteps DEF LocalChange
-----------------------------------------------------------------------------
(* The theorems without delayed statements.                                 *)

PromptInv == IInv /\ QuietInv /\ SteadyInv

LEMMA PromptInit == Init => QuietInv /\ SteadyInv
<1> SUFFICES ASSUME Init PROVE QuietInv /\ SteadyInv
  OBVIOUS
<1>1. /\ \A w \in Workers : /\ worker[w].pc = "idle" /\ worker[w].rows = {} /\ ~worker[w].late
      /\ \A j \in Jobs : job[j].state = "none" /\ ~job[j].stop
      /\ starter = NoJob /\ steady = {}
  BY DEF Init, IdleWorker, NewJob
<1>2. QuietInv
  BY <1>1 DEF QuietInv, HandInv, BusyJobs, StopsStick, OnlyRequeuesLate, LockInv, RowsMarked,
     RowsApart, RowsStopped, StarterInv
<1>3. SteadyInv
  BY <1>1 DEF SteadyInv, SteadyThere, Imported, PageIsComplete, EndMeansImported
<1> QED
  BY <1>2, <1>3

LEMMA PromptInvariant ==
  ASSUME ~DelayedStatements
  PROVE  Spec => []PromptInv
<1>1. Init => PromptInv
  BY PromptInit, InitTyped, LeaseInit DEF PromptInv, IInv
<1>2. PromptInv /\ IInv' /\ [Next]_vars => PromptInv'
  <2> SUFFICES ASSUME PromptInv, IInv', [Next]_vars PROVE PromptInv'
    OBVIOUS
  <2>1. OnlyRequeuesLate'
    BY LateStep DEF PromptInv, QuietInv, IInv
  <2>2. QuietInv'
    BY <2>1, HandStep, LockStep, StarterStep DEF PromptInv, QuietInv
  <2>3. Imported'
    BY ImportedStep DEF PromptInv
  <2>4. SteadyInv'
    BY <2>1, <2>3, SteadySteps, PageIsCompleteStep, EndMeansImportedStep
    DEF PromptInv, SteadyInv, IInv
  <2> QED
    BY <2>2, <2>4 DEF PromptInv
<1> QED
  BY <1>1, <1>2, Inductive, PTL DEF Spec

\* A worker that disposes of a slice on a prompt statement still has the job.
LEMMA DisposerGoes ==
  ASSUME PromptInv, NEW w \in Workers, worker[w].pc \in {"dispose", "fail"}, FenceThen(w)
  PROVE  Mine(w) \in Jobs /\ Going(Mine(w))
<1>1. ~worker[w].late
  BY DEF PromptInv, QuietInv, OnlyRequeuesLate
<1>2. Mine(w) \in Jobs
  BY DEF PromptInv, IInv, TypeInv, WorkersOK, WorkerOK, Mine
<1> QED
  BY <1>1, <1>2 DEF FenceThen, Owns, Lease, Mine, Going, Active, ActiveStates, LeasedStates,
     ExpiredStop

LEMMA PruneSpares ==
  ASSUME PromptInv, [Next]_vars, NEW m \in steady, row[m] # Absent
  PROVE  row'[m] # Absent
<1>1. m \in Ids /\ RowChange(m)
  BY RowSteps DEF PromptInv, IInv, TypeInv, TypeOK
<1>2. CASE Pruned(m)
  <2>1. PICK w \in Workers : /\ Dispose(w) /\ worker[w].out = "exhausted" /\ FenceThen(w)
                             /\ Lease(w).replace /\ row[m] # Mine(w)
    BY <1>2 DEF Pruned
  <2>2. Going(Mine(w)) /\ worker[w].pc = "dispose"
    BY <2>1, DisposerGoes DEF Dispose
  <2>3. Here(Mine(w), m)
    BY <2>1, <2>2 DEF PromptInv, SteadyInv, EndMeansImported, Mine
  <2> QED
    BY <2>1, <2>3 DEF Here, Lease, Mine
<1>3. CASE Paged(m)
  <2>1. PICK w \in Workers :
           /\ PersistPage(w)
           /\ row'[m] = IF Lease(w).replace THEN Mine(w)
                        ELSE IF row[m] = Absent THEN Unmarked ELSE row[m]
    BY <1>3 DEF Paged
  <2>2. Mine(w) \in Jobs
    BY <2>1 DEF PersistPage, Mine, PromptInv, IInv, TypeInv, WorkersOK, WorkerOK
  <2> QED
    BY <2>1, <2>2, MarkAssumption DEF Absent, Unmarked
<1>4. CASE ClearedAtEnd(m) \/ ClearedAtCommit(m)
  BY <1>4 DEF ClearedAtEnd, ClearedAtCommit, Absent, Unmarked
<1> QED
  BY <1>1, <1>2, <1>3, <1>4 DEF RowChange

\* A replacement never deletes the local row of a message that has been in
\* Saved Messages since its job was created: over any number of slices,
\* workers, crashes, requeues and lost leases.
THEOREM ReplacementSparesSteady ==
  ASSUME ~DelayedStatements
  PROVE  Spec => PruneSparesSteady
<1>1. PromptInv /\ [Next]_vars =>
        [\A m \in steady : row[m] # Absent => row'[m] # Absent]_vars
  BY PruneSpares
<1> QED
  BY <1>1, PromptInvariant, PTL DEF Spec, PruneSparesSteady

\* A scan that completes as exhausted has imported every message that was there
\* all along.
THEOREM ExhaustedScansImported ==
  ASSUME ~DelayedStatements
  PROVE  Spec => ExhaustedMeansImported
<1> DEFINE Complete ==
      \A w \in Workers :
         /\ worker[w].pc = "dispose" /\ worker[w].out = "exhausted"
         /\ Lease(w).state # "completed" /\ job'[Mine(w)].state = "completed"
         => \A m \in steady : row'[m] # Absent
<1>1. PromptInv /\ [Next]_vars => [Complete]_vars
  <2> SUFFICES ASSUME PromptInv, [Next]_vars,
                      NEW w \in Workers, worker[w].pc = "dispose", worker[w].out = "exhausted",
                      Lease(w).state # "completed", job'[Mine(w)].state = "completed",
                      NEW m \in steady
               PROVE  row'[m] # Absent
    OBVIOUS
  <2> DEFINE j == Mine(w)
  <2>1. j \in Jobs /\ JobChange(j)
    BY JobSteps DEF PromptInv, IInv, TypeInv, WorkersOK, WorkerOK, Mine
  <2>2. Ends(j)
    <3>1. CASE Advances(j)
      BY <3>1 DEF Advances, Lease, Mine
    <3>2. CASE ~Advances(j)
      BY <2>1, <3>2 DEF JobChange, Creates, Claims, Keeps, Pends, LeasedStates, Lease, Mine
    <3> QED
      BY <3>1, <3>2
  <2>3. PICK v \in Workers : (Dispose(v) \/ FinalizeFailed(v)) /\ j = Mine(v) /\ FenceThen(v)
    BY <2>2 DEF Ends, MayEnd
  <2>4. Going(j)
    BY <2>3, DisposerGoes DEF Dispose, FinalizeFailed
  <2>5. row[m] # Absent
    BY <2>4 DEF PromptInv, SteadyInv, EndMeansImported, Here, Mine
  <2> QED
    BY <2>5, PruneSpares
<1> QED
  BY <1>1, PromptInvariant, PTL DEF Spec, ExhaustedMeansImported

\* A terminal job never changes again, although start() writes a cancellation
\* over a job that it read without a lock.
THEOREM TerminalJobsAreFinal ==
  ASSUME ~DelayedStatements
  PROVE  Spec => TerminalIsFinal
<1>1. PromptInv /\ [Next]_vars =>
        [\A j \in Jobs : job[j].state \in TerminalStates => job'[j] = job[j]]_vars
  <2> SUFFICES ASSUME PromptInv, [Next]_vars, NEW j \in Jobs, job[j].state \in TerminalStates
               PROVE  job'[j] = job[j]
    OBVIOUS
  <2>1. JobChange(j) /\ job[j] \in JobType /\ job \in [Jobs -> JobType]
    BY JobSteps DEF PromptInv, IInv, TypeInv, TypeOK
  <2>2. job[j].owner = NoWorker /\ ~job[j].live /\ ~Active(j) /\ ~ExpiredStop(j)
    BY DEF PromptInv, IInv, LeaseInv, LeaseMatchesState, Active, ActiveStates, ExpiredStop,
           LeasedStates, TerminalStates
  <2>3. ~Creates(j) /\ ~Claims(j) /\ ~Keeps(j) /\ ~Pends(j)
    BY <2>2 DEF Creates, Claims, Keeps, Pends, LeasedStates, TerminalStates
  <2>4. ~Advances(j)
    BY <2>2 DEF Advances, PersistPage, FenceNow, Owns, Lease, LeasedStates, TerminalStates
  <2>5. CASE Ends(j)
    <3>1. StartOverwritesExpiredStop /\ j = starter /\ starter # NoJob
      BY <2>2, <2>5, NoJobAssumption DEF Ends, MayEnd
    <3>2. job[j].state = "cancelled"
      BY <2>2, <3>1 DEF PromptInv, QuietInv, StarterInv
    <3>3. job'[j] = Ended(j, "cancelled")
      BY <2>1, <3>1 DEF StartOverwritesExpiredStop
    <3>4. Ended(j, "cancelled") = job[j]
      BY <2>1, <2>2, <3>2 DEF Ended, JobType
    <3> QED
      BY <3>3, <3>4
  <2> QED
    BY <2>1, <2>3, <2>4, <2>5 DEF JobChange
<1> QED
  BY <1>1, PromptInvariant, PTL DEF Spec, TerminalIsFinal
=============================================================================
