-------------------------- MODULE SimP2pRefinement ---------------------------
(***************************************************************************)
(* SimP2p implements AsyncIo: every step of the rendezvous is a step of    *)
(* the abstract handle-and-buffer promise, or leaves it unchanged.         *)
(***************************************************************************)
EXTENDS SimP2pProofs

(* Nothing the promise speaks of changes.                                  *)
SameView ==
  /\ \A o \in Op : Handle(o)' = Handle(o) /\ Target(o)' = Target(o)
  /\ \A b \in Buffer : buf'[b].mem = buf[b].mem

LEMMA SameViewStutters == SameView => UNCHANGED Promise!vars
BY DEF SameView, Promise!vars

(* Operation o finishes with verdict v, and no buffer is released.         *)
FinishView(o, v) ==
  /\ Handle(o) \in {"none", "pending"}
  /\ \A x \in Op : /\ Handle(x)' = IF x = o THEN v ELSE Handle(x)
                   /\ Target(x)' = IF x = o THEN None ELSE Target(x)
  /\ \A b \in Buffer : buf'[b].mem = buf[b].mem

LEMMA FinishViewFinishes ==
  ASSUME NEW o \in Op, NEW v \in {"ok", "failed"}, FinishView(o, v)
  PROVE  Promise!Next
<1>1. Promise!Finish(o, v)
  BY DEF FinishView, Promise!Finish
<1> QED BY <1>1 DEF Promise!Next, Promise!Verdict

LEMMA InitRefines == Init => Promise!Init
BY DEF Init, NoCall, Promise!Init, Handle, Target

LEMMA BeginRefines ==
  ASSUME IInv, NEW o \in Op, NEW q \in Request, Begin(o, q)
  PROVE  [Promise!Next]_(Promise!vars)
<1> DEFINE outcome == BeginOutcome(q, comm[q.client])
<1>a. /\ call[o].pc = "unused"
      /\ call' = [call EXCEPT ![o] =
           IF outcome = "proceed"
           THEN [@ EXCEPT !.pc = "snapshot", !.req = q,
                          !.comm = comm[q.client]]
           ELSE [@ EXCEPT !.pc = "returned"]]
      /\ io' = IF outcome = "unsupported"
                 THEN [io EXCEPT ![o] = FinishedIo("UNSUPPORTED")]
                 ELSE io
      /\ waiting' = waiting /\ buf' = buf
  BY DEF Begin
<1> HIDE DEF outcome
<1>b. io[o].mem = "none" /\ o \notin waiting
  BY <1>a DEF IInv, HandlesFollowCalls, EntriesAlive
<1>c. \A x \in Op \ {o} : call'[x] = call[x] /\ io'[x] = io[x]
  BY <1>a DEF IInv, TypeOK
<1>d. \A x \in Op \ {o} : Handle(x)' = Handle(x) /\ Target(x)' = Target(x)
  BY <1>a, <1>c DEF Handle, Target
<1>e. Handle(o) = "none" /\ Target(o) = None /\ Target(o)' = None
  BY <1>a, <1>b DEF Handle, Target
<1>1. CASE outcome = "unsupported"
  <2>1. /\ call'[o].pc = "returned"
        /\ io'[o] = FinishedIo("UNSUPPORTED")
    BY <1>a, <1>1 DEF IInv, TypeOK, Call
  <2>2. Handle(o)' = "failed"
    BY <2>1 DEF Handle, FinishedIo
  <2>3. FinishView(o, "failed")
    BY <1>a, <1>d, <1>e, <2>2 DEF FinishView
  <2> QED BY <2>3, FinishViewFinishes
<1>2. CASE outcome # "unsupported"
  <2>1. Handle(o)' = "none"
    BY <1>a, <1>b, <1>2 DEF Handle
  <2>2. SameView
    BY <1>a, <1>d, <1>e, <2>1 DEF SameView
  <2> QED BY <2>2, SameViewStutters
<1> QED BY <1>1, <1>2

LEMMA TakeSeqRefines ==
  ASSUME IInv, NEW o \in Op, TakeSeq(o)
  PROVE  UNCHANGED Promise!vars
<1>a. call[o].pc = "snapshot" /\ o \notin waiting
  BY DEF IInv, EntriesAlive, TakeSeq
<1>b. call'[o].pc = "numbered"
  BY DEF IInv, TypeOK, Call, TakeSeq
<1>c. \A x \in Op \ {o} : call'[x] = call[x] /\ io'[x] = io[x]
  BY DEF IInv, TypeOK, TakeSeq
<1>d. \A x \in Op \ {o} : Handle(x)' = Handle(x) /\ Target(x)' = Target(x)
  <2>1. waiting' = waiting
    BY DEF TakeSeq
  <2> QED BY <1>c, <2>1 DEF Handle, Target
<1>e. Handle(o) = "none" /\ Handle(o)' = "none"
        /\ Target(o) = None /\ Target(o)' = None
  BY <1>a, <1>b DEF Handle, Target, TakeSeq
<1>1. SameView
  BY <1>d, <1>e DEF SameView, TakeSeq
<1> QED BY <1>1, SameViewStutters
-----------------------------------------------------------------------------
(* The waiting call becomes a pending operation, on its buffer if it is a  *)
(* receive.                                                                *)
LEMMA EnqueueRefines ==
  ASSUME IInv, NEW o \in Op, call[o].pc = "numbered", Enqueue(o)
  PROVE  Promise!Next
<1> DEFINE t == IF call[o].req.role = "recv" THEN call[o].req.buffer ELSE None
<1>a. /\ o \notin waiting
      /\ io[o].mem = "live" /\ io[o].status = "PENDING"
      /\ call[o].req.buffer \in Buffer
      /\ buf[call[o].req.buffer].mem = "live"
  BY AtRendezvous
<1>b. /\ call'[o].pc = "returned"
      /\ \A x \in Op : /\ call'[x].req = call[x].req
                       /\ x # o => call'[x] = call[x]
  BY GotoFrame DEF IInv, Enqueue
<1>c. /\ waiting' = waiting \cup {o}
      /\ \A x \in Op : io'[x].mem = io[x].mem /\ io'[x].status = io[x].status
      /\ \A b \in Buffer : buf'[b].mem = buf[b].mem
  BY DEF Enqueue, IInv, TypeOK, Io, Buf
<1>d. \A x \in Op \ {o} : Handle(x)' = Handle(x) /\ Target(x)' = Target(x)
  BY <1>b, <1>c DEF Handle, Target
<1>e. Handle(o) = "none" /\ Handle(o)' = "pending" /\ Target(o)' = t
  BY <1>a, <1>b, <1>c DEF Handle, Target
<1>f. t \in Buffer \cup {None} /\ t \in {b \in Buffer : buf[b].mem = "live"} \cup {None}
  BY <1>a
<1> HIDE DEF t
<1>1. Promise!Submit(o, t)
  BY <1>c, <1>d, <1>e, <1>f DEF Promise!Submit
<1> QED BY <1>1, <1>f DEF Promise!Next

(* Match and mismatch let go of the entry's buffer, if it is a receive;    *)
(* no handle changes yet.                                                  *)
LEMMA CloseEntryRefines ==
  ASSUME IInv, NEW o \in Op, call[o].pc = "numbered",
         NEW pc \in InSection, Goto(o, pc),
         NEW p \in waiting, waiting' = waiting \ {p},
         \A x \in Op : io'[x].mem = io[x].mem /\ io'[x].status = io[x].status,
         \A b \in Buffer : buf'[b].mem = buf[b].mem
  PROVE  [Promise!Next]_(Promise!vars)
<1>a. /\ o \notin waiting /\ p \in Op /\ p # o
      /\ io[p].mem = "live" /\ io[p].status = "PENDING" /\ call[p].pc = "returned"
  BY AtRendezvous
<1>b. /\ call'[o].pc = pc /\ pc # "returned"
      /\ \A x \in Op : x # o => call'[x] = call[x]
  BY GotoFrame DEF IInv, InSection
<1>c. \A x \in Op : Handle(x)' = Handle(x)
  <2>1. Handle(o) = "none" /\ Handle(o)' = "none"
    BY <1>b DEF Handle
  <2>2. \A x \in Op : x # o => Handle(x)' = Handle(x)
    BY <1>b DEF Handle
  <2> QED BY <2>1, <2>2
<1>d. \A x \in Op : x # p => Target(x)' = Target(x)
  <2>1. Target(o) = None /\ Target(o)' = None
    BY <1>a DEF Target
  <2>2. \A x \in Op : x # o /\ x # p => Target(x)' = Target(x)
    BY <1>b DEF Target
  <2> QED BY <2>1, <2>2
<1>e. Target(p)' = None /\ Handle(p) = "pending"
  BY <1>a DEF Target, Handle
<1>1. Promise!LetGo(p)
  BY <1>a, <1>c, <1>d, <1>e DEF Promise!LetGo
<1> QED BY <1>a, <1>1 DEF Promise!Next

LEMMA RejectRefines ==
  ASSUME IInv, NEW o \in Op, call[o].pc = "numbered", NEW p \in waiting,
         Reject(o, p)
  PROVE  [Promise!Next]_(Promise!vars)
<1>1. \A b \in Buffer : buf'[b].mem = buf[b].mem
  BY DEF Reject, IInv, TypeOK, Buf
<1>2. waiting' = waiting \ {p} /\ io' = io /\ Goto(o, "rejected")
  BY DEF Reject
<1>3. "rejected" \in InSection
  BY DEF InSection
<1> QED BY <1>1, <1>2, <1>3, CloseEntryRefines

LEMMA DeliverRefines ==
  ASSUME IInv, NEW o \in Op, call[o].pc = "numbered", NEW p \in waiting,
         Deliver(o, p)
  PROVE  [Promise!Next]_(Promise!vars)
<1>1. \A b \in Buffer : buf'[b].mem = buf[b].mem
  <2> DEFINE s == Sender(o, p)
             r == Receiver(o, p)
  <2>1. buf' = [buf EXCEPT ![call[r].req.buffer].data = call[s].payload,
                           ![call[r].req.buffer].ref = IF r = p THEN @ - 1 ELSE @]
    BY DEF Deliver
  <2> HIDE DEF s, r
  <2> QED BY <2>1 DEF IInv, TypeOK, Buf
<1>2. waiting' = waiting \ {p} /\ Goto(o, "matched")
  BY DEF Deliver, CloseMatched
<1>3. \A x \in Op : io'[x].mem = io[x].mem /\ io'[x].status = io[x].status
  BY DEF Deliver, CloseMatched, IInv, TypeOK, Io
<1>4. "matched" \in InSection
  BY DEF InSection
<1> QED BY <1>1, <1>2, <1>3, <1>4, CloseEntryRefines

(* A handle the application has finishes; the submitter's own handle, which *)
(* it has not returned yet, changes unseen.                                 *)
LEMMA FinishSlotRefines ==
  ASSUME IInv, NEW o \in Op, FinishSlot(o)
  PROVE  [Promise!Next]_(Promise!vars)
<1> DEFINE v == IF Verdict(o) = "OK" THEN "ok" ELSE "failed"
<1>a. PICK h \in closing :
        /\ io' = [io EXCEPT ![h].status = Verdict(o), ![h].ref = @ - 1]
        /\ UNCHANGED <<call, waiting, buf>>
  BY DEF FinishSlot, Slots
<1>b. /\ h \in Op /\ h \notin waiting
      /\ io[h].mem = "live" /\ io[h].status = "PENDING"
  BY DEF IInv, TypeOK, EntriesAlive
<1>c. /\ \A x \in Op : x # h => io'[x] = io[x]
      /\ io'[h].mem = "live" /\ io'[h].status = Verdict(o)
  BY <1>a, <1>b DEF IInv, TypeOK, Io
<1>d. /\ \A x \in Op : x # h => Handle(x)' = Handle(x)
      /\ \A x \in Op : Target(x)' = Target(x)
      /\ Target(h) = None
  <2>0. call' = call /\ waiting' = waiting
    BY <1>a
  <2>1. \A x \in Op : x # h => Handle(x)' = Handle(x)
    BY <1>c, <2>0 DEF Handle
  <2>2. \A x \in Op : Target(x)' = Target(x)
    BY <2>0 DEF Target
  <2>3. Target(h) = None
    BY <1>b DEF Target
  <2> QED BY <2>1, <2>2, <2>3
<1>e. Verdict(o) \in {"OK", "INVALID"}
  BY DEF Verdict
<1>1. CASE call[h].pc = "returned"
  <2>1. Handle(h) = "pending" /\ Handle(h)' = v /\ v \in {"ok", "failed"}
    BY <1>a, <1>b, <1>c, <1>e, <1>1 DEF Handle
  <2> HIDE DEF v
  <2>2. FinishView(h, v)
    BY <1>a, <1>d, <2>1 DEF FinishView
  <2> QED BY <1>b, <2>1, <2>2, FinishViewFinishes
<1>2. CASE call[h].pc # "returned"
  <2>1. Handle(h) = "none" /\ Handle(h)' = "none"
    BY <1>a, <1>2 DEF Handle
  <2>2. SameView
    BY <1>a, <1>d, <2>1 DEF SameView
  <2> QED BY <2>2, SameViewStutters
<1> QED BY <1>1, <1>2

(* The call returns a handle that is finished already.                     *)
LEMMA LeaveRefines ==
  ASSUME IInv, NEW o \in Op, Leave(o)
  PROVE  Promise!Next
<1> DEFINE v == IF io'[o].status = "OK" THEN "ok" ELSE "failed"
<1>a. /\ call[o].pc \in InSection /\ o \notin closing
      /\ io' = IF call[o].pc = "rejected"
                 THEN [io EXCEPT ![o].status = "INVALID"] ELSE io
      /\ UNCHANGED <<waiting, buf>>
  BY DEF Leave, Slots
<1>b. /\ call'[o].pc = "returned"
      /\ \A x \in Op : x # o => call'[x] = call[x]
  BY GotoFrame DEF IInv, Leave
<1>c. /\ \A x \in Op : x # o => io'[x] = io[x]
      /\ io'[o].mem = io[o].mem
      /\ call[o].pc = "rejected" => io'[o].status = "INVALID"
      /\ call[o].pc # "rejected" => io'[o].status = io[o].status
  BY <1>a DEF IInv, TypeOK, Io
<1>d. o \notin waiting /\ io[o].mem = "live" /\ io'[o].status # "PENDING"
  BY <1>a, <1>c DEF IInv, EntriesAlive, HandlesFollowCalls, InSection
<1>e. \A x \in Op : x # o => Handle(x)' = Handle(x) /\ Target(x)' = Target(x)
  BY <1>a, <1>b, <1>c DEF Handle, Target
<1>f. Handle(o) = "none" /\ Handle(o)' = v
  BY <1>a, <1>b, <1>c, <1>d DEF Handle, InSection
<1>g. Target(o)' = None /\ v \in {"ok", "failed"}
  BY <1>a, <1>d DEF Target
<1> HIDE DEF v
<1>1. FinishView(o, v)
  BY <1>a, <1>e, <1>f, <1>g DEF FinishView
<1> QED BY <1>1, <1>g, FinishViewFinishes

(* A handle with no reference is finished, so releasing it is allowed.     *)
LEMMA IoReleaseRefines ==
  ASSUME IInv, NEW o \in Op, flume_io_release(o)
  PROVE  Promise!Next
<1>a. o \notin waiting \cup closing /\ io[o].status # "PENDING"
  BY DEF flume_io_release, IInv, RefCountsExact, NoOrphanHandle
<1>b. /\ \A x \in Op : x # o => io'[x] = io[x]
      /\ io'[o].mem = "freed"
  BY DEF flume_io_release, IInv, TypeOK, Io
<1>c. \A x \in Op \ {o} : Handle(x)' = Handle(x) /\ Target(x)' = Target(x)
  BY <1>b DEF Handle, Target, flume_io_release
<1>d. /\ Handle(o) \in {"ok", "failed"} /\ Handle(o)' = "freed"
      /\ Target(o)' = Target(o)
  BY <1>a, <1>b DEF Handle, Target, flume_io_release
<1>1. Promise!ReleaseHandle(o)
  BY <1>c, <1>d DEF Promise!ReleaseHandle, Promise!Verdict, flume_io_release
<1> QED BY <1>1 DEF Promise!Next

(* A buffer with no reference is the target of nothing pending.            *)
LEMMA BufferReleaseRefines ==
  ASSUME IInv, NEW b \in Buffer, flume_buffer_release(b)
  PROVE  Promise!Next
<1>a. \A o \in Op : Target(o) # b
  BY WaitingRecvCounts, SimP2pAssumption DEF Target, flume_buffer_release
<1>b. \A o \in Op : Handle(o)' = Handle(o) /\ Target(o)' = Target(o)
  BY DEF Handle, Target, flume_buffer_release
<1>c. /\ buf'[b].mem = "freed" /\ buf[b].mem = "live"
      /\ \A c \in Buffer : c # b => buf'[c] = buf[c]
  BY DEF flume_buffer_release, IInv, TypeOK, Buf
<1>1. Promise!ReleaseBuffer(b)
  BY <1>a, <1>b, <1>c DEF Promise!ReleaseBuffer
<1> QED BY <1>1 DEF Promise!Next
-----------------------------------------------------------------------------
LEMMA StepRefines == IInv /\ [Next]_vars => [Promise!Next]_(Promise!vars)
<1> SUFFICES ASSUME IInv, [Next]_vars PROVE [Promise!Next]_(Promise!vars)
  OBVIOUS
<1>1. CASE \E w \in World : flume_attach_sim_comm(w)
  <2>1. SameView
    BY <1>1 DEF SameView, Handle, Target, flume_attach_sim_comm
  <2> QED BY <2>1, SameViewStutters
<1>2. CASE \E o \in Op, q \in Request : Begin(o, q)
  BY <1>2, BeginRefines
<1>3. CASE \E o \in Op : TakeSeq(o)
  BY <1>3, TakeSeqRefines
<1>4. CASE \E o \in Op : Rendezvous(o)
  BY <1>4, EnqueueRefines, RejectRefines, DeliverRefines DEF Rendezvous
<1>9. CASE \E o \in Op : FinishSlot(o)
  BY <1>9, FinishSlotRefines
<1>10. CASE \E o \in Op : Leave(o)
  BY <1>10, LeaveRefines
<1>5. CASE \E o \in Op : flume_io_release(o)
  BY <1>5, IoReleaseRefines
<1>6. CASE \E b \in Buffer : flume_buffer_release(b)
  BY <1>6, BufferReleaseRefines
<1>7. CASE \E w \in Write : AppWrite(w)
  <2>1. \A b \in Buffer : buf'[b].mem = buf[b].mem
    BY <1>7 DEF AppWrite, IInv, TypeOK, Buf
  <2>2. SameView
    BY <1>7, <2>1 DEF SameView, Handle, Target, AppWrite
  <2> QED BY <2>2, SameViewStutters
<1>8. CASE UNCHANGED vars
  <2>1. SameView
    BY <1>8 DEF SameView, Handle, Target, vars
  <2> QED BY <2>1, SameViewStutters
<1> QED BY <1>1, <1>2, <1>3, <1>4, <1>5, <1>6, <1>7, <1>8, <1>9, <1>10
        DEF Next, Step

(* The point-to-point rendezvous implements the promise of AsyncIo: one     *)
(* verdict per handle, no release of a handle or buffer that is in use.     *)
THEOREM Implements == Spec => KeepsAsyncIo
BY InitRefines, StepRefines, Invariance, PTL DEF Spec, KeepsAsyncIo, Promise!Spec
=============================================================================
