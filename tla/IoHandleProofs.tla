---------------------------- MODULE IoHandleProofs ----------------------------
(***************************************************************************)
(* Proofs about IoHandle, for any number of waiting threads.               *)
(***************************************************************************)
EXTENDS IoHandle, TLAPS

(* The reference is the completing thread's, and it is gone exactly when   *)
(* the verdict is there.                                                   *)
WorkerOwnsReference ==
  /\ refs = IF worker = "running" THEN 1 ELSE 0
  /\ kind = "pending" => (worker = "running" <=> ~Done)
  /\ kind = "stream" => worker = "gone"

(* Only stream handles are synchronised, and a waiter that is about to     *)
(* notify has set the verdict.                                             *)
SynchroniserOfStream ==
  \A t \in Thread : /\ pc[t] \in {"sync", "notifying"} => kind = "stream"
                    /\ pc[t] = "notifying" => Done

(* The inductive invariant.                                                *)
IInv ==
  /\ TypeOK
  /\ NoLostWakeup
  /\ OneSynchroniser
  /\ PendingKept
  /\ WorkerOwnsReference
  /\ SynchroniserOfStream
-----------------------------------------------------------------------------
LEMMA InitIInv == Init => IInv
<1> SUFFICES ASSUME Init PROVE IInv
  OBVIOUS
<1>1. (CHOOSE p \in Patience : TRUE) \in Patience
  BY IoHandleAssumption
<1>2. TypeOK
  BY <1>1, IoHandleAssumption DEF Init, TypeOK, Verdict
<1>3. NoLostWakeup /\ OneSynchroniser /\ PendingKept
  BY DEF Init, NoLostWakeup, OneSynchroniser, PendingKept, Done
<1>4. WorkerOwnsReference /\ SynchroniserOfStream
  BY IoHandleAssumption DEF Init, WorkerOwnsReference, SynchroniserOfStream, Done
<1> QED BY <1>2, <1>3, <1>4 DEF IInv

(* The device finishes: only the stream changes.                           *)
LEMMA StreamFinishesIInv ==
  ASSUME IInv, StreamFinishes
  PROVE  IInv'
<1> USE DEF IInv, StreamFinishes
<1>1. TypeOK'
  BY DEF TypeOK
<1>2. (NoLostWakeup /\ OneSynchroniser /\ PendingKept)'
  BY DEF NoLostWakeup, OneSynchroniser, PendingKept, Done, Notifying
<1>3. (WorkerOwnsReference /\ SynchroniserOfStream)'
  BY DEF WorkerOwnsReference, SynchroniserOfStream, Done
<1> QED BY <1>1, <1>2, <1>3

(* The completing thread sets the verdict: it was pending, so it is a      *)
(* pending handle that nobody synchronises.                                *)
LEMMA WorkerMarksIInv ==
  ASSUME IInv, WorkerMarks
  PROVE  IInv'
<1> USE DEF IInv, WorkerMarks
<1>1. TypeOK'
  BY DEF TypeOK, WorkerOwnsReference
<1>2. kind = "pending" /\ ~Done /\ status' # "PENDING"
  BY IoHandleAssumption DEF TypeOK, WorkerOwnsReference, Verdict
<1>3. (NoLostWakeup /\ PendingKept)'
  BY <1>2 DEF NoLostWakeup, PendingKept, Done, Notifying
<1>4. \A t \in Thread : pc[t] \notin {"sync", "notifying"}
  BY <1>2 DEF SynchroniserOfStream
<1>5. (OneSynchroniser /\ SynchroniserOfStream)'
  BY <1>4 DEF OneSynchroniser, SynchroniserOfStream, Done
<1>6. WorkerOwnsReference'
  BY <1>2 DEF WorkerOwnsReference, Done, TypeOK
<1> QED BY <1>1, <1>3, <1>5, <1>6

LEMMA WorkerNotifiesIInv ==
  ASSUME IInv, WorkerNotifies
  PROVE  IInv'
<1> USE DEF IInv, WorkerNotifies
<1>1. TypeOK'
  BY DEF TypeOK
<1>2. (NoLostWakeup /\ OneSynchroniser /\ PendingKept)'
  BY DEF NoLostWakeup, OneSynchroniser, PendingKept, Done, Notifying
<1>3. (WorkerOwnsReference /\ SynchroniserOfStream)'
  BY DEF WorkerOwnsReference, SynchroniserOfStream, Done
<1> QED BY <1>1, <1>2, <1>3

(* A thread enters flume_wait; it synchronises the stream only if nobody   *)
(* has started to.                                                         *)
LEMMA EnterWaitIInv ==
  ASSUME IInv, NEW t \in Thread, NEW p \in Patience, EnterWait(t, p)
  PROVE  IInv'
<1> USE DEF IInv
<1>a. /\ pc[t] = "app" /\ mem = "live"
      /\ UNCHANGED <<kind, mem, status, refs, stream, worker, asleep>>
      /\ patience' = [patience EXCEPT ![t] = p]
  BY DEF EnterWait
<1>b. \/ /\ pc' = [pc EXCEPT ![t] = "sync"] /\ result' = result
         /\ kind = "stream" /\ ~Done /\ ~syncStarted /\ syncStarted' = TRUE
      \/ /\ pc' = [pc EXCEPT ![t] = "check"] /\ result' = result
         /\ syncStarted' \in {TRUE, syncStarted}
      \/ /\ pc' = [pc EXCEPT ![t] = "app"]
         /\ result' = [result EXCEPT ![t] = "TIMEOUT"]
         /\ syncStarted' = syncStarted
  BY DEF EnterWait, Return, TypeOK
<1>c. \A u \in Thread : u # t => pc'[u] = pc[u]
  BY <1>b DEF TypeOK
<1>d. pc'[t] # "notifying" /\ pc[t] # "notifying"
  BY <1>a, <1>b DEF TypeOK
<1>1. TypeOK'
  BY <1>a, <1>b DEF TypeOK, Verdict
<1>2. (NoLostWakeup /\ PendingKept /\ WorkerOwnsReference)'
  BY <1>a, <1>c, <1>d
     DEF NoLostWakeup, PendingKept, WorkerOwnsReference, Done, Notifying
<1>3. SynchroniserOfStream'
  BY <1>a, <1>b, <1>c, <1>d DEF SynchroniserOfStream, Done, TypeOK
<1>4. OneSynchroniser'
  <2>1. CASE pc'[t] = "sync"
    <3>1. kind = "stream" /\ ~Done /\ ~syncStarted /\ syncStarted' = TRUE
      BY <1>b, <2>1 DEF TypeOK
    <3>2. \A u \in Thread : pc[u] \notin {"sync", "notifying"}
      BY <3>1 DEF OneSynchroniser, SynchroniserOfStream
    <3> QED BY <1>a, <1>c, <3>1, <3>2 DEF OneSynchroniser, Done
  <2>2. CASE pc'[t] # "sync"
    <3>1. syncStarted => syncStarted'
      BY <1>b
    <3> QED BY <1>a, <1>c, <1>d, <2>2, <3>1 DEF OneSynchroniser, Done
  <2> QED BY <2>1, <2>2
<1> QED BY <1>1, <1>2, <1>3, <1>4

(* The synchronising thread gives up: it was the only one.                 *)
LEMMA SyncTimesOutIInv ==
  ASSUME IInv, NEW t \in Thread, SyncTimesOut(t)
  PROVE  IInv'
<1> USE DEF IInv
<1>a. /\ pc[t] = "sync" /\ pc' = [pc EXCEPT ![t] = "app"]
      /\ result' = [result EXCEPT ![t] = "TIMEOUT"]
      /\ syncStarted' = FALSE
      /\ UNCHANGED <<kind, mem, status, refs, stream, worker, patience, asleep>>
  BY DEF SyncTimesOut, Return
<1>b. pc'[t] = "app" /\ \A u \in Thread : u # t => pc'[u] = pc[u]
  BY <1>a DEF TypeOK
<1>c. \A u \in Thread : u # t => pc[u] \notin {"sync", "notifying"}
  BY <1>a DEF OneSynchroniser
<1>1. TypeOK'
  BY <1>a DEF TypeOK
<1>2. (NoLostWakeup /\ PendingKept /\ WorkerOwnsReference)'
  BY <1>a, <1>c DEF NoLostWakeup, PendingKept, WorkerOwnsReference, Done,
                    Notifying
<1>3. (OneSynchroniser /\ SynchroniserOfStream)'
  BY <1>b, <1>c DEF OneSynchroniser, SynchroniserOfStream
<1> QED BY <1>1, <1>2, <1>3

(* The synchronising thread sets the verdict and has its notify_all ahead. *)
LEMMA SyncCompletesIInv ==
  ASSUME IInv, NEW t \in Thread, SyncCompletes(t)
  PROVE  IInv'
<1> USE DEF IInv
<1>a. /\ pc[t] = "sync" /\ pc' = [pc EXCEPT ![t] = "notifying"]
      /\ status' \in Verdict
      /\ UNCHANGED <<kind, mem, refs, syncStarted, stream, worker, patience,
                     result, asleep>>
  BY DEF SyncCompletes, Verdict
<1>b. pc'[t] = "notifying" /\ \A u \in Thread : u # t => pc'[u] = pc[u]
  BY <1>a DEF TypeOK
<1>c. \A u \in Thread : u # t => pc[u] \notin {"sync", "notifying"}
  BY <1>a DEF OneSynchroniser
<1>d. kind = "stream" /\ status' # "PENDING"
  BY <1>a DEF SynchroniserOfStream, Verdict
<1>1. TypeOK'
  BY <1>a DEF TypeOK
<1>2. (NoLostWakeup /\ PendingKept /\ WorkerOwnsReference)'
  BY <1>a, <1>b, <1>d DEF NoLostWakeup, PendingKept, WorkerOwnsReference,
                          Done, Notifying
<1>3. (OneSynchroniser /\ SynchroniserOfStream)'
  BY <1>a, <1>b, <1>c, <1>d DEF OneSynchroniser, SynchroniserOfStream, Done
<1> QED BY <1>1, <1>2, <1>3

LEMMA WaiterNotifiesIInv ==
  ASSUME IInv, NEW t \in Thread, WaiterNotifies(t)
  PROVE  IInv'
<1> USE DEF IInv
<1>a. /\ asleep' = {} /\ pc' = [pc EXCEPT ![t] = "check"]
      /\ UNCHANGED <<kind, mem, status, refs, syncStarted, stream, worker,
                     patience, result>>
  BY DEF WaiterNotifies
<1>b. pc'[t] = "check" /\ \A u \in Thread : u # t => pc'[u] = pc[u]
  BY <1>a DEF TypeOK
<1>1. TypeOK'
  BY <1>a DEF TypeOK
<1>2. (NoLostWakeup /\ PendingKept /\ WorkerOwnsReference)'
  BY <1>a DEF NoLostWakeup, PendingKept, WorkerOwnsReference, Done
<1>3. (OneSynchroniser /\ SynchroniserOfStream)'
  BY <1>a, <1>b DEF OneSynchroniser, SynchroniserOfStream, Done
<1> QED BY <1>1, <1>2, <1>3

(* A step of flume_wait that touches neither the verdict nor the stream:   *)
(* it may only fall asleep on an unfinished handle.                        *)
LEMMA WaiterMovesIInv ==
  ASSUME IInv, NEW t \in Thread,
         pc[t] \in {"check", "blocked"},
         NEW l \in {"app", "blocked"}, pc' = [pc EXCEPT ![t] = l],
         result' \in [Thread -> Verdict \cup {"none", "TIMEOUT"}],
         asleep' \in SUBSET Thread,
         asleep' \subseteq asleep \/ ~Done,
         UNCHANGED <<kind, mem, status, refs, syncStarted, stream, worker,
                     patience>>
  PROVE  IInv'
<1> USE DEF IInv
<1>b. pc'[t] = l /\ \A u \in Thread : u # t => pc'[u] = pc[u]
  BY DEF TypeOK
<1>1. TypeOK'
  BY DEF TypeOK
<1>2. NoLostWakeup'
  <2>1. Notifying => Notifying'
    BY <1>b DEF Notifying
  <2>2. asleep' # {} /\ Done' => asleep # {} /\ Done
    BY DEF Done
  <2> QED BY <2>1, <2>2 DEF NoLostWakeup
<1>3. (PendingKept /\ WorkerOwnsReference)'
  BY DEF PendingKept, WorkerOwnsReference, Done
<1>4. (OneSynchroniser /\ SynchroniserOfStream)'
  BY <1>b DEF OneSynchroniser, SynchroniserOfStream, Done
<1> QED BY <1>1, <1>2, <1>3, <1>4

LEMMA CheckIInv ==
  ASSUME IInv, NEW t \in Thread, Check(t) \/ WakeUp(t) \/ WaitTimesOut(t)
  PROVE  IInv'
<1>a. /\ pc[t] \in {"check", "blocked"}
      /\ UNCHANGED <<kind, mem, status, refs, syncStarted, stream, worker,
                     patience>>
  BY DEF Check, WakeUp, WaitTimesOut
<1>b. pc' = [pc EXCEPT ![t] = "app"] \/ pc' = [pc EXCEPT ![t] = "blocked"]
  BY DEF Check, WakeUp, WaitTimesOut, Return, IInv, TypeOK
<1>c. asleep' \in SUBSET Thread /\ (asleep' \subseteq asleep \/ ~Done)
  BY DEF Check, WakeUp, WaitTimesOut, IInv, TypeOK
<1>d. Done => status \in Verdict
  BY DEF Done, IInv, TypeOK
<1>e. result' \in [Thread -> Verdict \cup {"none", "TIMEOUT"}]
  BY <1>d DEF Check, WakeUp, WaitTimesOut, Return, IInv, TypeOK
<1> QED BY <1>a, <1>b, <1>c, <1>e, WaiterMovesIInv

LEMMA SpuriousIInv ==
  ASSUME IInv, NEW t \in Thread, Spurious(t)
  PROVE  IInv'
<1> USE DEF IInv, Spurious
<1>1. TypeOK'
  BY DEF TypeOK
<1>2. (NoLostWakeup /\ OneSynchroniser /\ PendingKept)'
  BY DEF NoLostWakeup, OneSynchroniser, PendingKept, Done, Notifying
<1>3. (WorkerOwnsReference /\ SynchroniserOfStream)'
  BY DEF WorkerOwnsReference, SynchroniserOfStream, Done
<1> QED BY <1>1, <1>2, <1>3

(* Nobody holds the reference, so a pending handle has its verdict.        *)
LEMMA ReleaseIInv ==
  ASSUME IInv, flume_io_release
  PROVE  IInv'
<1> USE DEF IInv, flume_io_release
<1>1. TypeOK'
  BY DEF TypeOK
<1>2. (NoLostWakeup /\ OneSynchroniser)'
  BY DEF NoLostWakeup, OneSynchroniser, Done, Notifying
<1>3. PendingKept'
  BY DEF PendingKept, WorkerOwnsReference, Done
<1>4. (WorkerOwnsReference /\ SynchroniserOfStream)'
  BY DEF WorkerOwnsReference, SynchroniserOfStream, Done
<1> QED BY <1>1, <1>2, <1>3, <1>4
-----------------------------------------------------------------------------
LEMMA NextIInv == IInv /\ [Next]_vars => IInv'
<1> SUFFICES ASSUME IInv, [Next]_vars PROVE IInv'
  OBVIOUS
<1>1. CASE StreamFinishes \/ WorkerMarks \/ WorkerNotifies
  BY <1>1, StreamFinishesIInv, WorkerMarksIInv, WorkerNotifiesIInv
<1>2. CASE \E t \in Thread, p \in Patience : EnterWait(t, p)
  BY <1>2, EnterWaitIInv
<1>3. CASE \E t \in Thread : Waiting(t) \/ Spurious(t)
  BY <1>3, SyncTimesOutIInv, SyncCompletesIInv, WaiterNotifiesIInv, CheckIInv,
     SpuriousIInv DEF Waiting
<1>4. CASE flume_io_release
  BY <1>4, ReleaseIInv
<1>5. CASE UNCHANGED vars
  BY <1>5 DEF vars, IInv, TypeOK, NoLostWakeup, OneSynchroniser, PendingKept,
              WorkerOwnsReference, SynchroniserOfStream, Done, Notifying
<1> QED BY <1>1, <1>2, <1>3, <1>4, <1>5 DEF Next

LEMMA Invariance == Spec => []IInv
BY InitIInv, NextIInv, PTL DEF Spec

(* No wakeup is lost, whatever the number of threads in flume_wait.         *)
THEOREM WakeupsKept == Spec => []NoLostWakeup
<1>1. IInv => NoLostWakeup BY DEF IInv
<1> QED BY <1>1, Invariance, PTL

(* At most one thread of flume_wait synchronises the ACL stream.            *)
THEOREM SingleSynchroniser == Spec => []OneSynchroniser
<1>1. IInv => OneSynchroniser BY DEF IInv
<1> QED BY <1>1, Invariance, PTL

(* flume_io_release never deletes a handle that a transport thread will     *)
(* still complete.                                                          *)
THEOREM PendingNeverFreed == Spec => []PendingKept
<1>1. IInv => PendingKept BY DEF IInv
<1> QED BY <1>1, Invariance, PTL

(* A verdict is final: only WorkerMarks and SyncCompletes write the status, *)
(* and the invariant says it is still pending then.                         *)
THEOREM VerdictsFinal == Spec => VerdictFinal
<1>1. IInv /\ [Next]_vars => [Done => status' = status]_vars
  <2> SUFFICES ASSUME IInv, Next, Done PROVE status' = status
    OBVIOUS
  <2>1. ~WorkerMarks
    BY IoHandleAssumption
       DEF WorkerMarks, IInv, TypeOK, WorkerOwnsReference
  <2>2. \A t \in Thread : ~SyncCompletes(t)
    BY DEF SyncCompletes, IInv, OneSynchroniser
  <2> QED BY <2>1, <2>2
     DEF Next, Waiting, StreamFinishes, WorkerNotifies, EnterWait, SyncTimesOut,
         WaiterNotifies, Check, WakeUp, WaitTimesOut, Spurious, flume_io_release
<1> QED BY <1>1, Invariance, PTL DEF Spec, VerdictFinal

(* flume_wait hands out the verdict of the handle or a timeout its caller  *)
(* asked for: the steps that leave it test io->done, or follow a time      *)
(* limit.                                                                  *)
THEOREM ResultsHonest == Spec => HonestResult
<1> DEFINE Honest ==
      \A t \in Thread : Inside(t) /\ pc'[t] = "app" =>
        \/ result'[t] = status /\ Done
        \/ result'[t] = "TIMEOUT" /\ patience[t] # "never"
<1>1. IInv /\ [Next]_vars => [Honest]_vars
  <2> SUFFICES ASSUME IInv, Next, NEW t \in Thread, pc[t] # "app", pc'[t] = "app"
               PROVE  \/ result'[t] = status /\ Done
                      \/ result'[t] = "TIMEOUT" /\ patience[t] # "never"
    BY DEF Inside
  <2>1. pc \in [Thread -> {"app", "sync", "notifying", "check", "blocked"}]
        /\ result \in [Thread -> Verdict \cup {"none", "TIMEOUT"}]
    BY DEF IInv, TypeOK
  <2>2. ~(StreamFinishes \/ WorkerMarks \/ WorkerNotifies \/ flume_io_release)
    BY DEF StreamFinishes, WorkerMarks, WorkerNotifies, flume_io_release
  <2>3. ~\E u \in Thread, p \in Patience : EnterWait(u, p)
    BY <2>1 DEF EnterWait, Return
  <2>4. PICK u \in Thread : Waiting(u) \/ Spurious(u)
    BY <2>2, <2>3 DEF Next
  <2>5. ~(SyncCompletes(u) \/ WaiterNotifies(u) \/ Spurious(u))
    BY <2>1 DEF SyncCompletes, WaiterNotifies, Spurious
  <2>6. CASE SyncTimesOut(u) \/ WaitTimesOut(u)
    BY <2>1, <2>6 DEF SyncTimesOut, WaitTimesOut, Return
  <2>7. CASE Check(u) \/ WakeUp(u)
    BY <2>1, <2>7 DEF Check, WakeUp, Return
  <2> QED BY <2>4, <2>5, <2>6, <2>7 DEF Waiting
<1> QED BY <1>1, Invariance, PTL DEF Spec, HonestResult, Honest
=============================================================================
