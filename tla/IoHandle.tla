------------------------------- MODULE IoHandle -------------------------------
(***************************************************************************)
(* One flume_io_t, at the grain of its mutex and condition variable: the   *)
(* thread that completes it (CompletePendingIo), application threads in    *)
(* flume_wait, and flume_io_release.                                       *)
(*                                                                         *)
(* A "pending" handle is completed by another thread, which holds one      *)
(* pending reference until then.  A "stream" handle (MakeAclStreamIo) is   *)
(* completed by the first flume_wait, which synchronises the ACL stream.   *)
(* A step of a thread is one critical section under io->mu, one blocking   *)
(* call, or one notify_all.                                                *)
(***************************************************************************)
EXTENDS Naturals, FiniteSets

CONSTANTS
  Thread,   \* application threads that wait on the handle
  Kind,     \* the kinds of handle considered
  Patience  \* the flume_wait timeouts used: "zero", "finite", "never"

ASSUME IoHandleAssumption ==
  /\ Kind \subseteq {"pending", "stream"}
  /\ Patience \subseteq {"zero", "finite", "never"} /\ Patience # {}

VARIABLES
  kind,         \* how the handle was made
  mem,          \* the flume_io object: "live" or "freed"
  status,       \* io->status; io->done is "status # PENDING"
  refs,         \* io->pending_ref_count
  syncStarted,  \* io->sync_started
  stream,       \* the ACL stream: "busy", then "ok" or "error"
  worker,       \* the completing thread
  pc,           \* pc[t]: where t is in flume_wait; "app" outside
  patience,     \* patience[t]: the timeout of t's latest flume_wait
  result,       \* result[t]: what it returned
  asleep        \* threads blocked in io->cv and not notified

vars == <<kind, mem, status, refs, syncStarted, stream, worker, pc, patience,
          result, asleep>>

Verdict == {"OK", "BACKEND"}
Done == status # "PENDING"

TypeOK ==
  /\ kind \in Kind
  /\ mem \in {"live", "freed"}
  /\ status \in Verdict \cup {"PENDING"}
  /\ refs \in {0, 1}
  /\ syncStarted \in BOOLEAN
  /\ stream \in {"busy", "ok", "error"}
  /\ worker \in {"running", "notifying", "gone"}
  /\ pc \in [Thread -> {"app", "sync", "notifying", "check", "blocked"}]
  /\ patience \in [Thread -> Patience]
  /\ result \in [Thread -> Verdict \cup {"none", "TIMEOUT"}]
  /\ asleep \in SUBSET Thread

Init ==
  /\ kind \in Kind
  /\ mem = "live" /\ status = "PENDING"
  /\ refs = IF kind = "pending" THEN 1 ELSE 0
  /\ worker = IF kind = "pending" THEN "running" ELSE "gone"
  /\ syncStarted = FALSE
  /\ stream = "busy"
  /\ pc = [t \in Thread |-> "app"]
  /\ patience = [t \in Thread |-> CHOOSE p \in Patience : TRUE]
  /\ result = [t \in Thread |-> "none"]
  /\ asleep = {}

Return(t, r) ==
  /\ pc' = [pc EXCEPT ![t] = "app"]
  /\ result' = [result EXCEPT ![t] = r]
-----------------------------------------------------------------------------
(* External: the device works the stream off.                              *)
StreamFinishes ==
  /\ kind = "stream" /\ stream = "busy"
  /\ stream' \in {"ok", "error"}
  /\ UNCHANGED <<kind, mem, status, refs, syncStarted, worker, pc, patience,
                 result, asleep>>

(* Bug: the handle is marked and never notified.                           *)
WorkerMarks_Silent ==
  /\ worker = "running"
  /\ status' \in Verdict
  /\ refs' = refs - 1
  /\ worker' = "gone"
  /\ UNCHANGED <<kind, mem, syncStarted, stream, pc, patience, result, asleep>>

(* CompletePendingIo, the critical section: verdict and reference together.*)
WorkerMarks ==
  /\ worker = "running"
  /\ status' \in Verdict
  /\ refs' = refs - 1
  /\ worker' = "notifying"
  /\ UNCHANGED <<kind, mem, syncStarted, stream, pc, patience, result, asleep>>

(* Bug: the reference is dropped a second time with the notification.      *)
WorkerNotifies_DropsAgain ==
  /\ worker = "notifying"
  /\ worker' = "gone"
  /\ refs' = refs - 1
  /\ asleep' = {}
  /\ UNCHANGED <<kind, mem, status, syncStarted, stream, pc, patience, result>>

(* Bug: notify_one instead of notify_all.                                  *)
WorkerNotifies_One ==
  /\ worker = "notifying"
  /\ worker' = "gone"
  /\ asleep' = asleep \ {CHOOSE t \in Thread : asleep = {} \/ t \in asleep}
  /\ UNCHANGED <<kind, mem, status, refs, syncStarted, stream, pc, patience,
                 result>>

(* CompletePendingIo, io->cv.notify_all() after the unlock.                *)
WorkerNotifies ==
  /\ worker = "notifying"
  /\ worker' = "gone"
  /\ asleep' = {}
  /\ UNCHANGED <<kind, mem, status, refs, syncStarted, stream, pc, patience,
                 result>>

(* Bug: every waiter synchronises the stream, started or not.              *)
EnterWait_AllSync(t, p) ==
  /\ mem = "live" /\ pc[t] = "app"
  /\ patience' = [patience EXCEPT ![t] = p]
  /\ syncStarted' = (syncStarted \/ (kind = "stream" /\ ~Done))
  /\ pc' = [pc EXCEPT ![t] =
              IF kind = "stream" /\ ~Done THEN "sync" ELSE "check"]
  /\ UNCHANGED <<kind, mem, status, refs, stream, worker, result, asleep>>

(* flume_wait, first critical section: who synchronises the stream?  A     *)
(* build without HCCL has no stream handles and goes straight on.          *)
EnterWait(t, p) ==
  /\ mem = "live" /\ pc[t] = "app"
  /\ patience' = [patience EXCEPT ![t] = p]
  /\ IF kind = "stream" /\ ~Done
     THEN IF p = "zero"
          THEN Return(t, "TIMEOUT") /\ UNCHANGED syncStarted
          ELSE /\ syncStarted' = TRUE
               /\ pc' = [pc EXCEPT ![t] = IF syncStarted THEN "check" ELSE "sync"]
               /\ UNCHANGED result
     ELSE pc' = [pc EXCEPT ![t] = "check"] /\ UNCHANGED <<syncStarted, result>>
  /\ UNCHANGED <<kind, mem, status, refs, stream, worker, asleep>>

(* aclrtSynchronizeStreamWithTimeout runs out: the next waiter may try.    *)
SyncTimesOut(t) ==
  /\ pc[t] = "sync" /\ patience[t] = "finite" /\ stream = "busy"
  /\ syncStarted' = FALSE
  /\ Return(t, "TIMEOUT")
  /\ UNCHANGED <<kind, mem, status, refs, stream, worker, patience, asleep>>

(* The stream is synchronised: CompleteIo, the critical section.           *)
SyncCompletes(t) ==
  /\ pc[t] = "sync" /\ stream # "busy"
  /\ status' = IF stream = "ok" THEN "OK" ELSE "BACKEND"
  /\ pc' = [pc EXCEPT ![t] = "notifying"]
  /\ UNCHANGED <<kind, mem, refs, syncStarted, stream, worker, patience, result,
                 asleep>>

(* CompleteIo, notify_all.                                                 *)
WaiterNotifies(t) ==
  /\ pc[t] = "notifying"
  /\ asleep' = {}
  /\ pc' = [pc EXCEPT ![t] = "check"]
  /\ UNCHANGED <<kind, mem, status, refs, syncStarted, stream, worker, patience,
                 result>>

(* flume_wait, last critical section: return the verdict, or give up, or   *)
(* fall asleep in the same critical section as the test of io->done.       *)
Check(t) ==
  /\ pc[t] = "check"
  /\ IF Done THEN Return(t, status) /\ UNCHANGED asleep
     ELSE IF patience[t] = "zero" THEN Return(t, "TIMEOUT") /\ UNCHANGED asleep
     ELSE /\ pc' = [pc EXCEPT ![t] = "blocked"]
          /\ asleep' = asleep \cup {t}
          /\ UNCHANGED result
  /\ UNCHANGED <<kind, mem, status, refs, syncStarted, stream, worker, patience>>

(* Bug: cv.wait without the predicate.                                     *)
WakeUp_NoPredicate(t) ==
  /\ pc[t] = "blocked" /\ t \notin asleep
  /\ Return(t, status)
  /\ UNCHANGED <<kind, mem, status, refs, syncStarted, stream, worker, patience,
                 asleep>>

(* A notified thread re-acquires io->mu and tests the predicate again.     *)
WakeUp(t) ==
  /\ pc[t] = "blocked" /\ t \notin asleep
  /\ IF Done THEN Return(t, status) /\ UNCHANGED asleep
     ELSE asleep' = asleep \cup {t} /\ UNCHANGED <<pc, result>>
  /\ UNCHANGED <<kind, mem, status, refs, syncStarted, stream, worker, patience>>

(* Bug: a waiter that gives up completes the handle.                       *)
WaitTimesOut_Completes(t) ==
  /\ pc[t] = "blocked" /\ patience[t] = "finite"
  /\ asleep' = asleep \ {t}
  /\ status' = IF Done THEN status ELSE "BACKEND"
  /\ Return(t, IF Done THEN status ELSE "TIMEOUT")
  /\ UNCHANGED <<kind, mem, refs, syncStarted, stream, worker, patience>>

(* wait_for expires: the predicate decides once more.                      *)
WaitTimesOut(t) ==
  /\ pc[t] = "blocked" /\ patience[t] = "finite"
  /\ asleep' = asleep \ {t}
  /\ Return(t, IF Done THEN status ELSE "TIMEOUT")
  /\ UNCHANGED <<kind, mem, status, refs, syncStarted, stream, worker, patience>>

(* A spurious wakeup, which std::condition_variable allows.                *)
Spurious(t) ==
  /\ t \in asleep
  /\ asleep' = asleep \ {t}
  /\ UNCHANGED <<kind, mem, status, refs, syncStarted, stream, worker, pc,
                 patience, result>>

(* Bug: no pending_ref_count guard.                                        *)
flume_io_release_Unguarded ==
  /\ mem = "live"
  /\ \A t \in Thread : pc[t] = "app"
  /\ mem' = "freed"
  /\ UNCHANGED <<kind, status, refs, syncStarted, stream, worker, pc, patience,
                 result, asleep>>

(* flume_io_release deletes an unreferenced handle.  The application calls *)
(* it when none of its threads is inside flume_wait.                       *)
flume_io_release ==
  /\ mem = "live" /\ refs = 0
  /\ \A t \in Thread : pc[t] = "app"
  /\ mem' = "freed"
  /\ UNCHANGED <<kind, status, refs, syncStarted, stream, worker, pc, patience,
                 result, asleep>>

Waiting(t) ==
  \/ SyncTimesOut(t) \/ SyncCompletes(t) \/ WaiterNotifies(t) \/ Check(t)
  \/ WakeUp(t) \/ WaitTimesOut(t)

Next ==
  \/ StreamFinishes
  \/ WorkerMarks \/ WorkerNotifies
  \/ \E t \in Thread, p \in Patience : EnterWait(t, p)
  \/ \E t \in Thread : Waiting(t) \/ Spurious(t)
  \/ flume_io_release

Spec == Init /\ [][Next]_vars

(* The transport and the device finish what they started, and threads that *)
(* can run do run.  Entering flume_wait, spurious wakeups and the release  *)
(* are not promised.                                                       *)
FairSpec ==
  /\ Spec
  /\ WF_vars(StreamFinishes) /\ WF_vars(WorkerMarks) /\ WF_vars(WorkerNotifies)
  /\ \A t \in Thread : WF_vars(Waiting(t))
-----------------------------------------------------------------------------
Inside(t) == pc[t] # "app"
Notifying == worker = "notifying" \/ \E t \in Thread : pc[t] = "notifying"

(* No wakeup is lost: a thread asleep on a finished handle still has its   *)
(* notify_all ahead of it, because flume_wait tests io->done and falls     *)
(* asleep under the mutex that CompleteIo and CompletePendingIo set it     *)
(* under.                                                                  *)
NoLostWakeup == asleep # {} /\ Done => Notifying

(* One thread at a time owns the stream: between the sync_started it set   *)
(* and the verdict or timeout that ends it nobody else synchronises or     *)
(* completes the handle.                                                   *)
OneSynchroniser ==
  \A t, u \in Thread :
    /\ pc[t] = "sync" => syncStarted /\ ~Done
    /\ pc[t] \in {"sync", "notifying"} /\ pc[u] \in {"sync", "notifying"} => t = u

(* A verdict is final: once done, no later step of any thread changes the  *)
(* status that flume_wait and flume_io_status hand out.                    *)
VerdictFinal == [][Done => status' = status]_vars

(* What flume_wait returns is the handle's verdict, or a timeout its       *)
(* caller asked for: a wait without limit never reports one.               *)
HonestResult ==
  [][\A t \in Thread : Inside(t) /\ pc'[t] = "app" =>
       \/ result'[t] = status /\ Done
       \/ result'[t] = "TIMEOUT" /\ patience[t] # "never"]_vars

(* A handle that a transport thread will still complete is not deleted     *)
(* before it has its verdict: CompletePendingIo drops the reference that   *)
(* flume_io_release tests only with the verdict.  It says nothing of       *)
(* stream handles, which hold no reference.                                *)
PendingKept == kind = "pending" /\ ~Done => mem = "live"


(* A stream handle on which no thread synchronises any more, because the   *)
(* one that did timed out while others slept.                              *)
Abandoned == kind = "stream" /\ ~Done /\ ~syncStarted

(* Every flume_wait returns once the operation has finished, except for    *)
(* sleepers on a stream handle whose synchronising thread timed out: no    *)
(* notify_all follows that timeout.                                        *)
WaitReturns == \A t \in Thread : Inside(t) ~> (~Inside(t) \/ Abandoned)

(* Once flume_wait has handed out the verdict, flume_io_release is safe:   *)
(* CompletePendingIo has nothing left to do on a handle that was waited    *)
(* for and deleted, the order in which every test uses a handle.           *)
NotifierAlive ==
  mem = "freed" /\ (\E t \in Thread : result[t] \in Verdict)
    => worker # "notifying"
=============================================================================
