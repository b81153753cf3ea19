------------------------------- MODULE AsyncIo -------------------------------
(***************************************************************************)
(* What an asynchronous operation that another thread completes promises   *)
(* about its handle (flume_io_t) and about the buffer it will use          *)
(* (flume_buffer_t):                                                       *)
(*   - a handle is created pending or already finished, finishes once with *)
(*     one verdict, and can be released only after it finished;            *)
(*   - a buffer an unfinished operation will still use cannot be released. *)
(* The simulated rendezvous, the simulated collectives and the RoCE        *)
(* session are shown to implement it.  Handles bound to an ACL stream      *)
(* (MakeAclStreamIo) hold no reference and do not keep this promise; see   *)
(* IoHandle.                                                               *)
(***************************************************************************)
CONSTANTS
  Op,        \* the asynchronous operations, one handle each
  Buffer,    \* the registered buffers
  None       \* "this operation writes no buffer"; not in Buffer

VARIABLES
  handle,    \* handle[o]: where the handle of operation o is in its life
  target,    \* target[o]: the buffer operation o will write, while pending
  pinned     \* buffers that still exist

vars == <<handle, target, pinned>>

Verdict == {"ok", "failed"}

TypeOK ==
  /\ handle \in [Op -> {"none", "pending", "freed"} \cup Verdict]
  /\ target \in [Op -> Buffer \cup {None}]
  /\ pinned \in SUBSET Buffer

Init ==
  /\ handle = [o \in Op |-> "none"]
  /\ target = [o \in Op |-> None]
  /\ pinned = Buffer

(* Operation o starts and will later write t (None for an operation that   *)
(* only reads).                                                            *)
Submit(o, t) ==
  /\ handle[o] = "none"
  /\ t \in pinned \cup {None}
  /\ handle' = [handle EXCEPT ![o] = "pending"]
  /\ target' = [target EXCEPT ![o] = t]
  /\ UNCHANGED pinned

(* Operation o finishes with verdict v, later or at once.                  *)
Finish(o, v) ==
  /\ handle[o] \in {"none", "pending"}
  /\ handle' = [handle EXCEPT ![o] = v]
  /\ target' = [target EXCEPT ![o] = None]
  /\ UNCHANGED pinned

(* An unfinished operation is done with its buffer.                        *)
LetGo(o) ==
  /\ handle[o] = "pending"
  /\ target' = [target EXCEPT ![o] = None]
  /\ UNCHANGED <<handle, pinned>>

ReleaseHandle(o) ==
  /\ handle[o] \in Verdict
  /\ handle' = [handle EXCEPT ![o] = "freed"]
  /\ UNCHANGED <<target, pinned>>

ReleaseBuffer(b) ==
  /\ b \in pinned
  /\ \A o \in Op : target[o] # b
  /\ pinned' = pinned \ {b}
  /\ UNCHANGED <<handle, target>>

Next ==
  \/ \E o \in Op : \E t \in Buffer \cup {None} : Submit(o, t)
  \/ \E o \in Op : \E v \in Verdict : Finish(o, v)
  \/ \E o \in Op : LetGo(o) \/ ReleaseHandle(o)
  \/ \E b \in Buffer : ReleaseBuffer(b)

Spec == Init /\ [][Next]_vars
=============================================================================
