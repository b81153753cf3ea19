------------------------------- MODULE SimP2p --------------------------------
(***************************************************************************)
(* Point-to-point rendezvous of simulated ranks: flume_p2p_send_async,     *)
(* flume_p2p_recv_async and the two-rank flume_hcomm_payload_*_async, with *)
(* the reference counts that guard flume_io_release and                    *)
(* flume_buffer_release.                                                   *)
(*                                                                         *)
(* A call runs in these steps:                                             *)
(*   Begin       - argument checks and the snapshot of the communicator    *)
(*                 under client->mu;                                       *)
(*   TakeSeq     - the sequence number under client->mu (a second, separate*)
(*                 acquisition), then the private copy of the payload and  *)
(*                 the new pending io;                                     *)
(*   Rendezvous  - under the mutex of the map, up to the memcpy and the    *)
(*                 release of the receive buffer;                          *)
(*   FinishSlot  - one handle of the entry finishes (CompletePendingIo),   *)
(*                 the map mutex still held;                               *)
(*   Leave       - the entry is erased, the mutex released, the call       *)
(*                 returns.                                                *)
(* The map mutex stops other submissions on the channel from Rendezvous to *)
(* Leave, and nobody else: handles and buffers are polled, waited for and  *)
(* released in between.  An entry that a submission matches or disagrees   *)
(* with is erased before that mutex is released, so the entries others can *)
(* find are single waiting submissions: the set "waiting".                 *)
(***************************************************************************)
EXTENDS Integers, FiniteSets

CONSTANTS
  Client,     \* flume_client_t objects of the process
  Op,         \* calls the application makes, one io each
  Buffer,     \* simulated buffers, allocated before the first call
  Owner,      \* Owner[b]: the client a buffer was allocated for
  World,      \* the flume_attach_sim_comm arguments the application uses
  Request,    \* the send and receive arguments the application uses
  Write,      \* what the application writes through flume_buffer_data
  Data,       \* payload contents; Zero is what an allocation holds
  Zero,
  None,       \* no buffer
  MaxAttach   \* bound on the flume_attach_sim_comm calls per client

(* p2p: flume_p2p_*_async and the map SimP2ps; hcomm: the simulated        *)
(* flume_hcomm_payload_*_async and the map SimHcommPayloads.               *)
Channel == {"p2p", "hcomm"}
Role == {"send", "recv"}
Status == {"PENDING", "OK", "INVALID", "UNSUPPORTED"}

(* A request's count stands for its count, data type and byte size.        *)
ASSUME SimP2pAssumption ==
  /\ Owner \in [Buffer -> Client]
  /\ \A w \in World : /\ w.client \in Client /\ w.rank \in Nat
                       /\ w.size \in Nat /\ w.rank < w.size
  /\ \A q \in Request : /\ q.client \in Client /\ q.chan \in Channel
                         /\ q.role \in Role /\ q.peer \in Nat
                         /\ q.buffer \in Buffer
  /\ \A w \in Write : w.buffer \in Buffer /\ w.data \in Data
  /\ IsFiniteSet(Op)
  /\ World # {} /\ Request # {} /\ Zero \in Data
  /\ None \notin Buffer
  /\ MaxAttach \in Nat

VARIABLES
  comm,      \* comm[c]: communicator fields of flume_client
  nextSeq,   \* nextSeq[c]: the per-channel, per-role sequence counters
  attaches,  \* attaches[c]: attach calls made so far, at most MaxAttach
  call,      \* call[o]: locals of the call o, and where it is
  waiting,   \* submissions that are entries of SimP2ps / SimHcommPayloads
  closing,   \* those of an entry being closed whose handle is not finished
  io,        \* io[o]: the flume_io of call o
  buf        \* buf[b]: the flume_buffer

vars == <<comm, nextSeq, attaches, call, waiting, closing, io, buf>>

CommName == {w.name : w \in World}
CommState == [attached : BOOLEAN, name : CommName, rank : Nat, size : Nat]

Counters == [Channel -> [Role -> Nat]]
ZeroCounters == [ch \in Channel |-> [r \in Role |-> 0]]

(* Where a call is while it holds the mutex of its map: it found the other *)
(* side, or an entry it disagrees with.                                    *)
InSection == {"matched", "rejected"}
Running == {"snapshot", "numbered"} \cup InSection

(* The locals of SubmitSimP2p / SubmitSimHcommPayload.                     *)
Call ==
  [pc : {"unused", "returned"} \cup Running,
   req : Request, comm : CommState, seq : Nat, payload : Data]

Io == [mem : {"none", "live", "freed"}, status : Status, ref : Nat]
Buf == [mem : {"live", "freed"}, ref : Nat, data : Data]

Arbitrary(S) == CHOOSE x \in S : TRUE

NoComm ==
  [attached |-> FALSE, name |-> Arbitrary(CommName), rank |-> 0, size |-> 0]

NoCall ==
  [pc |-> "unused", req |-> Arbitrary(Request), comm |-> NoComm, seq |-> 0,
   payload |-> Zero]

TypeOK ==
  /\ comm \in [Client -> CommState]
  /\ nextSeq \in [Client -> Counters]
  /\ attaches \in [Client -> 0 .. MaxAttach]
  /\ call \in [Op -> Call]
  /\ waiting \in SUBSET Op
  /\ closing \in SUBSET Op
  /\ io \in [Op -> Io]
  /\ buf \in [Buffer -> Buf]

Init ==
  /\ comm = [c \in Client |-> NoComm]
  /\ nextSeq = [c \in Client |-> ZeroCounters]
  /\ attaches = [c \in Client |-> 0]
  /\ call = [o \in Op |-> NoCall]
  /\ waiting = {} /\ closing = {}
  /\ io = [o \in Op |-> [mem |-> "none", status |-> "PENDING", ref |-> 0]]
  /\ buf = [b \in Buffer |-> [mem |-> "live", ref |-> 0, data |-> Zero]]
-----------------------------------------------------------------------------
(* flume_attach_sim_comm: every sequence counter of the client restarts,   *)
(* the process-wide maps are left as they are.                             *)
flume_attach_sim_comm(w) ==
  /\ attaches[w.client] < MaxAttach
  /\ attaches' = [attaches EXCEPT ![w.client] = @ + 1]
  /\ comm' = [comm EXCEPT ![w.client] =
                [attached |-> TRUE, name |-> w.name, rank |-> w.rank,
                 size |-> w.size]]
  /\ nextSeq' = [nextSeq EXCEPT ![w.client] = ZeroCounters]
  /\ UNCHANGED <<call, waiting, closing, io, buf>>

(* MakeIo: a handle born finished.  An argument error returns no handle.   *)
FinishedIo(st) == [mem |-> "live", status |-> st, ref |-> 0]

(* The checks before the second lock, in the code's order.  A failed check *)
(* ends the call: with an UNSUPPORTED handle, or with an error and none.   *)
BeginOutcome(q, st) ==
  IF Owner[q.buffer] # q.client THEN "error"
  ELSE IF ~st.attached \/ (q.chan = "hcomm" /\ st.size # 2) THEN "unsupported"
  ELSE IF q.peer >= st.size \/ q.peer = st.rank THEN "error"
  ELSE "proceed"

Begin(o, q) ==
  LET outcome == BeginOutcome(q, comm[q.client]) IN
  /\ call[o].pc = "unused"
  /\ buf[q.buffer].mem = "live"
  /\ call' = [call EXCEPT ![o] =
       IF outcome = "proceed"
       THEN [@ EXCEPT !.pc = "snapshot", !.req = q, !.comm = comm[q.client]]
       ELSE [@ EXCEPT !.pc = "returned"]]
  /\ io' = IF outcome = "unsupported"
             THEN [io EXCEPT ![o] = FinishedIo("UNSUPPORTED")]
             ELSE io
  /\ UNCHANGED <<comm, nextSeq, attaches, waiting, closing, buf>>

(* The counter is the one of the call's role on its channel, whatever the  *)
(* peer.  The payload is copied and the pending handle is made before the  *)
(* map mutex is taken; nobody else can see either yet.                     *)
TakeSeq(o) ==
  LET q == call[o].req IN
  /\ call[o].pc = "snapshot"
  /\ call' = [call EXCEPT ![o] =
       [pc |-> "numbered", req |-> q, comm |-> call[o].comm,
        seq |-> nextSeq[q.client][q.chan][q.role],
        payload |-> IF q.role = "send" THEN buf[q.buffer].data ELSE Zero]]
  /\ nextSeq' = [nextSeq EXCEPT ![q.client][q.chan][q.role] = @ + 1]
  /\ io' = [io EXCEPT ![o] = [mem |-> "live", status |-> "PENDING", ref |-> 0]]
  /\ UNCHANGED <<comm, attaches, waiting, closing, buf>>

(* Bug: the key is built from the caller's own rank whatever its role.     *)
KeyOf_OwnRank(k) ==
  [chan |-> k.req.chan, name |-> k.comm.name, size |-> k.comm.size,
   src |-> k.comm.rank, dst |-> k.req.peer, seq |-> k.seq]

(* SimP2pKey: the source and destination rank, not the roles.              *)
KeyOf(k) ==
  [chan |-> k.req.chan, name |-> k.comm.name, size |-> k.comm.size,
   src |-> IF k.req.role = "send" THEN k.comm.rank ELSE k.req.peer,
   dst |-> IF k.req.role = "send" THEN k.req.peer ELSE k.comm.rank,
   seq |-> k.seq]

Entry(o) == {p \in waiting : KeyOf(call[p]) = KeyOf(call[o])}

(* What the section of call o still has to finish.                         *)
Slots(o) == {p \in closing : KeyOf(call[p]) = KeyOf(call[o])}

(* SimP2pMutex or SimHcommPayloadMutex.                                    *)
MutexFree(ch) ==
  \A p \in Op : call[p].req.chan = ch => call[p].pc \notin InSection

Goto(o, pc) == call' = [call EXCEPT ![o].pc = pc]

(* No entry for the key: the submission becomes one.  The handle, and the  *)
(* buffer of a receive, are retained.                                      *)
Enqueue(o) ==
  /\ Entry(o) = {}
  /\ waiting' = waiting \cup {o}
  /\ io' = [io EXCEPT ![o].ref = @ + 1]
  /\ buf' = IF call[o].req.role = "recv"
              THEN [buf EXCEPT ![call[o].req.buffer].ref = @ + 1]
              ELSE buf
  /\ UNCHANGED closing
  /\ Goto(o, "returned")

Mismatch(o, p) ==
  call[p].req.count # call[o].req.count \/ call[p].req.role = call[o].req.role

(* Bug: the entry is erased and its handle left as it is.                  *)
Reject_ForgetsEntry(o, p) ==
  /\ Entry(o) = {p} /\ Mismatch(o, p)
  /\ waiting' = waiting \ {p}
  /\ UNCHANGED <<closing, io, buf>>
  /\ Goto(o, "rejected")

(* The entry disagrees about the count, or already has this role:          *)
(* FailPendingSimP2p starts with the entry's buffer.                       *)
Reject(o, p) ==
  /\ Entry(o) = {p} /\ Mismatch(o, p)
  /\ waiting' = waiting \ {p}
  /\ closing' = closing \cup {p}
  /\ buf' = IF call[p].req.role = "recv"
              THEN [buf EXCEPT ![call[p].req.buffer].ref = @ - 1]
              ELSE buf
  /\ UNCHANGED io
  /\ Goto(o, "rejected")

Sender(o, p) == IF call[o].req.role = "send" THEN o ELSE p
Receiver(o, p) == IF call[o].req.role = "send" THEN p ELSE o

(* The submitter's handle is retained like the entry's; both have yet to   *)
(* finish.                                                                 *)
CloseMatched(o, p) ==
  /\ waiting' = waiting \ {p}
  /\ closing' = closing \cup {o, p}
  /\ io' = [io EXCEPT ![o].ref = @ + 1]
  /\ Goto(o, "matched")

(* Bug: no ReleasePendingBuffer.                                           *)
Deliver_LeaksBuffer(o, p) ==
  /\ Entry(o) = {p} /\ ~Mismatch(o, p)
  /\ buf' = [buf EXCEPT ![call[Receiver(o, p)].req.buffer].data =
                           call[Sender(o, p)].payload]
  /\ CloseMatched(o, p)

(* Bug: the send buffer is read when the receive arrives.                  *)
Deliver_LateRead(o, p) ==
  LET b == call[Receiver(o, p)].req.buffer IN
  /\ Entry(o) = {p} /\ ~Mismatch(o, p)
  /\ buf' = [buf EXCEPT ![b].data = buf[call[Sender(o, p)].req.buffer].data,
                        ![b].ref = IF Receiver(o, p) = p THEN @ - 1 ELSE @]
  /\ CloseMatched(o, p)

(* Bug: the matched entry is not erased from the map.                      *)
Deliver_KeepsEntry(o, p) ==
  /\ Entry(o) = {p} /\ ~Mismatch(o, p)
  /\ buf' = [buf EXCEPT ![call[Receiver(o, p)].req.buffer].data =
                           call[Sender(o, p)].payload]
  /\ closing' = closing \cup {o, p}
  /\ io' = [io EXCEPT ![o].ref = @ + 1]
  /\ UNCHANGED waiting
  /\ Goto(o, "matched")

(* The other side is there: CompletePendingSimP2p copies the payload saved *)
(* at submission to the receive buffer and drops its reference.  A receive *)
(* that arrives second retains its buffer and gives it back at once.       *)
Deliver(o, p) ==
  LET b == call[Receiver(o, p)].req.buffer IN
  /\ Entry(o) = {p} /\ ~Mismatch(o, p)
  /\ buf' = [buf EXCEPT ![b].data = call[Sender(o, p)].payload,
                        ![b].ref = IF Receiver(o, p) = p THEN @ - 1 ELSE @]
  /\ CloseMatched(o, p)

Rendezvous(o) ==
  /\ call[o].pc = "numbered" /\ MutexFree(call[o].req.chan)
  /\ \/ Enqueue(o)
     \/ \E p \in waiting : Reject(o, p) \/ Deliver(o, p)
  /\ UNCHANGED <<comm, nextSeq, attaches>>

Verdict(o) == IF call[o].pc = "matched" THEN "OK" ELSE "INVALID"

(* CompletePendingIo on the next handle of the entry.  A match finishes    *)
(* the receive and then the send; a rejected entry has only one of them.   *)
FinishSlot(o) ==
  /\ call[o].pc \in InSection
  /\ \E h \in Slots(o) :
       /\ call[h].req.role = "recv" \/ \A g \in Slots(o) : call[g].req.role = "send"
       /\ io' = [io EXCEPT ![h].status = Verdict(o), ![h].ref = @ - 1]
       /\ closing' = closing \ {h}
  /\ UNCHANGED <<comm, nextSeq, attaches, call, waiting, buf>>

(* Bug: the submitter's handle, never retained, is released like the       *)
(* entry's.                                                                *)
Leave_DropsSubmitter(o) ==
  /\ call[o].pc \in InSection /\ Slots(o) = {}
  /\ io' = IF call[o].pc = "rejected"
             THEN [io EXCEPT ![o].status = "INVALID", ![o].ref = @ - 1] ELSE io
  /\ Goto(o, "returned")
  /\ UNCHANGED <<comm, nextSeq, attaches, waiting, closing, buf>>

(* The entry is erased; a submitter that was rejected finishes its own     *)
(* handle, which nothing retained (CompleteIo).                            *)
Leave(o) ==
  /\ call[o].pc \in InSection /\ Slots(o) = {}
  /\ io' = IF call[o].pc = "rejected"
             THEN [io EXCEPT ![o].status = "INVALID"] ELSE io
  /\ Goto(o, "returned")
  /\ UNCHANGED <<comm, nextSeq, attaches, waiting, closing, buf>>

(* Bug: no pending_ref_count guard.                                        *)
flume_io_release_Unguarded(o) ==
  /\ call[o].pc = "returned"
  /\ io[o].mem = "live"
  /\ io' = [io EXCEPT ![o].mem = "freed"]
  /\ UNCHANGED <<comm, nextSeq, attaches, call, waiting, closing, buf>>

(* flume_io_release refuses (and changes nothing) while the handle is held *)
(* by an entry; the application has the handle once the call returned.     *)
flume_io_release(o) ==
  /\ call[o].pc = "returned"
  /\ io[o].mem = "live"
  /\ io[o].ref = 0
  /\ io' = [io EXCEPT ![o].mem = "freed"]
  /\ UNCHANGED <<comm, nextSeq, attaches, call, waiting, closing, buf>>

(* Bug: no pending_ref_count guard.                                        *)
flume_buffer_release_Unguarded(b) ==
  /\ buf[b].mem = "live"
  /\ \A o \in Op : call[o].pc \in Running => call[o].req.buffer # b
  /\ buf' = [buf EXCEPT ![b].mem = "freed"]
  /\ UNCHANGED <<comm, nextSeq, attaches, call, waiting, closing, io>>

(* flume_buffer_release refuses while a receive is pending into the buffer.*)
(* The application does not release a buffer under one of its own running  *)
(* calls.                                                                  *)
flume_buffer_release(b) ==
  /\ buf[b].mem = "live"
  /\ buf[b].ref = 0
  /\ \A o \in Op : call[o].pc \in Running => call[o].req.buffer # b
  /\ buf' = [buf EXCEPT ![b].mem = "freed"]
  /\ UNCHANGED <<comm, nextSeq, attaches, call, waiting, closing, io>>

(* The application fills one of its buffers through flume_buffer_data.     *)
AppWrite(w) ==
  /\ buf[w.buffer].mem = "live"
  /\ buf' = [buf EXCEPT ![w.buffer].data = w.data]
  /\ UNCHANGED <<comm, nextSeq, attaches, call, waiting, closing, io>>

Step(o) == TakeSeq(o) \/ Rendezvous(o) \/ FinishSlot(o) \/ Leave(o)

Next ==
  \/ \E w \in World : flume_attach_sim_comm(w)
  \/ \E o \in Op, q \in Request : Begin(o, q)
  \/ \E o \in Op : Step(o)
  \/ \E o \in Op : flume_io_release(o)
  \/ \E b \in Buffer : flume_buffer_release(b)
  \/ \E w \in Write : AppWrite(w)

Spec == Init /\ [][Next]_vars

(* A thread inside a call keeps running: no step of it blocks for ever.    *)
FairSpec == Spec /\ \A o \in Op : WF_vars(Step(o))
-----------------------------------------------------------------------------
PendingRecvs(b) ==
  {o \in waiting : call[o].req.role = "recv" /\ call[o].req.buffer = b}

(* pending_ref_count is exact at every step of the rendezvous: an io is    *)
(* referenced once from its entry's insertion to its CompletePendingIo and *)
(* not at all otherwise, and a buffer is referenced once per receive       *)
(* waiting to write it (RetainPending*, ReleasePendingBuffer on every      *)
(* path).                                                                  *)
RefCountsExact ==
  /\ \A o \in Op : io[o].ref = IF o \in waiting \cup closing THEN 1 ELSE 0
  /\ \A b \in Buffer : buf[b].ref = Cardinality(PendingRecvs(b))

(* An entry only names memory that still exists: the handle of a waiting   *)
(* submission, or of one whose entry is being closed, is live and pending, *)
(* and the buffer a waiting receive will be memcpy'd into has not been     *)
(* released.                                                               *)
EntriesAlive ==
  /\ \A o \in waiting \cup closing :
       io[o].mem = "live" /\ io[o].status = "PENDING"
  /\ \A o \in waiting :
       /\ call[o].pc = "returned"
       /\ call[o].req.role = "recv" => buf[call[o].req.buffer].mem = "live"

(* No completion is lost: once a call has returned a handle that still     *)
(* says FLUME_PENDING, the handle is in an entry, so the submission that   *)
(* is closing it, or a later one, finishes it.                             *)
NoOrphanHandle ==
  \A o \in Op :
    call[o].pc = "returned" /\ io[o].mem = "live" /\ io[o].status = "PENDING"
      => o \in waiting \cup closing

Succeeded(role, key) ==
  {o \in Op : /\ call[o].req.role = role /\ KeyOf(call[o]) = key
              /\ io[o].status = "OK"}

(* Every message is received once: under one key as many receives as sends *)
(* have succeeded whenever no submission is inside the map.  Keys come     *)
(* back, because flume_attach_sim_comm restarts the counters and leaves    *)
(* the maps alone, so a later call may find what an earlier attachment     *)
(* left; whatever it finds must not be used a second time.                 *)
EachMessageOnce ==
  \A o \in Op : MutexFree(call[o].req.chan) =>
    Cardinality(Succeeded("recv", KeyOf(call[o])))
      = Cardinality(Succeeded("send", KeyOf(call[o])))

Submitted(o) == call[o].comm.attached /\ call[o].pc \notin {"unused", "snapshot"}

Accepted(o) == Submitted(o) /\ io[o].mem = "live"

(* The n-th send of a rank to a peer and the n-th receive of that peer     *)
(* from the rank, counted per pair of ranks as a caller counts them.       *)
Ordinal(o) ==
  Cardinality({p \in Op : /\ Submitted(p)
                          /\ call[p].seq < call[o].seq
                          /\ call[p].req.client = call[o].req.client
                          /\ call[p].req.chan = call[o].req.chan
                          /\ call[p].req.role = call[o].req.role
                          /\ call[p].req.peer = call[o].req.peer})

Addressed(s, r) ==
  /\ call[s].req.role = "send" /\ call[r].req.role = "recv"
  /\ call[s].req.chan = call[r].req.chan
  /\ call[s].comm.name = call[r].comm.name
  /\ call[s].comm.size = call[r].comm.size
  /\ call[s].comm.rank = call[r].req.peer /\ call[s].req.peer = call[r].comm.rank
  /\ Ordinal(s) = Ordinal(r)

Becomes(o, st) == io[o].status # st /\ io'[o].status = st

(* When a receive succeeds its buffer holds the payload the addressed send *)
(* had when it was submitted, whatever the application has written to the  *)
(* send buffer since; that send agreed on the count and is still pending.  *)
(* A send succeeds only after its receive: a sender told FLUME_OK knows    *)
(* that the data has arrived.                                              *)
DeliveredAsSubmitted ==
  [][/\ \A r \in Op : call[r].req.role = "recv" /\ Becomes(r, "OK") =>
          \E s \in Op : /\ Addressed(s, r) /\ io[s].status = "PENDING"
                        /\ call[s].req.count = call[r].req.count
                        /\ buf[call[r].req.buffer].data = call[s].payload
     /\ \A s \in Op : call[s].req.role = "send" /\ Becomes(s, "OK") =>
          \E r \in Op : Addressed(s, r) /\ io[r].status = "OK"]_vars

Counterparts(s, r) == Accepted(s) /\ Accepted(r) /\ Addressed(s, r)

Finished(o) == io[o].mem = "freed" \/ io[o].status # "PENDING"

(* Send and receive of a pair of ranks find each other: when both sides of *)
(* the n-th transfer between two ranks were submitted, in either order,    *)
(* both handles finish (with success, or with the mismatch error).         *)
CounterpartsFinish ==
  \A s, r \in Op : Counterparts(s, r) ~> (Finished(s) /\ Finished(r))

(* The handle and buffer guarantees of AsyncIo.                            *)
Handle(o) ==
  IF call[o].pc # "returned" THEN "none"
  ELSE IF io[o].mem # "live" THEN io[o].mem
  ELSE IF io[o].status = "PENDING" THEN "pending"
  ELSE IF io[o].status = "OK" THEN "ok" ELSE "failed"

Target(o) ==
  IF o \in waiting /\ call[o].req.role = "recv" THEN call[o].req.buffer ELSE None

Promise == INSTANCE AsyncIo WITH
  handle <- [o \in Op |-> Handle(o)],
  target <- [o \in Op |-> Target(o)],
  pinned <- {b \in Buffer : buf[b].mem = "live"}

(* Point-to-point transfers keep the promise of an operation that another  *)
(* thread completes: one verdict per handle, and neither a pending handle  *)
(* nor a pending receive buffer can be released.                           *)
KeepsAsyncIo == Promise!Spec
=============================================================================
