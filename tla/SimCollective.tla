---------------------------- MODULE SimCollective -----------------------------
(***************************************************************************)
(* AllReduce and AllGather among simulated ranks (SubmitSimCollective),    *)
(* with the reference counts of their handles and destination buffers.     *)
(*                                                                         *)
(* A call has the same critical sections as a point-to-point call:         *)
(* snapshot of the communicator (Begin), sequence number (TakeSeq), and    *)
(* the process-wide map SimCollectives (Arrive to Leave).  A map entry     *)
(* collects one submission per rank until all ranks arrived; every         *)
(* submission in it agreed with the first one, so an entry is the set of   *)
(* waiting submissions with its key, and the map is the set "waiting".     *)
(*                                                                         *)
(* A submission that completes or fails an entry does so rank by rank:     *)
(* it writes and lets go of a rank's buffer (LetGo), finishes the rank's   *)
(* handle (FinishSlot), and goes on to the next rank.  SimCollectiveMutex  *)
(* keeps other submissions out meanwhile, but not the owners of the        *)
(* handles and buffers, who wait, poll and release at any moment.          *)
(***************************************************************************)
EXTENDS Integers, FiniteSets

CONSTANTS
  Client,     \* flume_client_t objects of the process
  Op,         \* calls the application makes, one io each
  Buffer,     \* destination buffers, allocated before the first call
  Owner,      \* Owner[b]: the client a buffer was allocated for
  World,      \* the flume_attach_sim_comm arguments the application uses
  Request,    \* the collective arguments the application uses
  None,       \* no buffer
  MaxAttach,  \* bound on the flume_attach_sim_comm calls per client
  Modulus     \* 2^width of the unsigned element type of the payloads

Kind == {"allreduce", "allgather"}
ReduceOp == {"sum", "prod", "max", "min"}
Status == {"PENDING", "OK", "INVALID", "UNSUPPORTED"}
Value == 0 .. Modulus - 1

(* Request.shape stands for count, input bytes and output bytes;           *)
(* Request.input is the content of the source buffer at the call, whose    *)
(* private copy is the payload.                                            *)
ASSUME SimCollectiveAssumption ==
  /\ Owner \in [Buffer -> Client]
  /\ \A w \in World : /\ w.client \in Client /\ w.rank \in Nat
                      /\ w.size \in Nat /\ w.rank < w.size
  /\ \A q \in Request : /\ q.client \in Client /\ q.kind \in Kind
                        /\ q.dst \in Buffer /\ q.input \in 0 .. Modulus - 1
  /\ IsFiniteSet(Op)
  /\ World # {} /\ Request # {}
  /\ None \notin Buffer
  /\ MaxAttach \in Nat /\ Modulus \in Nat \ {0}

VARIABLES
  comm,      \* comm[c]: communicator fields of flume_client
  nextSeq,   \* nextSeq[c]: sim_allreduce_seq and sim_allgather_seq
  attaches,  \* attaches[c]: attach calls made so far, at most MaxAttach
  call,      \* call[o]: locals of the call o, and where it is
  waiting,   \* submissions held by the entries of SimCollectives
  closing,   \* those of the entry being closed with an unfinished handle
  held,      \* those of the entry being closed with a referenced buffer
  output,    \* the local result of CompletePendingSimCollective
  io,        \* io[o]: the flume_io of call o
  buf        \* buf[b]: the flume_buffer

vars == <<comm, nextSeq, attaches, call, waiting, closing, held, output, io, buf>>

CommName == {w.name : w \in World}
CommState == [attached : BOOLEAN, name : CommName, rank : Nat, size : Nat]
ZeroCounters == [k \in Kind |-> 0]

(* Inside the map, having found a reason to fail the entry, or all ranks.  *)
InSection == {"rejecting", "failing", "completing"}
Running == {"snapshot", "numbered"} \cup InSection

(* The locals of SubmitSimCollective; attach, for the properties, tells    *)
(* which attachment the snapshot was taken of.                             *)
Call ==
  [pc : {"unused", "returned"} \cup Running,
   req : Request, comm : CommState, attach : 0 .. MaxAttach, seq : Nat]

Arbitrary(S) == CHOOSE x \in S : TRUE

NoComm ==
  [attached |-> FALSE, name |-> Arbitrary(CommName), rank |-> 0, size |-> 0]

NoCall ==
  [pc |-> "unused", req |-> Arbitrary(Request), comm |-> NoComm, attach |-> 0,
   seq |-> 0]

(* What a buffer holds: the zeroes of its allocation, or one value (an     *)
(* AllReduce) or one value per rank (an AllGather).                        *)
Zeroes == <<>>
Content(n) == {Zeroes} \cup {<<v>> : v \in Value} \cup [0 .. n - 1 -> Value]

TypeOK ==
  /\ comm \in [Client -> CommState]
  /\ nextSeq \in [Client -> [Kind -> Nat]]
  /\ attaches \in [Client -> 0 .. MaxAttach]
  /\ call \in [Op -> Call]
  /\ waiting \in SUBSET Op /\ closing \in SUBSET Op /\ held \in SUBSET closing
  /\ \E w \in World : output \in Content(w.size)
  /\ io \in [Op -> [mem : {"none", "live", "freed"}, status : Status, ref : Nat]]
  /\ \A b \in Buffer :
       /\ buf[b].mem \in {"live", "freed"} /\ buf[b].ref \in Nat
       /\ \E w \in World : buf[b].data \in Content(w.size)

Init ==
  /\ comm = [c \in Client |-> NoComm]
  /\ nextSeq = [c \in Client |-> ZeroCounters]
  /\ attaches = [c \in Client |-> 0]
  /\ call = [o \in Op |-> NoCall]
  /\ waiting = {} /\ closing = {} /\ held = {} /\ output = Zeroes
  /\ io = [o \in Op |-> [mem |-> "none", status |-> "PENDING", ref |-> 0]]
  /\ buf = [b \in Buffer |-> [mem |-> "live", ref |-> 0, data |-> Zeroes]]
-----------------------------------------------------------------------------
flume_attach_sim_comm(w) ==
  /\ attaches[w.client] < MaxAttach
  /\ attaches' = [attaches EXCEPT ![w.client] = @ + 1]
  /\ comm' = [comm EXCEPT ![w.client] =
                [attached |-> TRUE, name |-> w.name, rank |-> w.rank,
                 size |-> w.size]]
  /\ nextSeq' = [nextSeq EXCEPT ![w.client] = ZeroCounters]
  /\ UNCHANGED <<call, waiting, closing, held, output, io, buf>>

(* The checks before the second lock, in the code's order, which differs   *)
(* between the two entry points.  A failed check ends the call: with an    *)
(* UNSUPPORTED handle, or with an error and no handle.                     *)
BeginOutcome(q, st) ==
  IF q.kind = "allreduce" /\ Owner[q.dst] # q.client THEN "error"
  ELSE IF ~st.attached THEN "unsupported"
  ELSE IF Owner[q.dst] # q.client THEN "error"
  ELSE IF q.kind = "allreduce" /\ q.rop \notin ReduceOp THEN "error"
  ELSE "proceed"

Begin(o, q) ==
  LET outcome == BeginOutcome(q, comm[q.client]) IN
  /\ call[o].pc = "unused"
  /\ buf[q.dst].mem = "live"
  /\ call' = [call EXCEPT ![o] =
       IF outcome = "proceed"
       THEN [@ EXCEPT !.pc = "snapshot", !.req = q, !.comm = comm[q.client],
                     !.attach = attaches[q.client]]
       ELSE [@ EXCEPT !.pc = "returned"]]
  /\ io' = IF outcome = "unsupported"
             THEN [io EXCEPT ![o] =
                    [mem |-> "live", status |-> "UNSUPPORTED", ref |-> 0]]
             ELSE io
  /\ UNCHANGED <<comm, nextSeq, attaches, waiting, closing, held, output, buf>>

(* The counter is the one of the collective's kind.  The payload is copied *)
(* and the pending handle made before the map mutex is taken.              *)
TakeSeq(o) ==
  LET q == call[o].req IN
  /\ call[o].pc = "snapshot"
  /\ call' = [call EXCEPT ![o].pc = "numbered",
                          ![o].seq = nextSeq[q.client][q.kind]]
  /\ nextSeq' = [nextSeq EXCEPT ![q.client][q.kind] = @ + 1]
  /\ io' = [io EXCEPT ![o] = [mem |-> "live", status |-> "PENDING", ref |-> 0]]
  /\ UNCHANGED <<comm, attaches, waiting, closing, held, output, buf>>

(* SimCollectiveKey.                                                       *)
KeyOf(k) ==
  [name |-> k.comm.name, size |-> k.comm.size, seq |-> k.seq,
   kind |-> k.req.kind]

Entry(o) == {p \in waiting : KeyOf(call[p]) = KeyOf(call[o])}

(* PendingMatches.                                                         *)
Agree(q1, q2) ==
  /\ q1.shape = q2.shape /\ q1.dtype = q2.dtype /\ q1.rop = q2.rop

Goto(o, pc) == call' = [call EXCEPT ![o].pc = pc]

(* Neither a mismatch nor a rank that already arrived.                     *)
Acceptable(o) ==
  \A p \in Entry(o) : /\ Agree(call[p].req, call[o].req)
                      /\ call[p].comm.rank # call[o].comm.rank

(* Bug: the entry is erased and only the submitter told.                   *)
Reject_ForgetsEntry(o) ==
  /\ ~Acceptable(o)
  /\ waiting' = waiting \ Entry(o)
  /\ Goto(o, "rejecting")
  /\ UNCHANGED <<closing, held, output, io, buf>>

(* Mismatch, or a rank that is already in the entry: the entry fails as a  *)
(* whole (FailPendingSimCollective) and is erased.                         *)
Reject(o) ==
  /\ ~Acceptable(o)
  /\ waiting' = waiting \ Entry(o)
  /\ closing' = Entry(o) /\ held' = Entry(o)
  /\ Goto(o, "rejecting")
  /\ UNCHANGED <<output, io, buf>>

(* Bug: one arrival too many is awaited.                                   *)
IsLast_Late(o) == Cardinality(Entry(o)) = call[o].comm.size

IsLast(o) == Cardinality(Entry(o)) + 1 = call[o].comm.size

(* RetainPendingBuffer and RetainPendingIo.                                *)
Retain(o) ==
  /\ io' = [io EXCEPT ![o].ref = @ + 1]
  /\ buf' = [buf EXCEPT ![call[o].req.dst].ref = @ + 1]

Wait(o) ==
  /\ Acceptable(o) /\ ~IsLast(o)
  /\ waiting' = waiting \cup {o}
  /\ Retain(o)
  /\ Goto(o, "returned")
  /\ UNCHANGED <<closing, held, output>>

(* ApplyReduce on an unsigned type of Modulus values.                      *)
ApplyReduce(x, y, rop) ==
  CASE rop = "sum"  -> (x + y) % Modulus
    [] rop = "prod" -> (x * y) % Modulus
    [] rop = "max"  -> IF x < y THEN y ELSE x
    [] rop = "min"  -> IF y < x THEN y ELSE x

(* Bug: every rank but the first is read from the slot before its own.     *)
Payloads_OffByOne(o) ==
  [r \in 0 .. call[o].comm.size - 1 |->
     call[CHOOSE p \in Entry(o) \cup {o} :
            call[p].comm.rank = IF r = 0 THEN 0 ELSE r - 1].req.input]

(* The payloads of the entry and of o, by rank.                            *)
Payloads(o) ==
  [r \in 0 .. call[o].comm.size - 1 |->
     call[CHOOSE p \in Entry(o) \cup {o} : call[p].comm.rank = r].req.input]

(* SimReduceTyped, from rank 0 upwards.                                    *)
Reduced(payloads, n, rop) ==
  LET acc[r \in 0 .. n - 1] ==
        IF r = 0 THEN payloads[0]
        ELSE ApplyReduce(acc[r - 1], payloads[r], rop)
  IN acc[n - 1]

(* SimReducePayloads refuses half-precision floats among several ranks.    *)
Reducible(o) == call[o].comm.size = 1 \/ call[o].req.dtype # "fp16"

Output(o) ==
  LET k == call[o] IN
  IF k.req.kind = "allreduce"
  THEN <<Reduced(Payloads(o), k.comm.size, k.req.rop)>>
  ELSE Payloads(o)

(* Bug: the last rank to arrive is left out of the entry.                  *)
CompleteAll_ForgetsSubmitter(o) ==
  /\ Acceptable(o) /\ IsLast(o)
  /\ waiting' = waiting \ Entry(o)
  /\ closing' = Entry(o) /\ held' = Entry(o)
  /\ output' = Output(o)
  /\ Goto(o, "completing")
  /\ UNCHANGED <<io, buf>>

(* The last rank joins the entry, whose result is then computed, or found  *)
(* to be beyond the simulation.                                            *)
CompleteAll(o) ==
  /\ Acceptable(o) /\ IsLast(o)
  /\ waiting' = waiting \ Entry(o)
  /\ closing' = Entry(o) \cup {o} /\ held' = Entry(o) \cup {o}
  /\ Retain(o)
  /\ IF call[o].req.kind = "allreduce" /\ ~Reducible(o)
     THEN Goto(o, "failing") /\ UNCHANGED output
     ELSE Goto(o, "completing") /\ output' = Output(o)

(* SimCollectiveMutex.                                                     *)
MutexFree == \A p \in Op : call[p].pc \notin InSection

Arrive(o) ==
  /\ call[o].pc = "numbered" /\ MutexFree
  /\ Reject(o) \/ Wait(o) \/ CompleteAll(o)
  /\ UNCHANGED <<comm, nextSeq, attaches>>

(* The loops of FailPendingSimCollective and CompletePendingSimCollective  *)
(* go through the ranks upwards.                                           *)
First(p) ==
  p \in closing /\ \A q \in closing : call[p].comm.rank <= call[q].comm.rank

(* Bug: no ReleasePendingBuffer where the entry fails.                     *)
LetGo_LeaksOnFailure(o, p) ==
  LET b == call[p].req.dst IN
  /\ call[o].pc \in InSection /\ First(p) /\ p \in held
  /\ buf' = IF call[o].pc = "completing"
              THEN [buf EXCEPT ![b].data = output, ![b].ref = @ - 1]
              ELSE buf
  /\ held' = held \ {p}
  /\ UNCHANGED <<comm, nextSeq, attaches, call, waiting, closing, output, io>>

(* memcpy of the result, where there is one, and ReleasePendingBuffer.     *)
LetGo(o, p) ==
  LET b == call[p].req.dst IN
  /\ call[o].pc \in InSection /\ First(p) /\ p \in held
  /\ buf' = IF call[o].pc = "completing"
              THEN [buf EXCEPT ![b].data = output, ![b].ref = @ - 1]
              ELSE [buf EXCEPT ![b].ref = @ - 1]
  /\ held' = held \ {p}
  /\ UNCHANGED <<comm, nextSeq, attaches, call, waiting, closing, output, io>>

Verdict(o) ==
  CASE call[o].pc = "rejecting"  -> "INVALID"
    [] call[o].pc = "failing"    -> "UNSUPPORTED"
    [] call[o].pc = "completing" -> "OK"

(* CompletePendingIo on the same rank's handle.                            *)
FinishSlot(o, p) ==
  /\ call[o].pc \in InSection /\ First(p) /\ p \notin held
  /\ io' = [io EXCEPT ![p].status = Verdict(o), ![p].ref = @ - 1]
  /\ closing' = closing \ {p}
  /\ UNCHANGED <<comm, nextSeq, attaches, call, waiting, held, output, buf>>

(* Bug: the submitter's handle, never retained, is released like the       *)
(* entry's.                                                                *)
Leave_DropsSubmitter(o) ==
  /\ call[o].pc \in InSection /\ closing = {}
  /\ io' = IF call[o].pc = "rejecting"
             THEN [io EXCEPT ![o].status = "INVALID", ![o].ref = @ - 1] ELSE io
  /\ Goto(o, "returned")
  /\ output' = Zeroes
  /\ UNCHANGED <<comm, nextSeq, attaches, waiting, closing, held, buf>>

(* The entry is erased and its result with it; a submitter that was        *)
(* rejected finishes its own handle, which nothing retained (CompleteIo).  *)
Leave(o) ==
  /\ call[o].pc \in InSection /\ closing = {}
  /\ io' = IF call[o].pc = "rejecting"
             THEN [io EXCEPT ![o].status = "INVALID"] ELSE io
  /\ Goto(o, "returned")
  /\ output' = Zeroes
  /\ UNCHANGED <<comm, nextSeq, attaches, waiting, closing, held, buf>>

flume_io_release(o) ==
  /\ call[o].pc = "returned"
  /\ io[o].mem = "live" /\ io[o].ref = 0
  /\ io' = [io EXCEPT ![o].mem = "freed"]
  /\ UNCHANGED <<comm, nextSeq, attaches, call, waiting, closing, held, output, buf>>

(* Bug: no pending_ref_count guard.                                        *)
flume_buffer_release_Unguarded(b) ==
  /\ buf[b].mem = "live"
  /\ \A o \in Op : call[o].pc \in Running => call[o].req.dst # b
  /\ buf' = [buf EXCEPT ![b].mem = "freed"]
  /\ UNCHANGED <<comm, nextSeq, attaches, call, waiting, closing, held, output, io>>

(* The application does not release a buffer under one of its own running  *)
(* calls.                                                                  *)
flume_buffer_release(b) ==
  /\ buf[b].mem = "live" /\ buf[b].ref = 0
  /\ \A o \in Op : call[o].pc \in Running => call[o].req.dst # b
  /\ buf' = [buf EXCEPT ![b].mem = "freed"]
  /\ UNCHANGED <<comm, nextSeq, attaches, call, waiting, closing, held, output, io>>

Step(o) ==
  \/ TakeSeq(o) \/ Arrive(o) \/ Leave(o)
  \/ \E p \in closing : LetGo(o, p) \/ FinishSlot(o, p)

Next ==
  \/ \E w \in World : flume_attach_sim_comm(w)
  \/ \E o \in Op, q \in Request : Begin(o, q)
  \/ \E o \in Op : Step(o)
  \/ \E o \in Op : flume_io_release(o)
  \/ \E b \in Buffer : flume_buffer_release(b)

Spec == Init /\ [][Next]_vars

(* A thread inside a call keeps running: no step of it blocks for ever.    *)
FairSpec == Spec /\ \A o \in Op : WF_vars(Step(o))
-----------------------------------------------------------------------------
(* pending_ref_count is exact at every step: one reference per handle of   *)
(* an entry until its CompletePendingIo, and one per slot that will still  *)
(* be memcpy'd into a buffer, also when several ranks use the same buffer  *)
(* and when an entry fails as a whole.                                     *)
RefCountsExact ==
  /\ \A o \in Op : io[o].ref = IF o \in waiting \cup closing THEN 1 ELSE 0
  /\ \A b \in Buffer :
       buf[b].ref = Cardinality({o \in waiting \cup held : call[o].req.dst = b})

(* An entry only names memory that still exists, also while it is being    *)
(* closed, and a waiting one never holds all the ranks of its world, two   *)
(* submissions of one rank, or submissions that disagree:                  *)
(* SubmitSimCollective completes or fails it first.                        *)
EntriesSound ==
  /\ \A o \in waiting \cup closing : io[o].mem = "live" /\ io[o].status = "PENDING"
  /\ \A o \in waiting \cup held : buf[call[o].req.dst].mem = "live"
  /\ \A o \in waiting :
       /\ Cardinality(Entry(o)) < call[o].comm.size
       /\ \A p \in Entry(o) \ {o} :
            Agree(call[o].req, call[p].req) /\ call[o].comm.rank # call[p].comm.rank

(* No completion is lost: a handle returned and still pending is in an     *)
(* entry, so the submission that is closing it, or a later one, finishes   *)
(* it.                                                                     *)
NoOrphanHandle ==
  \A o \in Op :
    call[o].pc = "returned" /\ io[o].mem = "live" /\ io[o].status = "PENDING"
      => o \in waiting \cup closing

Submitted(o) == call[o].comm.attached /\ call[o].pc \notin {"unused", "snapshot"}

SameRound(o, p) == KeyOf(call[o]) = KeyOf(call[p])

Succeeded(o, r) ==
  {p \in Op : /\ Submitted(p) /\ SameRound(o, p) /\ call[p].comm.rank = r
              /\ io[p].status = "OK"}

(* A collective succeeds for all ranks or for none: under one key every    *)
(* rank has had as many successes as any other once the submission that    *)
(* finishes them, one after the other and for all to see, has left the     *)
(* map.                                                                    *)
AllRanksTogether ==
  MutexFree => \A o \in Op : Submitted(o) =>
    \A r, s \in 0 .. call[o].comm.size - 1 :
      Cardinality(Succeeded(o, r)) = Cardinality(Succeeded(o, s))

(* The calls of one kind that a client submits under one attachment have   *)
(* different numbers, so that the n-th meets the n-th of the other ranks.  *)
NumberPerCall ==
  \A o, p \in Op :
    /\ o # p /\ Submitted(o) /\ Submitted(p)
    /\ call[o].req.client = call[p].req.client
    /\ call[o].req.kind = call[p].req.kind
    /\ call[o].attach = call[p].attach
    => call[o].seq # call[p].seq

Becomes(o, st) == io[o].status # st /\ io'[o].status = st

Accepted(o) == Submitted(o) /\ io[o].mem = "live"

Finished(o) == io[o].mem = "freed" \/ io[o].status # "PENDING"

(* How many collectives of o's kind its client submitted before o.         *)
Ordinal(o) ==
  Cardinality({p \in Op : /\ Submitted(p)
                          /\ call[p].seq < call[o].seq
                          /\ call[p].req.client = call[o].req.client
                          /\ call[p].req.kind = call[o].req.kind})

(* Every rank of the world of o has submitted its n-th collective of this  *)
(* kind, where o is the n-th of its own rank.                              *)
AllSubmitted(o) ==
  /\ Accepted(o)
  /\ \A r \in 0 .. call[o].comm.size - 1 :
       \E p \in Op : /\ Accepted(p) /\ call[p].comm.rank = r
                     /\ call[p].comm.name = call[o].comm.name
                     /\ call[p].comm.size = call[o].comm.size
                     /\ call[p].req.kind = call[o].req.kind
                     /\ Ordinal(p) = Ordinal(o)

(* A collective that all ranks have submitted finishes for each of them,   *)
(* with success or with an error.                                          *)
RoundFinishes == \A o \in Op : AllSubmitted(o) ~> Finished(o)

Handle(o) ==
  IF call[o].pc # "returned" THEN "none"
  ELSE IF io[o].mem # "live" THEN io[o].mem
  ELSE IF io[o].status = "PENDING" THEN "pending"
  ELSE IF io[o].status = "OK" THEN "ok" ELSE "failed"

Promise == INSTANCE AsyncIo WITH
  handle <- [o \in Op |-> Handle(o)],
  target <- [o \in Op |-> IF call[o].pc = "returned" /\ o \in waiting \cup held
                                THEN call[o].req.dst ELSE None],
  pinned <- {b \in Buffer : buf[b].mem = "live"}

(* Collectives keep the promise of an operation that another thread        *)
(* completes (AsyncIo): one verdict per handle, and neither a pending      *)
(* handle nor a destination buffer that is still to be written can be      *)
(* released.                                                               *)
KeepsAsyncIo == Promise!Spec
=============================================================================
