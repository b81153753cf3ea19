---------------------------- MODULE SimP2pProofs -----------------------------
(***************************************************************************)
(* Proofs about SimP2p, for any number of clients, ranks, calls, buffers   *)
(* and payloads.                                                           *)
(***************************************************************************)
EXTENDS SimP2p, FiniteSetTheorems, TLAPS

(* A call that is still running owns its buffer: the application does not  *)
(* release a buffer it is passing to a call.                               *)
CallsOwnBuffers ==
  \A o \in Op : call[o].pc \in Running => buf[call[o].req.buffer].mem = "live"

(* The handle of a call exists once the call has its sequence number.  It  *)
(* is pending, and in no entry, until the rendezvous; a rejected call      *)
(* finishes its own handle last, a matched one has it finished with the    *)
(* entry's.                                                                *)
HandlesFollowCalls ==
  \A o \in Op :
    /\ call[o].pc \in {"unused", "snapshot"} =>
         io[o].mem = "none" /\ io[o].status = "PENDING"
    /\ call[o].pc \in {"numbered", "rejected"} =>
         io[o].mem = "live" /\ io[o].status = "PENDING" /\ o \notin closing
    /\ call[o].pc = "matched" =>
         io[o].mem = "live" /\ (o \in closing \/ io[o].status # "PENDING")

(* The inductive invariant.                                                *)
IInv ==
  /\ TypeOK
  /\ RefCountsExact
  /\ EntriesAlive
  /\ NoOrphanHandle
  /\ CallsOwnBuffers
  /\ HandlesFollowCalls
  /\ waiting \cap closing = {}
-----------------------------------------------------------------------------
(* The idle values used by Init have the right types.                      *)
LEMMA NoValueTypes == NoComm \in CommState /\ NoCall \in Call
<1>1. Arbitrary(CommName) \in CommName
  <2>1. CommName # {}
    BY SimP2pAssumption DEF CommName
  <2> QED BY <2>1 DEF Arbitrary
<1>2. Arbitrary(Request) \in Request
  BY SimP2pAssumption DEF Arbitrary
<1>3. NoComm \in CommState
  BY <1>1 DEF NoComm, CommState
<1> QED BY <1>2, <1>3, SimP2pAssumption DEF NoCall, Call

(* Adding a call to the waiting set, or removing one, changes the number   *)
(* of receives waiting for a buffer by at most one.                        *)
LEMMA CountAdd ==
  ASSUME NEW S, IsFiniteSet(S), NEW x, x \notin S
  PROVE  /\ IsFiniteSet(S \cup {x})
         /\ Cardinality(S \cup {x}) = Cardinality(S) + 1
BY FS_AddElement

LEMMA CountRemove ==
  ASSUME NEW S, IsFiniteSet(S), NEW x \in S
  PROVE  /\ IsFiniteSet(S \ {x})
         /\ Cardinality(S \ {x}) = Cardinality(S) - 1
BY FS_RemoveElement

(* The receives waiting for a buffer are finitely many.                    *)
LEMMA PendingRecvsFinite ==
  ASSUME waiting \in SUBSET Op, NEW b
  PROVE  /\ IsFiniteSet(PendingRecvs(b))
         /\ Cardinality(PendingRecvs(b)) \in Nat
<1>1. PendingRecvs(b) \subseteq Op
  BY DEF PendingRecvs
<1>2. IsFiniteSet(PendingRecvs(b))
  BY <1>1, FS_Subset, SimP2pAssumption
<1> QED BY <1>2, FS_CardinalityType
-----------------------------------------------------------------------------
LEMMA InitIInv == Init => IInv
<1> SUFFICES ASSUME Init PROVE IInv
  OBVIOUS
<1>1. TypeOK
  BY NoValueTypes, SimP2pAssumption
     DEF Init, TypeOK, Counters, ZeroCounters, Io, Buf, Status
<1>2. RefCountsExact
  <2>1. \A b \in Buffer : PendingRecvs(b) = {}
    BY DEF Init, PendingRecvs
  <2> QED BY <2>1, FS_EmptySet DEF Init, RefCountsExact
<1>3. EntriesAlive
  BY DEF Init, EntriesAlive
<1>4. NoOrphanHandle /\ CallsOwnBuffers /\ HandlesFollowCalls
  BY DEF Init, NoCall, NoOrphanHandle, CallsOwnBuffers, HandlesFollowCalls,
         Running, InSection
<1>5. waiting \cap closing = {}
  BY DEF Init
<1> QED BY <1>1, <1>2, <1>3, <1>4, <1>5 DEF IInv
-----------------------------------------------------------------------------
(* Attaching a communicator touches neither calls, handles nor buffers.    *)
LEMMA AttachIInv ==
  ASSUME IInv, NEW w \in World, flume_attach_sim_comm(w)
  PROVE  IInv'
<1> USE DEF IInv
<1>1. TypeOK'
  BY SimP2pAssumption
     DEF flume_attach_sim_comm, TypeOK, CommState, CommName, Counters,
         ZeroCounters
<1>2. (RefCountsExact /\ EntriesAlive /\ NoOrphanHandle)'
  <2>1. UNCHANGED <<call, waiting, closing, io, buf>>
    BY DEF flume_attach_sim_comm
  <2>2. RefCountsExact'
    BY <2>1 DEF RefCountsExact, PendingRecvs
  <2>3. EntriesAlive'
    BY <2>1 DEF EntriesAlive
  <2>4. NoOrphanHandle'
    BY <2>1 DEF NoOrphanHandle
  <2> QED BY <2>2, <2>3, <2>4
<1>3. (CallsOwnBuffers /\ HandlesFollowCalls)'
  BY DEF flume_attach_sim_comm, CallsOwnBuffers, HandlesFollowCalls
<1>4. (waiting \cap closing = {})'
  BY DEF flume_attach_sim_comm
<1> QED BY <1>1, <1>2, <1>3, <1>4

(* A call begins, or is refused.                                           *)
LEMMA BeginIInv ==
  ASSUME IInv, NEW o \in Op, NEW q \in Request, Begin(o, q)
  PROVE  IInv'
<1> USE DEF IInv
<1> DEFINE outcome == BeginOutcome(q, comm[q.client])
<1>a. /\ call[o].pc = "unused"
      /\ buf[q.buffer].mem = "live"
      /\ call' = [call EXCEPT ![o] =
           IF outcome = "proceed"
           THEN [@ EXCEPT !.pc = "snapshot", !.req = q,
                          !.comm = comm[q.client]]
           ELSE [@ EXCEPT !.pc = "returned"]]
      /\ io' = IF outcome = "unsupported"
                 THEN [io EXCEPT ![o] = FinishedIo("UNSUPPORTED")]
                 ELSE io
      /\ UNCHANGED <<comm, nextSeq, attaches, waiting, closing, buf>>
  BY DEF Begin
<1>b. io[o].mem = "none" /\ io[o].status = "PENDING" /\ o \notin waiting \cup closing
  BY <1>a DEF HandlesFollowCalls, EntriesAlive
<1> HIDE DEF outcome
<1>c. q.client \in Client
  BY SimP2pAssumption
<1>1. TypeOK'
  <2>1. call' \in [Op -> Call]
    <3>1. comm[q.client] \in CommState /\ call[o] \in Call
      BY <1>c DEF TypeOK
    <3>2. CASE outcome = "proceed"
      <4>1. [call[o] EXCEPT !.pc = "snapshot", !.req = q,
                            !.comm = comm[q.client]] \in Call
        BY <3>1 DEF Call, Running
      <4> QED BY <1>a, <3>2, <4>1 DEF TypeOK
    <3>3. CASE outcome # "proceed"
      <4>1. [call[o] EXCEPT !.pc = "returned"] \in Call
        BY <3>1 DEF Call
      <4> QED BY <1>a, <3>3, <4>1 DEF TypeOK
    <3> QED BY <3>2, <3>3
  <2>2. io' \in [Op -> Io]
    BY <1>a DEF TypeOK, Io, FinishedIo, Status
  <2> QED BY <1>a, <2>1, <2>2 DEF TypeOK
<1>2. \A p \in waiting \cup closing : call'[p] = call[p] /\ io'[p] = io[p]
  BY <1>a, <1>b DEF TypeOK
<1>3. RefCountsExact'
  <2>1. \A b \in Buffer : PendingRecvs(b)' = PendingRecvs(b)
    BY <1>a, <1>2 DEF PendingRecvs
  <2>2. \A p \in Op : io'[p].ref = IF p \in (waiting \cup closing)' THEN 1 ELSE 0
    BY <1>a, <1>b DEF RefCountsExact, TypeOK, FinishedIo
  <2> QED BY <1>a, <2>1, <2>2 DEF RefCountsExact
<1>4. EntriesAlive'
  <2>1. waiting' = waiting /\ closing' = closing /\ buf' = buf
    BY <1>a
  <2> QED BY <1>2, <2>1 DEF EntriesAlive
<1>5. NoOrphanHandle'
  BY <1>a, <1>b DEF NoOrphanHandle, TypeOK, FinishedIo, Call
<1>6. CallsOwnBuffers'
  BY <1>a DEF CallsOwnBuffers, TypeOK, Call, Running, InSection
<1>7. HandlesFollowCalls'
  BY <1>a, <1>b DEF HandlesFollowCalls, TypeOK, FinishedIo, Call
<1>8. (waiting \cap closing = {})'
  BY <1>a
<1> QED BY <1>1, <1>3, <1>4, <1>5, <1>6, <1>7, <1>8

(* A call takes its sequence number and makes its handle.                  *)
LEMMA TakeSeqIInv ==
  ASSUME IInv, NEW o \in Op, TakeSeq(o)
  PROVE  IInv'
<1> USE DEF IInv
<1> DEFINE q == call[o].req
<1>a. q \in Request /\ q.client \in Client /\ q.chan \in Channel
        /\ q.role \in Role /\ q.buffer \in Buffer
  BY SimP2pAssumption DEF TypeOK, Call
<1>b. /\ call[o].pc = "snapshot" /\ io[o].mem = "none"
      /\ o \notin waiting \cup closing
  BY DEF TakeSeq, HandlesFollowCalls, EntriesAlive
<1>c. nextSeq[q.client][q.chan][q.role] \in Nat
  <2>1. nextSeq[q.client] \in Counters
    BY <1>a DEF TypeOK
  <2> QED BY <1>a, <2>1 DEF Counters
<1>1. TypeOK'
  <2>1. call' \in [Op -> Call]
    <3>1. (IF q.role = "send" THEN buf[q.buffer].data ELSE Zero) \in Data
      BY <1>a, SimP2pAssumption DEF TypeOK, Buf
    <3>2. call[o].comm \in CommState
      BY DEF TypeOK, Call
    <3>3. [pc |-> "numbered", req |-> q, comm |-> call[o].comm,
           seq |-> nextSeq[q.client][q.chan][q.role],
           payload |-> IF q.role = "send" THEN buf[q.buffer].data ELSE Zero]
            \in Call
      BY <1>a, <1>c, <3>1, <3>2 DEF Call, Running
    <3> QED BY <3>3 DEF TakeSeq, TypeOK
  <2>2. io' \in [Op -> Io]
    BY DEF TakeSeq, TypeOK, Io, Status
  <2>3. nextSeq' \in [Client -> Counters]
    <3> DEFINE f == nextSeq[q.client]
               g == [f[q.chan] EXCEPT ![q.role] = @ + 1]
    <3>1. f \in Counters
      BY <1>a DEF TypeOK
    <3>2. g \in [Role -> Nat]
      <4> HIDE DEF f, q
      <4>1. f[q.chan] \in [Role -> Nat]
        BY <1>a, <3>1 DEF Counters
      <4> QED BY <1>a, <4>1
    <3>3. nextSeq' = [nextSeq EXCEPT ![q.client] = [f EXCEPT ![q.chan] = g]]
      BY DEF TakeSeq
    <3> HIDE DEF g, f
    <3>4. [f EXCEPT ![q.chan] = g] \in Counters
      BY <1>a, <3>1, <3>2 DEF Counters
    <3> QED BY <1>a, <3>3, <3>4 DEF TypeOK
  <2> QED BY <2>1, <2>2, <2>3 DEF TakeSeq, TypeOK
<1>2. \A p \in waiting \cup closing : call'[p] = call[p] /\ io'[p] = io[p]
  BY <1>b DEF TypeOK, TakeSeq
<1>3. RefCountsExact'
  <2>1. \A b \in Buffer : PendingRecvs(b)' = PendingRecvs(b)
    BY <1>2 DEF PendingRecvs, TakeSeq
  <2>2. \A p \in Op : io'[p].ref = IF p \in (waiting \cup closing)' THEN 1 ELSE 0
    BY <1>b DEF RefCountsExact, TypeOK, TakeSeq
  <2> QED BY <2>1, <2>2 DEF RefCountsExact, TakeSeq
<1>4. EntriesAlive'
  <2>1. waiting' = waiting /\ closing' = closing /\ buf' = buf
    BY DEF TakeSeq
  <2> QED BY <1>2, <2>1 DEF EntriesAlive
<1>5. NoOrphanHandle'
  BY <1>b DEF NoOrphanHandle, TypeOK, Call, TakeSeq
<1>6. CallsOwnBuffers'
  BY <1>b DEF CallsOwnBuffers, TypeOK, Call, TakeSeq, Running, InSection
<1>7. HandlesFollowCalls'
  BY <1>b DEF HandlesFollowCalls, TypeOK, Call, TakeSeq
<1>8. (waiting \cap closing = {})'
  BY DEF TakeSeq
<1> QED BY <1>1, <1>3, <1>4, <1>5, <1>6, <1>7, <1>8
-----------------------------------------------------------------------------
(* What a call at its rendezvous knows of itself, and of its entry.        *)
LEMMA AtRendezvous ==
  ASSUME IInv, NEW o \in Op, call[o].pc = "numbered"
  PROVE  /\ o \notin waiting /\ o \notin closing
         /\ io[o].mem = "live" /\ io[o].status = "PENDING" /\ io[o].ref = 0
         /\ call[o].req.buffer \in Buffer
         /\ buf[call[o].req.buffer].mem = "live"
         /\ \A p \in waiting : /\ p \in Op /\ p # o /\ p \notin closing
                               /\ io[p].mem = "live" /\ io[p].ref = 1
                               /\ io[p].status = "PENDING"
                               /\ call[p].pc = "returned"
                               /\ call[p].req.buffer \in Buffer
                               /\ call[p].req.role = "recv" =>
                                    buf[call[p].req.buffer].mem = "live"
<1>1. \A p \in Op : call[p].req.buffer \in Buffer
  BY SimP2pAssumption DEF IInv, TypeOK, Call
<1>2. buf[call[o].req.buffer].mem = "live"
  BY DEF IInv, CallsOwnBuffers, Running
<1> QED BY <1>1, <1>2 DEF IInv, TypeOK, EntriesAlive, RefCountsExact,
                          HandlesFollowCalls

(* A call that moves on changes nothing but its place, so keys and         *)
(* arguments stay as they are.                                             *)
LEMMA GotoFrame ==
  ASSUME TypeOK, NEW o \in Op, NEW pc \in {"returned"} \cup InSection, Goto(o, pc)
  PROVE  /\ call' \in [Op -> Call]
         /\ call'[o].pc = pc
         /\ \A p \in Op : /\ call'[p].req = call[p].req
                          /\ KeyOf(call'[p]) = KeyOf(call[p])
                          /\ p # o => call'[p] = call[p]
BY DEF TypeOK, Goto, Call, KeyOf, Running

(* The submission becomes an entry.                                        *)
LEMMA EnqueueIInv ==
  ASSUME IInv, NEW o \in Op, call[o].pc = "numbered", Enqueue(o),
         UNCHANGED <<comm, nextSeq, attaches>>
  PROVE  IInv'
<1> USE DEF IInv
<1>a. /\ o \notin waiting /\ o \notin closing
      /\ io[o].mem = "live" /\ io[o].status = "PENDING" /\ io[o].ref = 0
      /\ call[o].req.buffer \in Buffer
      /\ buf[call[o].req.buffer].mem = "live"
  BY AtRendezvous
<1>b. /\ call' \in [Op -> Call]
      /\ call'[o].pc = "returned"
      /\ \A p \in Op : /\ call'[p].req = call[p].req
                       /\ p # o => call'[p] = call[p]
  BY GotoFrame DEF Enqueue
<1>c. /\ waiting' = waiting \cup {o} /\ closing' = closing
      /\ io' = [io EXCEPT ![o].ref = @ + 1]
      /\ buf' = IF call[o].req.role = "recv"
                  THEN [buf EXCEPT ![call[o].req.buffer].ref = @ + 1]
                  ELSE buf
  BY DEF Enqueue
<1>d. \A b \in Buffer : /\ buf'[b].mem = buf[b].mem
                        /\ buf'[b].data = buf[b].data
  BY <1>c DEF TypeOK, Buf
<1>e. \A p \in Op : call[p].req.buffer \in Buffer
  BY SimP2pAssumption DEF TypeOK, Call
<1>1. TypeOK'
  <2>1. io' \in [Op -> Io]
    BY <1>c DEF TypeOK, Io
  <2>2. buf' \in [Buffer -> Buf]
    <3>1. CASE call[o].req.role = "recv"
      BY <1>a, <1>c, <3>1 DEF TypeOK, Buf
    <3>2. CASE call[o].req.role # "recv"
      BY <1>c, <3>2 DEF TypeOK
    <3> QED BY <3>1, <3>2
  <2> QED BY <1>b, <1>c, <2>1, <2>2 DEF TypeOK
<1>2. RefCountsExact'
  <2>1. \A p \in Op : io'[p].ref = IF p \in (waiting \cup closing)' THEN 1 ELSE 0
    BY <1>a, <1>c DEF RefCountsExact, TypeOK, Io
  <2>2. ASSUME NEW b \in Buffer
        PROVE  buf'[b].ref = Cardinality(PendingRecvs(b)')
    <3>1. CASE call[o].req.role = "recv" /\ call[o].req.buffer = b
      <4>1. PendingRecvs(b)' = PendingRecvs(b) \cup {o}
        BY <1>b, <1>c, <3>1 DEF PendingRecvs, TypeOK
      <4>2. o \notin PendingRecvs(b)
        BY <1>a DEF PendingRecvs
      <4>3. IsFiniteSet(PendingRecvs(b))
        BY PendingRecvsFinite DEF TypeOK
      <4>4. Cardinality(PendingRecvs(b)') = Cardinality(PendingRecvs(b)) + 1
        BY <4>1, <4>2, <4>3, CountAdd
      <4>5. buf'[b].ref = buf[b].ref + 1
        BY <1>c, <3>1 DEF TypeOK, Buf
      <4> QED BY <4>4, <4>5 DEF RefCountsExact
    <3>2. CASE ~(call[o].req.role = "recv" /\ call[o].req.buffer = b)
      <4>1. PendingRecvs(b)' = PendingRecvs(b)
        BY <1>b, <1>c, <3>2 DEF PendingRecvs, TypeOK
      <4>2. buf'[b].ref = buf[b].ref
        BY <1>c, <3>2 DEF TypeOK, Buf
      <4> QED BY <4>1, <4>2 DEF RefCountsExact
    <3> QED BY <3>1, <3>2
  <2> QED BY <2>1, <2>2 DEF RefCountsExact
<1>3. \A p \in Op : io'[p].mem = io[p].mem /\ io'[p].status = io[p].status
  BY <1>c DEF TypeOK, Io
<1>4. EntriesAlive'
  <2>1. \A p \in waiting : p \in Op /\ p # o /\ call'[p] = call[p]
    BY <1>a, <1>b DEF TypeOK
  <2>2. \A p \in waiting :
          /\ call'[p].pc = "returned"
          /\ call'[p].req.role = "recv" => buf'[call'[p].req.buffer].mem = "live"
    BY <1>d, <1>e, <2>1 DEF EntriesAlive
  <2>3. \A p \in (waiting \cup closing)' :
          io'[p].mem = "live" /\ io'[p].status = "PENDING"
    BY <1>a, <1>c, <1>3 DEF EntriesAlive, TypeOK
  <2>4. buf'[call'[o].req.buffer].mem = "live"
    BY <1>a, <1>b, <1>d
  <2> QED BY <1>b, <1>c, <2>2, <2>3, <2>4 DEF EntriesAlive
<1>5. NoOrphanHandle'
  BY <1>b, <1>c, <1>3 DEF NoOrphanHandle
<1>6. CallsOwnBuffers'
  BY <1>b, <1>d, <1>e DEF CallsOwnBuffers, Running, InSection
<1>7. HandlesFollowCalls'
  BY <1>b, <1>c, <1>3 DEF HandlesFollowCalls
<1>8. (waiting \cap closing = {})'
  BY <1>a, <1>c
<1> QED BY <1>1, <1>2, <1>4, <1>5, <1>6, <1>7, <1>8

(* A buffer with a waiting receive is referenced.                          *)
LEMMA WaitingRecvCounts ==
  ASSUME IInv, NEW p \in waiting, call[p].req.role = "recv"
  PROVE  buf[call[p].req.buffer].ref \in Nat \ {0}
<1> DEFINE b == call[p].req.buffer
<1>1. p \in PendingRecvs(b)
  BY DEF PendingRecvs
<1>2. b \in Buffer
  BY SimP2pAssumption DEF IInv, TypeOK, Call
<1>3. /\ IsFiniteSet(PendingRecvs(b))
      /\ Cardinality(PendingRecvs(b)) \in Nat
  BY PendingRecvsFinite DEF IInv, TypeOK
<1>4. Cardinality(PendingRecvs(b)) # 0
  BY <1>1, <1>3, FS_EmptySet
<1> QED BY <1>2, <1>3, <1>4 DEF IInv, RefCountsExact

(* The section of submission o takes the entry p out of the map and lets   *)
(* go of its buffer: the common part of a match, where o is closed with p  *)
(* and retained, and of a mismatch.                                        *)
LEMMA CloseEntryIInv ==
  ASSUME IInv, NEW o \in Op, call[o].pc = "numbered",
         UNCHANGED <<comm, nextSeq, attaches>>,
         NEW p \in waiting, NEW D \in {{p}, {o, p}},
         Goto(o, IF o \in D THEN "matched" ELSE "rejected"),
         waiting' = waiting \ {p}, closing' = closing \cup D,
         io' = IF o \in D THEN [io EXCEPT ![o].ref = @ + 1] ELSE io,
         buf' \in [Buffer -> Buf],
         \A b \in Buffer :
           /\ buf'[b].mem = buf[b].mem
           /\ buf'[b].ref = IF call[p].req.role = "recv"
                                 /\ call[p].req.buffer = b
                              THEN buf[b].ref - 1 ELSE buf[b].ref
  PROVE  IInv'
<1> USE DEF IInv
<1> DEFINE pc == IF o \in D THEN "matched" ELSE "rejected"
<1>a. /\ o \notin waiting /\ o \notin closing /\ p \in Op /\ p # o
      /\ p \notin closing /\ p \in D /\ D \subseteq {o, p}
      /\ io[o].mem = "live" /\ io[o].status = "PENDING" /\ io[o].ref = 0
      /\ io[p].mem = "live" /\ io[p].status = "PENDING" /\ io[p].ref = 1
      /\ buf[call[o].req.buffer].mem = "live" /\ call[p].pc = "returned"
  BY AtRendezvous
<1>b. /\ call' \in [Op -> Call]
      /\ call'[o].pc = pc
      /\ \A x \in Op : /\ call'[x].req = call[x].req
                       /\ x # o => call'[x] = call[x]
  <2>1. pc \in {"returned"} \cup InSection
    BY DEF InSection
  <2> HIDE DEF pc
  <2> QED BY <2>1, GotoFrame DEF pc
<1>c. /\ io' \in [Op -> Io]
      /\ \A x \in Op : /\ io'[x].mem = io[x].mem
                       /\ io'[x].status = io[x].status
                       /\ x # o => io'[x].ref = io[x].ref
      /\ io'[o].ref = IF o \in D THEN 1 ELSE 0
  BY <1>a DEF TypeOK, Io
<1>e. \A x \in Op : call[x].req.buffer \in Buffer
  BY SimP2pAssumption DEF TypeOK, Call
<1> HIDE DEF pc
<1>1. TypeOK'
  BY <1>a, <1>b, <1>c DEF TypeOK
<1>2. RefCountsExact'
  <2>1. ASSUME NEW x \in Op
        PROVE  io'[x].ref = IF x \in (waiting \cup closing)' THEN 1 ELSE 0
    <3>1. CASE x = o
      BY <1>a, <1>c, <3>1
    <3>2. CASE x # o
      <4>1. io[x].ref = IF x \in waiting \cup closing THEN 1 ELSE 0
        BY DEF RefCountsExact
      <4>2. x \in (waiting \cup closing)' <=> x \in waiting \cup closing
        BY <1>a, <3>2
      <4> QED BY <1>c, <3>2, <4>1, <4>2
    <3> QED BY <3>1, <3>2
  <2>2. ASSUME NEW b \in Buffer
        PROVE  buf'[b].ref = Cardinality(PendingRecvs(b)')
    <3>1. CASE call[p].req.role = "recv" /\ call[p].req.buffer = b
      <4>1. PendingRecvs(b)' = PendingRecvs(b) \ {p}
        BY <1>b, <3>1 DEF PendingRecvs, TypeOK
      <4>2. p \in PendingRecvs(b)
        BY <3>1 DEF PendingRecvs
      <4>3. IsFiniteSet(PendingRecvs(b))
        BY PendingRecvsFinite DEF TypeOK
      <4>4. Cardinality(PendingRecvs(b)') = Cardinality(PendingRecvs(b)) - 1
        BY <4>1, <4>2, <4>3, CountRemove
      <4> QED BY <3>1, <4>4 DEF RefCountsExact
    <3>2. CASE ~(call[p].req.role = "recv" /\ call[p].req.buffer = b)
      <4>1. PendingRecvs(b)' = PendingRecvs(b)
        BY <1>b, <3>2 DEF PendingRecvs, TypeOK
      <4> QED BY <3>2, <4>1 DEF RefCountsExact
    <3> QED BY <3>1, <3>2
  <2> QED BY <2>1, <2>2 DEF RefCountsExact
<1>4. EntriesAlive'
  <2>1. \A x \in (waiting \cup closing)' :
          x \in Op /\ io[x].mem = "live" /\ io[x].status = "PENDING"
    BY <1>a DEF EntriesAlive, TypeOK
  <2>2. \A x \in waiting' :
          /\ x \in Op /\ call'[x] = call[x] /\ call[x].pc = "returned"
          /\ call[x].req.role = "recv" => buf[call[x].req.buffer].mem = "live"
    BY <1>a, <1>b DEF EntriesAlive, TypeOK
  <2>3. \A x \in waiting' :
          /\ call'[x].pc = "returned"
          /\ call'[x].req.role = "recv" => buf'[call'[x].req.buffer].mem = "live"
    BY <1>e, <2>2
  <2>4. \A x \in (waiting \cup closing)' :
          io'[x].mem = "live" /\ io'[x].status = "PENDING"
    BY <1>c, <2>1
  <2> QED BY <2>3, <2>4 DEF EntriesAlive
<1>5. NoOrphanHandle'
  <2> SUFFICES ASSUME NEW x \in Op, call'[x].pc = "returned",
                      io'[x].mem = "live", io'[x].status = "PENDING"
               PROVE  x \in (waiting \cup closing)'
    BY DEF NoOrphanHandle
  <2>1. x # o
    BY <1>b DEF pc
  <2>2. x \in waiting \cup closing
    BY <1>b, <1>c, <2>1 DEF NoOrphanHandle
  <2> QED BY <1>a, <2>2
<1>6. CallsOwnBuffers'
  BY <1>a, <1>b, <1>e DEF CallsOwnBuffers
<1>7. HandlesFollowCalls'
  <2> SUFFICES ASSUME NEW x \in Op
               PROVE  /\ call'[x].pc \in {"unused", "snapshot"} =>
                           io'[x].mem = "none" /\ io'[x].status = "PENDING"
                      /\ call'[x].pc \in {"numbered", "rejected"} =>
                           /\ io'[x].mem = "live" /\ io'[x].status = "PENDING"
                           /\ x \notin closing'
                      /\ call'[x].pc = "matched" =>
                           /\ io'[x].mem = "live"
                           /\ x \in closing' \/ io'[x].status # "PENDING"
    BY DEF HandlesFollowCalls
  <2>1. CASE x = o
    BY <1>a, <1>b, <1>c, <2>1 DEF pc
  <2>2. CASE x = p
    BY <1>a, <1>b, <2>2
  <2>3. CASE x # o /\ x # p
    <3>1. call'[x] = call[x] /\ io'[x].mem = io[x].mem
            /\ io'[x].status = io[x].status /\ (x \in closing' <=> x \in closing)
      BY <1>a, <1>b, <1>c, <2>3
    <3> QED BY <3>1 DEF HandlesFollowCalls
  <2> QED BY <2>1, <2>2, <2>3
<1>8. (waiting \cap closing = {})'
  BY <1>a
<1> QED BY <1>1, <1>2, <1>4, <1>5, <1>6, <1>7, <1>8

(* A mismatch: the entry is closed alone.                                  *)
LEMMA RejectIInv ==
  ASSUME IInv, NEW o \in Op, call[o].pc = "numbered", NEW p \in waiting,
         Reject(o, p), UNCHANGED <<comm, nextSeq, attaches>>
  PROVE  IInv'
<1>1. call[p].req.buffer \in Buffer /\ o # p
  BY AtRendezvous
<1>2. call[p].req.role = "recv" => buf[call[p].req.buffer].ref - 1 \in Nat
  BY WaitingRecvCounts
<1>3. buf' \in [Buffer -> Buf]
  BY <1>1, <1>2 DEF Reject, IInv, TypeOK, Buf
<1>4. \A b \in Buffer :
        /\ buf'[b].mem = buf[b].mem
        /\ buf'[b].ref = IF call[p].req.role = "recv" /\ call[p].req.buffer = b
                           THEN buf[b].ref - 1 ELSE buf[b].ref
  BY <1>1 DEF Reject, IInv, TypeOK, Buf
<1> DEFINE D == {p}
<1>5. /\ D \in {{p}, {o, p}} /\ o \notin D
      /\ waiting' = waiting \ {p} /\ closing' = closing \cup D
      /\ io' = io /\ Goto(o, "rejected")
  BY <1>1 DEF Reject
<1> HIDE DEF D
<1>6. /\ Goto(o, IF o \in D THEN "matched" ELSE "rejected")
      /\ io' = IF o \in D THEN [io EXCEPT ![o].ref = @ + 1] ELSE io
  BY <1>5, Zenon
<1> QED BY <1>3, <1>4, <1>5, <1>6, CloseEntryIInv, Zenon

(* A match: the payload is copied, and both are closed.                    *)
LEMMA DeliverIInv ==
  ASSUME IInv, NEW o \in Op, call[o].pc = "numbered", NEW p \in waiting,
         Deliver(o, p), UNCHANGED <<comm, nextSeq, attaches>>
  PROVE  IInv'
<1> DEFINE s == Sender(o, p)
           r == Receiver(o, p)
<1>1. /\ call[p].req.buffer \in Buffer /\ call[o].req.buffer \in Buffer
      /\ p \in Op /\ p # o
  BY AtRendezvous
<1>2. /\ call[o].req.role \in Role /\ call[p].req.role \in Role
      /\ call[o].payload \in Data /\ call[p].payload \in Data
  BY <1>1, SimP2pAssumption DEF IInv, TypeOK, Call
<1>3. call[p].req.role = "recv" => buf[call[p].req.buffer].ref - 1 \in Nat
  BY WaitingRecvCounts
<1>4. /\ call[p].req.role # call[o].req.role
      /\ buf' = [buf EXCEPT ![call[r].req.buffer].data = call[s].payload,
                            ![call[r].req.buffer].ref =
                              IF r = p THEN @ - 1 ELSE @]
      /\ waiting' = waiting \ {p} /\ closing' = closing \cup {o, p}
      /\ io' = [io EXCEPT ![o].ref = @ + 1]
      /\ Goto(o, "matched")
  BY DEF Deliver, Mismatch, CloseMatched
<1>5. r = p <=> call[p].req.role = "recv"
  BY <1>1, <1>2, <1>4 DEF Role, Receiver
<1>6. /\ call[r].req.buffer \in Buffer /\ call[s].payload \in Data
      /\ r = p => buf[call[r].req.buffer].ref - 1 \in Nat
  BY <1>1, <1>2, <1>3, <1>5 DEF Sender, Receiver
<1>7. r = o \/ r = p
  BY DEF Receiver
<1> HIDE DEF r, s
<1>8. buf' \in [Buffer -> Buf]
  <2> DEFINE d == call[r].req.buffer
  <2>1. buf[d] \in Buf /\ buf \in [Buffer -> Buf]
    BY <1>6 DEF IInv, TypeOK
  <2>2. [mem |-> buf[d].mem, data |-> call[s].payload,
         ref |-> IF r = p THEN buf[d].ref - 1 ELSE buf[d].ref] \in Buf
    BY <1>6, <2>1 DEF Buf
  <2>3. \A b \in Buffer : b # d => buf'[b] = buf[b]
    BY <1>4, <1>6, <2>1
  <2>4. buf'[d] = [buf[d] EXCEPT !.data = call[s].payload,
                                 !.ref = IF r = p THEN buf[d].ref - 1
                                         ELSE buf[d].ref]
    BY <1>4, <1>6, <2>1 DEF Buf
  <2>5. buf'[d] \in Buf
    BY <2>1, <2>2, <2>4 DEF Buf
  <2>6. DOMAIN buf' = Buffer /\ buf' = [b \in Buffer |-> buf'[b]]
    BY <1>4, <2>1
  <2> QED BY <2>1, <2>3, <2>5, <2>6
<1>9. \A b \in Buffer :
        /\ buf'[b].mem = buf[b].mem
        /\ buf'[b].ref = IF call[p].req.role = "recv" /\ call[p].req.buffer = b
                           THEN buf[b].ref - 1 ELSE buf[b].ref
  <2> TAKE b \in Buffer
  <2>1. buf \in [Buffer -> Buf] /\ buf[b] \in Buf
    BY DEF IInv, TypeOK
  <2>2. CASE b = call[r].req.buffer
    <3>1. buf'[b] = [buf[b] EXCEPT !.data = call[s].payload,
                                   !.ref = IF r = p THEN buf[b].ref - 1
                                           ELSE buf[b].ref]
      BY <1>4, <1>6, <2>1, <2>2 DEF Buf
    <3>2. buf'[b].mem = buf[b].mem
          /\ buf'[b].ref = IF r = p THEN buf[b].ref - 1 ELSE buf[b].ref
      BY <2>1, <3>1 DEF Buf
    <3>3. r = p <=> call[p].req.role = "recv" /\ call[p].req.buffer = b
      BY <1>5, <2>2
    <3> QED BY <3>2, <3>3
  <2>3. CASE b # call[r].req.buffer
    <3>1. buf'[b] = buf[b]
      BY <1>4, <1>6, <2>1, <2>3
    <3>2. ~(call[p].req.role = "recv" /\ call[p].req.buffer = b)
      BY <1>5, <2>3
    <3> QED BY <3>1, <3>2
  <2> QED BY <2>2, <2>3
<1> DEFINE D == {o, p}
<1>10. /\ D \in {{p}, {o, p}} /\ o \in D
       /\ waiting' = waiting \ {p} /\ closing' = closing \cup D
       /\ io' = [io EXCEPT ![o].ref = @ + 1] /\ Goto(o, "matched")
  BY <1>4
<1> HIDE DEF D
<1>11. /\ Goto(o, IF o \in D THEN "matched" ELSE "rejected")
       /\ io' = IF o \in D THEN [io EXCEPT ![o].ref = @ + 1] ELSE io
  BY <1>10, Zenon
<1> QED BY <1>8, <1>9, <1>10, <1>11, CloseEntryIInv, Zenon

(* One handle of the entry being closed finishes.                          *)
LEMMA FinishSlotIInv ==
  ASSUME IInv, NEW o \in Op, FinishSlot(o)
  PROVE  IInv'
<1> USE DEF IInv
<1>a. PICK h \in closing :
        /\ io' = [io EXCEPT ![h].status = Verdict(o), ![h].ref = @ - 1]
        /\ closing' = closing \ {h}
        /\ UNCHANGED <<comm, nextSeq, attaches, call, waiting, buf>>
  BY DEF FinishSlot, Slots
<1>b. /\ h \in Op /\ h \notin waiting /\ io[h].ref = 1 /\ io[h].mem = "live"
      /\ Verdict(o) \in Status /\ Verdict(o) # "PENDING"
  BY DEF TypeOK, RefCountsExact, EntriesAlive, Verdict, Status
<1>c. /\ io' \in [Op -> Io]
      /\ \A x \in Op : x # h => io'[x] = io[x]
      /\ io'[h].mem = "live" /\ io'[h].ref = 0 /\ io'[h].status # "PENDING"
  BY <1>a, <1>b DEF TypeOK, Io
<1>1. TypeOK'
  BY <1>a, <1>c DEF TypeOK
<1>2. RefCountsExact'
  <2>1. \A x \in Op : io'[x].ref = IF x \in (waiting \cup closing)' THEN 1 ELSE 0
    BY <1>a, <1>b, <1>c DEF RefCountsExact
  <2>2. \A b \in Buffer : PendingRecvs(b)' = PendingRecvs(b)
    BY <1>a DEF PendingRecvs
  <2> QED BY <1>a, <2>1, <2>2 DEF RefCountsExact
<1>3. EntriesAlive'
  <2>1. \A x \in (waiting \cup closing)' :
          x \in Op /\ x # h /\ io[x].mem = "live" /\ io[x].status = "PENDING"
    BY <1>a, <1>b DEF EntriesAlive, TypeOK
  <2> QED BY <1>a, <1>c, <2>1 DEF EntriesAlive
<1>4. NoOrphanHandle'
  BY <1>a, <1>c DEF NoOrphanHandle
<1>5. CallsOwnBuffers'
  BY <1>a DEF CallsOwnBuffers
<1>6. HandlesFollowCalls'
  BY <1>a, <1>b, <1>c DEF HandlesFollowCalls
<1>7. (waiting \cap closing = {})'
  BY <1>a
<1> QED BY <1>1, <1>2, <1>3, <1>4, <1>5, <1>6, <1>7

(* The section ends, and the call returns.                                 *)
LEMMA LeaveIInv ==
  ASSUME IInv, NEW o \in Op, Leave(o)
  PROVE  IInv'
<1> USE DEF IInv
<1>a. /\ call[o].pc \in InSection /\ o \notin closing
      /\ io' = IF call[o].pc = "rejected"
                 THEN [io EXCEPT ![o].status = "INVALID"] ELSE io
      /\ UNCHANGED <<comm, nextSeq, attaches, waiting, closing, buf>>
  BY DEF Leave, Slots
<1>b. /\ call' \in [Op -> Call]
      /\ call'[o].pc = "returned"
      /\ \A p \in Op : /\ call'[p].req = call[p].req
                       /\ p # o => call'[p] = call[p]
  BY GotoFrame DEF Leave
<1>c. /\ io' \in [Op -> Io]
      /\ \A x \in Op : /\ io'[x].mem = io[x].mem /\ io'[x].ref = io[x].ref
                       /\ x # o => io'[x] = io[x]
      /\ call[o].pc = "rejected" => io'[o].status = "INVALID"
      /\ call[o].pc # "rejected" => io'[o].status = io[o].status
  BY <1>a DEF TypeOK, Io, Status
<1>d. o \notin waiting /\ io'[o].status # "PENDING"
  BY <1>a, <1>c DEF EntriesAlive, HandlesFollowCalls, InSection
<1>e. \A x \in Op : call[x].req.buffer \in Buffer
  BY SimP2pAssumption DEF TypeOK, Call
<1>1. TypeOK'
  BY <1>a, <1>b, <1>c DEF TypeOK
<1>2. RefCountsExact'
  <2>1. \A b \in Buffer : PendingRecvs(b)' = PendingRecvs(b)
    BY <1>a, <1>b DEF PendingRecvs, TypeOK
  <2> QED BY <1>a, <1>c, <2>1 DEF RefCountsExact
<1>3. EntriesAlive'
  <2>1. \A x \in waiting \cup closing :
          x \in Op /\ x # o /\ call'[x] = call[x] /\ io'[x] = io[x]
    BY <1>a, <1>b, <1>c, <1>d DEF TypeOK
  <2> QED BY <1>a, <2>1 DEF EntriesAlive
<1>4. NoOrphanHandle'
  BY <1>a, <1>b, <1>c, <1>d DEF NoOrphanHandle
<1>5. CallsOwnBuffers'
  BY <1>a, <1>b, <1>e DEF CallsOwnBuffers, Running, InSection
<1>6. HandlesFollowCalls'
  BY <1>a, <1>b, <1>c DEF HandlesFollowCalls
<1>7. (waiting \cap closing = {})'
  BY <1>a
<1> QED BY <1>1, <1>2, <1>3, <1>4, <1>5, <1>6, <1>7
-----------------------------------------------------------------------------
(* A handle that is released is in no entry.                               *)
LEMMA IoReleaseIInv ==
  ASSUME IInv, NEW o \in Op, flume_io_release(o)
  PROVE  IInv'
<1> USE DEF IInv, flume_io_release
<1>a. o \notin waiting \cup closing /\ call[o].pc = "returned"
  BY DEF RefCountsExact
<1>b. /\ io' \in [Op -> Io]
      /\ \A p \in Op : /\ io'[p].ref = io[p].ref
                       /\ io'[p].status = io[p].status
                       /\ p # o => io'[p] = io[p]
      /\ io'[o].mem = "freed"
  BY DEF TypeOK, Io
<1>1. TypeOK'
  BY <1>b DEF TypeOK
<1>2. (RefCountsExact /\ CallsOwnBuffers /\ waiting \cap closing = {})'
  <2>1. UNCHANGED <<call, waiting, closing, buf>>
    OBVIOUS
  <2>2. RefCountsExact'
    BY <1>b, <2>1 DEF RefCountsExact, PendingRecvs
  <2> QED BY <2>1, <2>2 DEF CallsOwnBuffers
<1>3. EntriesAlive'
  BY <1>a, <1>b DEF EntriesAlive, TypeOK
<1>4. (NoOrphanHandle /\ HandlesFollowCalls)'
  BY <1>a, <1>b DEF NoOrphanHandle, HandlesFollowCalls
<1> QED BY <1>1, <1>2, <1>3, <1>4

(* A buffer that is released is neither that of a running call nor the     *)
(* target of a waiting receive.                                            *)
LEMMA BufferReleaseIInv ==
  ASSUME IInv, NEW b \in Buffer, flume_buffer_release(b)
  PROVE  IInv'
<1> USE DEF IInv, flume_buffer_release
<1>a. \A o \in waiting : call[o].req.role = "recv" => call[o].req.buffer # b
  BY WaitingRecvCounts
<1>b. /\ buf' \in [Buffer -> Buf]
      /\ \A c \in Buffer : /\ buf'[c].ref = buf[c].ref
                           /\ c # b => buf'[c] = buf[c]
  BY DEF TypeOK, Buf
<1>c. \A o \in Op : call[o].req.buffer \in Buffer
  BY SimP2pAssumption DEF TypeOK, Call
<1>1. TypeOK'
  BY <1>b DEF TypeOK
<1>2. RefCountsExact'
  BY <1>b DEF RefCountsExact, PendingRecvs
<1>3. EntriesAlive'
  BY <1>a, <1>b, <1>c DEF EntriesAlive, TypeOK
<1>4. CallsOwnBuffers'
  BY <1>b, <1>c DEF CallsOwnBuffers
<1>5. (NoOrphanHandle /\ HandlesFollowCalls /\ waiting \cap closing = {})'
  <2>1. UNCHANGED <<call, waiting, closing, io>>
    OBVIOUS
  <2>2. NoOrphanHandle' /\ HandlesFollowCalls'
    BY <2>1 DEF NoOrphanHandle, HandlesFollowCalls
  <2> QED BY <2>1, <2>2
<1> QED BY <1>1, <1>2, <1>3, <1>4, <1>5

(* Writing a payload changes no reference.                                 *)
LEMMA AppWriteIInv ==
  ASSUME IInv, NEW w \in Write, AppWrite(w)
  PROVE  IInv'
<1> USE DEF IInv, AppWrite
<1>b. /\ buf' \in [Buffer -> Buf]
      /\ \A c \in Buffer : buf'[c].ref = buf[c].ref /\ buf'[c].mem = buf[c].mem
  BY SimP2pAssumption DEF TypeOK, Buf
<1>c. \A o \in Op : call[o].req.buffer \in Buffer
  BY SimP2pAssumption DEF TypeOK, Call
<1>1. TypeOK'
  BY <1>b DEF TypeOK
<1>2. RefCountsExact'
  BY <1>b DEF RefCountsExact, PendingRecvs
<1>3. (EntriesAlive /\ CallsOwnBuffers)'
  BY <1>b, <1>c DEF EntriesAlive, CallsOwnBuffers, TypeOK
<1>4. (NoOrphanHandle /\ HandlesFollowCalls /\ waiting \cap closing = {})'
  <2>1. UNCHANGED <<call, waiting, closing, io>>
    OBVIOUS
  <2>2. NoOrphanHandle' /\ HandlesFollowCalls'
    BY <2>1 DEF NoOrphanHandle, HandlesFollowCalls
  <2> QED BY <2>1, <2>2
<1> QED BY <1>1, <1>2, <1>3, <1>4

LEMMA StutterIInv == IInv /\ UNCHANGED vars => IInv'
<1> SUFFICES ASSUME IInv, UNCHANGED vars PROVE IInv'
  OBVIOUS
<1> USE DEF IInv, vars
<1>1. TypeOK'
  BY DEF TypeOK
<1>2. RefCountsExact'
  BY DEF RefCountsExact, PendingRecvs
<1>3. EntriesAlive' /\ (waiting \cap closing = {})'
  BY DEF EntriesAlive
<1>4. NoOrphanHandle' /\ CallsOwnBuffers' /\ HandlesFollowCalls'
  BY DEF NoOrphanHandle, CallsOwnBuffers, HandlesFollowCalls
<1> QED BY <1>1, <1>2, <1>3, <1>4

LEMMA NextIInv == IInv /\ [Next]_vars => IInv'
<1> SUFFICES ASSUME IInv, [Next]_vars PROVE IInv'
  OBVIOUS
<1>1. CASE \E w \in World : flume_attach_sim_comm(w)
  BY <1>1, AttachIInv
<1>2. CASE \E o \in Op, q \in Request : Begin(o, q)
  BY <1>2, BeginIInv
<1>3. CASE \E o \in Op : TakeSeq(o)
  BY <1>3, TakeSeqIInv
<1>4. CASE \E o \in Op : Rendezvous(o)
  <2>1. PICK o \in Op : Rendezvous(o)
    BY <1>4
  <2>2. CASE Enqueue(o)
    BY <2>1, <2>2, EnqueueIInv DEF Rendezvous
  <2>3. CASE \E p \in waiting : Reject(o, p)
    BY <2>1, <2>3, RejectIInv DEF Rendezvous
  <2>4. CASE \E p \in waiting : Deliver(o, p)
    BY <2>1, <2>4, DeliverIInv DEF Rendezvous
  <2> QED BY <2>1, <2>2, <2>3, <2>4 DEF Rendezvous
<1>9. CASE \E o \in Op : FinishSlot(o)
  BY <1>9, FinishSlotIInv
<1>10. CASE \E o \in Op : Leave(o)
  BY <1>10, LeaveIInv
<1>5. CASE \E o \in Op : flume_io_release(o)
  BY <1>5, IoReleaseIInv
<1>6. CASE \E b \in Buffer : flume_buffer_release(b)
  BY <1>6, BufferReleaseIInv
<1>7. CASE \E w \in Write : AppWrite(w)
  BY <1>7, AppWriteIInv
<1>8. CASE UNCHANGED vars
  BY <1>8, StutterIInv
<1> QED BY <1>1, <1>2, <1>3, <1>4, <1>5, <1>6, <1>7, <1>8, <1>9, <1>10
        DEF Next, Step

LEMMA Invariance == Spec => []IInv
BY InitIInv, NextIInv, PTL DEF Spec

(* The state stays well typed; in particular no pending_ref_count ever goes *)
(* below zero (ReleasePendingBuffer, CompletePendingIo).                    *)
THEOREM TypeCorrect == Spec => []TypeOK
<1>1. IInv => TypeOK BY DEF IInv
<1> QED BY <1>1, Invariance, PTL

(* The reference counts of handles and buffers are exact.                   *)
THEOREM RefCountsCorrect == Spec => []RefCountsExact
<1>1. IInv => RefCountsExact BY DEF IInv
<1> QED BY <1>1, Invariance, PTL

(* Entries of the rendezvous maps never dangle: their handles and receive   *)
(* buffers have not been released.                                          *)
THEOREM EntriesNeverDangle == Spec => []EntriesAlive
<1>1. IInv => EntriesAlive BY DEF IInv
<1> QED BY <1>1, Invariance, PTL

(* A pending handle in the application's hands is always in an entry, or    *)
(* about to be finished by the submission that closes it.                   *)
THEOREM NoHandleOrphaned == Spec => []NoOrphanHandle
<1>1. IInv => NoOrphanHandle BY DEF IInv
<1> QED BY <1>1, Invariance, PTL

=============================================================================
