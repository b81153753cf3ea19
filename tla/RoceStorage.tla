----------------------------- MODULE RoceStorage ------------------------------
(***************************************************************************)
(* One RoCE storage session: the application's calls, the detached worker  *)
(* of each request (SubmitRoceStorage, HostRaSession::SubmitAndWait), the  *)
(* storage server (ServeOneClient) and the RDMA fabric between them.       *)
(* Commands and completions travel over one TCP connection, payloads by    *)
(* RDMA between the server's staging memory and the NPU buffer, through a  *)
(* memory window that exists only for the request.                         *)
(*                                                                         *)
(* One step of a worker or of the server is one interaction with the other *)
(* side, or one change of state that another thread can observe.           *)
(***************************************************************************)
EXTENDS Naturals, Sequences, FiniteSets

CONSTANTS
  Op,          \* requests the application makes, one io each
  Buffer,      \* NPU buffers
  Request,     \* the arguments used: kind, buffer, and what is wrong with it
  Data,        \* payload contents; Zero is the initial one of the buffers
  Zero,
  Stored,      \* initial content of the storage range
  None,
  AllowWrites  \* the server was started with --allow-writes

ASSUME RoceStorageAssumption ==
  /\ \A q \in Request : /\ q.kind \in {"read", "write"} /\ q.buffer \in Buffer
                        /\ q.flaw \in {"none", "range", "object"}
  /\ Request # {}
  /\ IsFiniteSet(Op)
  /\ Zero \in Data /\ Stored \in Data
  /\ None \notin Buffer /\ None \notin Op
  /\ AllowWrites \in BOOLEAN

VARIABLES
  session,   \* request_state of flume_roce_storage_session; "gone" if deleted
  life,      \* SessionLifecycle of the HostRaSession
  nextId,    \* next_request_id
  op,        \* op[o]: the request, its worker and its flume_io
  buf,       \* buf[b]: the flume_buffer and the HBM behind it
  link,      \* client end of TCP connection and QP: "up" or "down"
  toServer,  \* commands sent and not yet received
  toClient,  \* completions sent and not yet received
  server,    \* the server's loop, the command it serves, its staging memory
  store,     \* content of the storage range
  fabric,    \* RDMA transfers posted and not yet executed
  cq         \* the server's completion queue: outcomes, in order

client == <<session, life, nextId, op, buf, link>>
vars == <<client, toServer, toClient, server, store, fabric, cq>>

NoRequest == CHOOSE q \in Request : TRUE

(* Where a worker is: in SubmitAndWait after BeginRequest; using the       *)
(* buffer; holding request_state; anywhere.                                *)
InRequest == {"exchange", "await", "deregister"}
UsesBuffer == {"begin", "release"} \cup InRequest
InFlight == UsesBuffer \cup {"unlock"}
Worker == InFlight \cup {"complete"}

OpState ==
  [pc : {"unused", "done"} \cup Worker, req : Request, id : Nat, ok : BOOLEAN,
   status : {"PENDING", "OK", "BACKEND", "UNSUPPORTED"},
   mem : {"none", "live", "freed"}, ref : {0, 1},
   mr : {"none", "open", "closed", "stuck"}]

Outcome == {"success", "invalid", "unsupported", "error"}
Command == [op : Op, id : Nat]
Completion == [id : Nat, status : Outcome]

TypeOK ==
  /\ session \in {"idle", "active", "gone"}
  /\ life \in {"created", "connected", "inflight", "failed", "closed"}
  /\ nextId \in Nat
  /\ op \in [Op -> OpState]
  /\ buf \in [Buffer -> [mem : {"live", "freed"}, ref : 0 .. Cardinality(Op),
                         data : Data]]
  /\ link \in {"up", "down"}
  /\ toServer \in Seq(Command) /\ toClient \in Seq(Completion)
  /\ server \in [pc : {"receive", "work", "transfer", "reply", "exited"},
                 op : Op \cup {None}, id : Nat, staging : Data, status : Outcome]
  /\ store \in Data
  /\ fabric \in SUBSET [op : Op, data : Data]
  /\ cq \in Seq({"success", "error"})

(* The application has opened the session, HostRaSession::Open not yet run.*)
Init ==
  /\ session = "idle" /\ life = "created" /\ nextId = 1
  /\ op = [o \in Op |->
       [pc |-> "unused", req |-> NoRequest, id |-> 0, ok |-> FALSE,
        status |-> "PENDING", mem |-> "none", ref |-> 0, mr |-> "none"]]
  /\ buf = [b \in Buffer |-> [mem |-> "live", ref |-> 0, data |-> Zero]]
  /\ link = "down"
  /\ toServer = <<>> /\ toClient = <<>>
  /\ server = [pc |-> "receive", op |-> None, id |-> 0, staging |-> Zero,
               status |-> "error"]
  /\ store = Stored /\ fabric = {} /\ cq = <<>>
-----------------------------------------------------------------------------
Set(o, f) == op' = [op EXCEPT ![o] = f]

(* The requests whose payload window (MR) is registered with the NPU RNIC. *)
windows == {o \in Op : op[o].mr \in {"open", "stuck"}}

(* SessionLifecycle: a transition from the wrong state is refused.         *)
CompleteRequest == life' = IF life = "inflight" THEN "connected" ELSE life
Fail == life' = IF life = "closed" THEN life ELSE "failed"
Close == life' = IF life \in {"inflight", "closed"} THEN life ELSE "closed"

(* HostRaSession::Open, called by flume_roce_storage_session_open: local   *)
(* resources, TCP connection, session exchange and QP, or Fail and Cleanup.*)
Open ==
  /\ life = "created"
  /\ \/ life' = "connected" /\ link' = "up"
     \/ Fail /\ UNCHANGED link
  /\ UNCHANGED <<session, nextId, op, buf, toServer, toClient, server,
                 store, fabric, cq>>

(* A handle finished inside the call.                                      *)
Born(o, q, st) ==
  Set(o, [op[o] EXCEPT !.pc = "done", !.req = q, !.status = st, !.mem = "live"])

(* Bug: request_state is set without looking at it.                        *)
Submit_NoExchange(o, q) ==
  /\ op[o].pc = "unused" /\ session # "gone" /\ life = "connected"
  /\ buf[q.buffer].mem = "live"
  /\ Set(o, [op[o] EXCEPT !.pc = "begin", !.req = q, !.id = nextId,
                          !.mem = "live", !.ref = 1])
  /\ nextId' = nextId + 1
  /\ session' = "active"
  /\ buf' = [buf EXCEPT ![q.buffer].ref = @ + 1]
  /\ UNCHANGED <<life, link, toServer, toClient, server, store, fabric,
                 cq>>

(* SubmitRoceStorage wins the exchange of request_state against other      *)
(* submitters and against session_close; a call that loses it, or names a  *)
(* wrong buffer, returns an error and changes nothing.  Three outcomes: no *)
(* usable session, a worker thread, no thread to be had.                   *)
Submit(o, q) ==
  /\ op[o].pc = "unused" /\ session = "idle" /\ life # "created"
  /\ buf[q.buffer].mem = "live"
  /\ \/ /\ life # "connected"
        /\ \E st \in {"BACKEND", "UNSUPPORTED"} : Born(o, q, st)
        /\ UNCHANGED <<session, nextId, buf>>
     \/ /\ life = "connected"
        /\ Set(o, [op[o] EXCEPT !.pc = "begin", !.req = q, !.id = nextId,
                                !.mem = "live", !.ref = 1])
        /\ nextId' = nextId + 1
        /\ session' = "active"
        /\ buf' = [buf EXCEPT ![q.buffer].ref = @ + 1]
     \/ /\ life = "connected"
        /\ Born(o, q, "BACKEND")
        /\ nextId' = nextId + 1
        /\ UNCHANGED <<session, buf>>
  /\ UNCHANGED <<life, link, toServer, toClient, server, store, fabric,
                 cq>>

(* Bug: a refused request releases the buffer that the worker releases     *)
(* too.                                                                    *)
Begin_ReleasesEarly(o) ==
  /\ op[o].pc = "begin"
  /\ Set(o, [op[o] EXCEPT !.pc = "release", !.ok = FALSE])
  /\ buf' = [buf EXCEPT ![op[o].req.buffer].ref = @ - 1]
  /\ UNCHANGED <<session, life, nextId, link, toServer, toClient,
                 server, store, fabric, cq>>

(* SubmitAndWait up to the payload window.  A request that BeginRequest or *)
(* the range test refuses, and a write to a read-only server, leave the    *)
(* lifecycle as it was; a failing RegisterMr does not.                     *)
Begin(o) ==
  LET q == op[o].req
      refused == \/ q.flaw = "range" \/ life # "connected"
                 \/ q.kind = "write" /\ ~AllowWrites
  IN
  /\ op[o].pc = "begin"
  /\ \/ /\ refused
        /\ Set(o, [op[o] EXCEPT !.pc = "release", !.ok = FALSE])
        /\ UNCHANGED life
     \/ /\ ~refused
        /\ Set(o, [op[o] EXCEPT !.pc = "release", !.ok = FALSE])
        /\ Fail
     \/ /\ ~refused
        /\ Set(o, [op[o] EXCEPT !.pc = "exchange", !.mr = "open"])
        /\ life' = "inflight"
  /\ UNCHANGED <<session, nextId, buf, link, toServer, toClient, server, store,
                 fabric, cq>>

(* SendCommand, which can fail: SO_SNDTIMEO, or the server closed its end. *)
Send(o) ==
  /\ op[o].pc = "exchange"
  /\ \/ /\ toServer' = Append(toServer, [op |-> o, id |-> op[o].id])
        /\ Set(o, [op[o] EXCEPT !.pc = "await"])
     \/ /\ Set(o, [op[o] EXCEPT !.pc = "deregister", !.ok = FALSE])
        /\ UNCHANGED toServer
  /\ UNCHANGED <<session, life, nextId, buf, link, toClient, server,
                 store, fabric, cq>>

(* Bug: the completion's status is not looked at.                          *)
Receive_AnyStatus(o) ==
  /\ op[o].pc = "await" /\ toClient # <<>>
  /\ Set(o, [op[o] EXCEPT !.pc = "deregister",
                          !.ok = Head(toClient).id = op[o].id])
  /\ toClient' = Tail(toClient)
  /\ UNCHANGED <<session, life, nextId, buf, link, toServer, server,
                 store, fabric, cq>>

(* ReceiveCompletion and the three tests of the completion.                *)
Receive(o) ==
  /\ op[o].pc = "await" /\ toClient # <<>>
  /\ LET c == Head(toClient) IN
       Set(o, [op[o] EXCEPT !.pc = "deregister",
                            !.ok = c.id = op[o].id /\ c.status = "success"])
  /\ toClient' = Tail(toClient)
  /\ UNCHANGED <<session, life, nextId, buf, link, toServer, server,
                 store, fabric, cq>>

(* Bug: no receive timeout on the control connection.                      *)
GiveUp_OnCloseOnly(o) ==
  /\ op[o].pc = "await" /\ server.pc = "exited"
  /\ Set(o, [op[o] EXCEPT !.pc = "deregister", !.ok = FALSE])
  /\ UNCHANGED <<session, life, nextId, buf, link, toServer, toClient,
                 server, store, fabric, cq>>

(* SO_RCVTIMEO expires, or the peer closed.                                *)
GiveUp(o) ==
  /\ op[o].pc = "await"
  /\ Set(o, [op[o] EXCEPT !.pc = "deregister", !.ok = FALSE])
  /\ UNCHANGED <<session, life, nextId, buf, link, toServer, toClient,
                 server, store, fabric, cq>>

(* Bug: a failed request leaves the session connected.                     *)
Deregister_KeepsSession(o) ==
  /\ op[o].pc = "deregister"
  /\ Set(o, [op[o] EXCEPT !.pc = "release", !.mr = "closed"])
  /\ CompleteRequest
  /\ UNCHANGED <<session, nextId, buf, link, toServer, toClient, server, store,
                 fabric, cq>>

(* Bug: a failed request returns before DeregisterMr.                      *)
Deregister_OnSuccess(o) ==
  /\ op[o].pc = "deregister"
  /\ Set(o, [op[o] EXCEPT !.pc = "release", !.mr = IF op[o].ok THEN "closed" ELSE @])
  /\ IF op[o].ok THEN CompleteRequest ELSE Fail
  /\ UNCHANGED <<session, nextId, buf, link, toServer, toClient, server, store,
                 fabric, cq>>

(* DeregisterMr, which may fail and leave the window registered, and the   *)
(* end of the request.                                                     *)
Deregister(o) ==
  /\ op[o].pc = "deregister"
  /\ \/ /\ Set(o, [op[o] EXCEPT !.pc = "release", !.mr = "closed"])
        /\ IF op[o].ok THEN CompleteRequest ELSE Fail
     \/ /\ Set(o, [op[o] EXCEPT !.pc = "release", !.mr = "stuck", !.ok = FALSE])
        /\ Fail
  /\ UNCHANGED <<session, nextId, buf, link, toServer, toClient, server, store,
                 fabric, cq>>

(* The worker after SubmitAndWait: ReleasePendingBuffer.                   *)
Release(o) ==
  /\ op[o].pc = "release"
  /\ Set(o, [op[o] EXCEPT !.pc = "unlock"])
  /\ buf' = [buf EXCEPT ![op[o].req.buffer].ref = @ - 1]
  /\ UNCHANGED <<session, life, nextId, link, toServer, toClient, server,
                 store, fabric, cq>>

(* request_state is idle again; the worker touches the session no more.    *)
Unlock(o) ==
  /\ op[o].pc = "unlock"
  /\ Set(o, [op[o] EXCEPT !.pc = "complete"])
  /\ session' = "idle"
  /\ UNCHANGED <<life, nextId, buf, link, toServer, toClient, server,
                 store, fabric, cq>>

(* CompletePendingIo; the worker's copy of the shared HostRaSession goes   *)
(* with it.  The connection goes with the last copy: the one of the        *)
(* session, or of a worker that outlives it.                               *)
Complete(o) ==
  /\ op[o].pc = "complete"
  /\ Set(o, [op[o] EXCEPT !.pc = "done", !.ref = 0,
                          !.status = IF op[o].ok THEN "OK" ELSE "BACKEND"])
  /\ link' = IF session = "gone" /\ \A p \in Op \ {o} : op[p].pc # "complete"
               THEN "down" ELSE link
  /\ UNCHANGED <<session, life, nextId, buf, toServer, toClient, server,
                 store, fabric, cq>>

(* flume_roce_storage_session_close: refused while a request is active.  A *)
(* connected session is closed and cleaned up here, a failed one when its  *)
(* last owner lets go of it.                                               *)
CloseSession ==
  /\ session = "idle" /\ life # "created"
  /\ session' = "gone"
  /\ IF life = "connected" THEN Close ELSE UNCHANGED life
  /\ link' = IF life = "connected" \/ \A o \in Op : op[o].pc # "complete"
               THEN "down" ELSE link
  /\ UNCHANGED <<nextId, op, buf, toServer, toClient, server, store,
                 fabric, cq>>

flume_io_release(o) ==
  /\ op[o].mem = "live" /\ op[o].ref = 0
  /\ Set(o, [op[o] EXCEPT !.mem = "freed"])
  /\ UNCHANGED <<session, life, nextId, buf, link, toServer, toClient,
                 server, store, fabric, cq>>

(* Bug: no pending_ref_count guard.                                        *)
flume_buffer_release_Unguarded(b) ==
  /\ buf[b].mem = "live"
  /\ buf' = [buf EXCEPT ![b].mem = "freed"]
  /\ UNCHANGED <<session, life, nextId, op, link, toServer, toClient,
                 server, store, fabric, cq>>

flume_buffer_release(b) ==
  /\ buf[b].mem = "live" /\ buf[b].ref = 0
  /\ buf' = [buf EXCEPT ![b].mem = "freed"]
  /\ UNCHANGED <<session, life, nextId, op, link, toServer, toClient,
                 server, store, fabric, cq>>

(* The application fills a buffer that no request is using.                *)
AppWrite(b, d) ==
  /\ buf[b].mem = "live" /\ buf[b].ref = 0
  /\ buf' = [buf EXCEPT ![b].data = d]
  /\ UNCHANGED <<session, life, nextId, op, link, toServer, toClient,
                 server, store, fabric, cq>>
-----------------------------------------------------------------------------
(* ServeOneClient: the next command, and what is refused without work.     *)
ServerReceives ==
  /\ server.pc = "receive" /\ toServer # <<>>
  /\ LET c == Head(toServer)
         q == op[c.op].req
         verdict == IF q.flaw # "none" THEN "invalid"
                    ELSE IF q.kind = "write" /\ ~AllowWrites THEN "unsupported"
                    ELSE "success"
     IN server' = [server EXCEPT !.op = c.op, !.id = c.id, !.status = verdict,
                     !.pc = IF verdict = "success" THEN "work" ELSE "reply"]
  /\ toServer' = Tail(toServer)
  /\ UNCHANGED <<client, toClient, store, fabric, cq>>

(* Staging memory is registered and, for a read, filled; the RDMA transfer *)
(* is posted.  Any of these may fail.                                      *)
ServerWorks ==
  LET o == server.op IN
  /\ server.pc = "work"
  /\ \/ /\ server' = [server EXCEPT !.pc = "reply", !.status = "error"]
        /\ UNCHANGED fabric
     \/ /\ server' = [server EXCEPT !.pc = "transfer",
                          !.staging = IF op[o].req.kind = "read" THEN store ELSE Zero]
        /\ fabric' = fabric \cup {[op |-> o, data |-> store]}
  /\ UNCHANGED <<client, toServer, toClient, store, cq>>

(* External: the RNICs execute a posted transfer, if the window it names   *)
(* is still registered and the QP still there.  A read request is an RDMA  *)
(* write into the buffer; a write request an RDMA read of it, whose data   *)
(* is lost if the server no longer waits for it.                           *)
Transfer(t) ==
  LET q == op[t.op].req
      reachable == link = "up" /\ t.op \in windows
  IN
  /\ t \in fabric
  /\ fabric' = fabric \ {t}
  /\ cq' = Append(cq, IF reachable THEN "success" ELSE "error")
  /\ buf' = IF reachable /\ q.kind = "read"
              THEN [buf EXCEPT ![q.buffer].data = t.data] ELSE buf
  /\ server' = IF /\ reachable /\ q.kind = "write"
                  /\ server.pc = "transfer" /\ server.op = t.op
               THEN [server EXCEPT !.staging = buf[q.buffer].data] ELSE server
  /\ UNCHANGED <<session, life, nextId, op, link, toServer, toClient,
                 store>>

(* VerbsBackend::Transfer takes the first completion of the queue, then a  *)
(* write reaches the storage, which may fail.                              *)
ServerPolls ==
  /\ server.pc = "transfer" /\ cq # <<>>
  /\ \E ok \in {Head(cq), "error"} :
       /\ server' = [server EXCEPT !.pc = "reply", !.status = ok]
       /\ store' = IF ok = "success" /\ op[server.op].req.kind = "write"
                     THEN server.staging ELSE store
  /\ cq' = Tail(cq)
  /\ UNCHANGED <<client, toServer, toClient, fabric>>

(* The server's own transfer timeout; the posted transfer stays posted.    *)
ServerTimesOut ==
  /\ server.pc = "transfer" /\ cq = <<>>
  /\ server' = [server EXCEPT !.pc = "reply", !.status = "error"]
  /\ UNCHANGED <<client, toServer, toClient, store, fabric, cq>>

ServerReplies ==
  /\ server.pc = "reply"
  /\ \/ /\ toClient' = Append(toClient, [id |-> server.id, status |-> server.status])
        /\ server' = [server EXCEPT !.pc = "receive", !.op = None]
     \/ /\ link = "down"
        /\ server' = [server EXCEPT !.pc = "exited", !.op = None]
        /\ UNCHANGED toClient
  /\ UNCHANGED <<client, toServer, store, fabric, cq>>

(* The peer closed between commands, or the server process dies.           *)
ServerExits ==
  /\ server.pc # "exited" /\ life # "created"
  /\ server' = [server EXCEPT !.pc = "exited", !.op = None]
  /\ UNCHANGED <<client, toServer, toClient, store, fabric, cq>>

WorkerStep(o) ==
  \/ Begin(o) \/ Send(o) \/ Receive(o) \/ GiveUp(o) \/ Deregister(o)
  \/ Release(o) \/ Unlock(o) \/ Complete(o)

ServerStep ==
  \/ ServerReceives \/ ServerWorks \/ ServerPolls \/ ServerTimesOut
  \/ ServerReplies

Next ==
  \/ Open \/ CloseSession
  \/ \E o \in Op, q \in Request : Submit(o, q)
  \/ \E o \in Op : WorkerStep(o) \/ flume_io_release(o)
  \/ \E b \in Buffer : flume_buffer_release(b)
  \/ \E b \in Buffer, d \in Data : AppWrite(b, d)
  \/ ServerStep \/ ServerExits
  \/ \E t \in fabric : Transfer(t)

Spec == Init /\ [][Next]_vars

(* Workers run; every wait of a worker has a timeout.  Nothing is assumed  *)
(* of the server or of the network.                                        *)
FairSpec == Spec /\ \A o \in Op : WF_vars(WorkerStep(o))
-----------------------------------------------------------------------------
(* One request per session: from the exchange of request_state to the end  *)
(* of SubmitAndWait no second request is between the same two points, the  *)
(* lifecycle agrees, and session_close cannot delete the session under the *)
(* worker.                                                                 *)
RequestExclusive ==
  /\ \A o, p \in Op : op[o].pc \in InFlight /\ op[p].pc \in InFlight => o = p
  /\ session = "active" <=> \E o \in Op : op[o].pc \in InFlight
  /\ life = "inflight" <=> \E o \in Op : op[o].pc \in InRequest

(* Whenever the session could take a new request, nothing of an earlier    *)
(* one is left anywhere: no command, no completion, no posted transfer, no *)
(* unread completion-queue entry and no open window.  Every way a request  *)
(* can leave something behind fails the session instead.                   *)
CleanWhenConnected ==
  life = "connected" =>
    /\ toServer = <<>> /\ toClient = <<>> /\ fabric = {} /\ cq = <<>>
    /\ windows = {}
    /\ server.pc \in {"receive", "exited"}

(* The buffer of a request is referenced for exactly as long as the worker *)
(* may use it.  No way out of SubmitAndWait leaves its window registered   *)
(* except DeregisterMr's own failure, and then the request is not reported *)
(* as a success.                                                           *)
WindowsAccounted ==
  /\ \A b \in Buffer :
       buf[b].ref = Cardinality({o \in Op : /\ op[o].pc \in UsesBuffer
                                            /\ op[o].req.buffer = b})
  /\ \A o \in Op : /\ op[o].mr = "open" => op[o].pc \in InRequest
                   /\ op[o].mr = "stuck" => ~op[o].ok

Succeeds(o) == op[o].pc = "deregister" /\ op[o].ok /\ op'[o].ok

(* When a request is found to have succeeded, the buffer and the storage   *)
(* hold the same content, whichever way it went.                           *)
SuccessMeansTransferred ==
  [][\A o \in Op : Succeeds(o) => buf[op[o].req.buffer].data = store]_vars

(* Every request finishes, whatever the server does.                       *)
RequestFinishes ==
  \A o \in Op : op[o].pc \in Worker ~> op[o].pc = "done"

Handle(o) ==
  IF op[o].mem # "live" THEN op[o].mem
  ELSE IF op[o].status = "PENDING" THEN "pending"
  ELSE IF op[o].status = "OK" THEN "ok" ELSE "failed"

Promise == INSTANCE AsyncIo WITH
  handle <- [o \in Op |-> Handle(o)],
  target <- [o \in Op |-> IF op[o].pc \in UsesBuffer THEN op[o].req.buffer ELSE None],
  pinned <- {b \in Buffer : buf[b].mem = "live"}

(* Storage requests keep the promise of an operation that another thread   *)
(* completes: one verdict per handle, and neither a pending handle nor the *)
(* buffer of a running request can be released.                            *)
KeepsAsyncIo == Promise!Spec

(* The server may still move data for o.                                   *)
Outstanding(o) ==
  \/ \E i \in 1 .. Len(toServer) : toServer[i].op = o
  \/ server.op = o /\ server.pc \in {"work", "transfer"}
  \/ \E t \in fabric : t.op = o

(* The window (MR) of a request outlives whatever the server may still do  *)
(* with it, as docs/stage-4-tensor-swap.md says it does.                   *)
WindowKept ==
  \A o \in Op :
    Outstanding(o) /\ link = "up" /\ server.pc # "exited" => o \in windows
=============================================================================
