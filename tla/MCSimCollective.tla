--------------------------- MODULE MCSimCollective ---------------------------
(* Small instances of SimCollective.                                       *)
EXTENDS SimCollective, FiniteSetsExt, TLC

CONSTANTS c0, c1, c2, o1, o2, o3, b0, b1, b2

TwoRanks ==
  {[client |-> c0, name |-> "w", rank |-> 0, size |-> 2],
   [client |-> c1, name |-> "w", rank |-> 1, size |-> 2]}

ThreeRanks ==
  {[client |-> c0, name |-> "w", rank |-> 0, size |-> 3],
   [client |-> c1, name |-> "w", rank |-> 1, size |-> 3],
   [client |-> c2, name |-> "w", rank |-> 2, size |-> 3]}

(* One rank alone, and a client that may attach as either rank of two.     *)
Worlds ==
  TwoRanks \cup {[client |-> c0, name |-> "w", rank |-> 1, size |-> 2],
                 [client |-> c1, name |-> "v", rank |-> 0, size |-> 1]}

OwnerOfOne == b0 :> c0
OwnerOfTwo == (b0 :> c0) @@ (b1 :> c1)
OwnerOfThree == OwnerOfTwo @@ (b2 :> c2)

Req(c, k, b, v, dt, rop) ==
  [client |-> c, kind |-> k, dst |-> b, input |-> v, shape |-> 1,
   dtype |-> dt, rop |-> rop]

(* Ranks that may disagree about type and operation, that the simulated    *)
(* reduction cannot serve, a reduce operation the library does not know,   *)
(* and a foreign buffer.                                                   *)
MixedRequests ==
  {Req(c0, "allreduce", b0, 3, "u8", "prod"),
   Req(c1, "allreduce", b1, 2, "u8", "prod"),
   Req(c0, "allreduce", b0, 1, "fp16", "max"),
   Req(c1, "allreduce", b1, 2, "u8", "unknown"),
   Req(c0, "allgather", b1, 2, "u8", "sum")}

(* Three ranks that agree, on two kinds of collectives.                    *)
AgreeingRequests ==
  {Req(c0, "allreduce", b0, 3, "u8", "sum"),
   Req(c1, "allreduce", b1, 2, "u8", "sum"),
   Req(c2, "allreduce", b2, 1, "u8", "sum"),
   Req(c0, "allgather", b0, 1, "u8", "sum"),
   Req(c1, "allgather", b1, 2, "u8", "sum"),
   Req(c2, "allgather", b2, 3, "u8", "sum")}

(* Three ranks, one of which passes another count.                         *)
DisagreeingRequests ==
  {Req(c0, "allreduce", b0, 1, "u8", "sum"),
   [Req(c1, "allreduce", b1, 3, "u8", "sum") EXCEPT !.shape = 2],
   Req(c2, "allreduce", b2, 2, "u8", "sum")}

(* One rank of two that attaches twice, and submits two collectives.       *)
OneRank == {[client |-> c0, name |-> "w", rank |-> 0, size |-> 2]}
OneRankRequests == {Req(c0, "allreduce", b0, 1, "u8", "sum")}

Symmetry == Permutations(Op)

(* What the reduction of one value per rank is, whatever the order.        *)
Reference(f, rop) ==
  CASE rop = "sum"  -> MapThenSumSet(LAMBDA r : f[r], DOMAIN f) % Modulus
    [] rop = "prod" -> FoldSet(LAMBDA r, acc : f[r] * acc, 1, DOMAIN f) % Modulus
    [] rop = "max"  -> Max({f[r] : r \in DOMAIN f})
    [] rop = "min"  -> Min({f[r] : r \in DOMAIN f})

(* The rank-by-rank reduction, which wraps at every step, is the reference *)
(* one, which wraps once, for all payloads of up to three ranks.           *)
ASSUME ReducedIsReference ==
  \A n \in 1 .. 3 : \A f \in [0 .. n - 1 -> Value], rop \in ReduceOp :
    Reduced(f, n, rop) = Reference(f, rop)

(* A collective that succeeds has left in the rank's buffer the reduction, *)
(* or the concatenation by rank, of what each rank of its round submitted, *)
(* each payload once, in whatever order the ranks arrived.  It is stated   *)
(* for clients that attach once, so that a round has one call per rank.    *)
ResultOfAllRanks ==
  [][\A o \in Op : Becomes(o, "OK") =>
       LET f == [r \in 0 .. call[o].comm.size - 1 |->
                   call[CHOOSE p \in Op : /\ Submitted(p) /\ SameRound(o, p)
                                          /\ call[p].comm.rank = r].req.input]
       IN buf[call[o].req.dst].data =
            IF call[o].req.kind = "allgather" THEN f
            ELSE <<Reference(f, call[o].req.rop)>>]_vars
=============================================================================
