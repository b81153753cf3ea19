------------------------------ MODULE MCSimP2p ------------------------------
(* Small instances of SimP2p.                                              *)
EXTENDS SimP2p, TLC

CONSTANTS c0, c1, c2, o1, o2, o3, o4, b0, b1, b2

TwoRanks ==
  {[client |-> c0, name |-> "w", rank |-> 0, size |-> 2],
   [client |-> c1, name |-> "w", rank |-> 1, size |-> 2]}

(* The two ranks, and a client that may also attach as the other rank.     *)
Reattached ==
  TwoRanks \cup {[client |-> c0, name |-> "w", rank |-> 1, size |-> 2]}

ThreeRanks ==
  {[client |-> c0, name |-> "w", rank |-> 0, size |-> 3],
   [client |-> c1, name |-> "w", rank |-> 1, size |-> 3],
   [client |-> c2, name |-> "w", rank |-> 2, size |-> 3]}

OwnerOfTwo == (b0 :> c0) @@ (b1 :> c1)
OwnerOfThree == OwnerOfTwo @@ (b2 :> c2)

Req(c, ch, r, p, b, n) ==
  [client |-> c, chan |-> ch, role |-> r, peer |-> p, buffer |-> b, count |-> n]

(* One direction on the p2p channel, the other on the hcomm channel, and   *)
(* one receive with a count the sender never uses.  A client attached as   *)
(* rank 1 that sends to rank 1, one that is not attached, and one that     *)
(* uses the other's buffer are refused.                                    *)
PairRequests ==
  {Req(c0, "p2p", "send", 1, b0, 1), Req(c1, "p2p", "recv", 0, b1, 1),
   Req(c1, "p2p", "recv", 0, b1, 2), Req(c1, "hcomm", "send", 0, b1, 1),
   Req(c0, "hcomm", "recv", 1, b0, 1), Req(c1, "p2p", "send", 0, b0, 1)}

(* Transfers from rank 0 to rank 1 only.                                   *)
OneWayRequests ==
  {Req(c0, "p2p", "send", 1, b0, 1), Req(c1, "p2p", "recv", 0, b1, 1),
   Req(c1, "p2p", "recv", 0, b1, 2)}

(* Rank 0 sends to both others, which receive from it.                     *)
FanOutRequests ==
  {Req(c0, "p2p", "send", 1, b0, 1), Req(c0, "p2p", "send", 2, b0, 1),
   Req(c1, "p2p", "recv", 0, b1, 1), Req(c2, "p2p", "recv", 0, b2, 1)}

(* Rank 0 changes its send buffer, which was zero.                         *)
OneWrite == {[buffer |-> b0, data |-> 1]}
NoWrite == {}

Symmetry == Permutations(Op)
=============================================================================
