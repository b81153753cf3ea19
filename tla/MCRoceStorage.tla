---------------------------- MODULE MCRoceStorage -----------------------------
(* Small instances of RoceStorage.                                         *)
EXTENDS RoceStorage

CONSTANT b0

Req(k, b, f) == [kind |-> k, buffer |-> b, flaw |-> f]

Requests ==
  {Req("read", b0, "none"), Req("write", b0, "none"), Req("read", b0, "range"),
   Req("read", b0, "object")}

Reads == {Req("read", b0, "none")}
=============================================================================
