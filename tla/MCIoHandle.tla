------------------------------ MODULE MCIoHandle ------------------------------
(* Small instances of IoHandle.                                            *)
EXTENDS IoHandle
=============================================================================
