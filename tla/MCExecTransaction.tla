------------------------- MODULE MCExecTransaction -------------------------
(* An instance of ExecTransaction for TLC. *)
EXTENDS ExecTransaction

CONSTANTS c1, c2, c3

MethodOf == [c \in Calls |-> CASE c = c1 -> "mockCddRegisterDid"
                              [] c = c2 -> "sudo"
                              [] c = c3 -> "batch"]
=============================================================================
