----------------------------- MODULE MCHciLayer -----------------------------
(***************************************************************************)
(* Instances of HciLayer for TLC: two commands of one opcode whose sender  *)
(* does not wait, one whose sender waits on sync_sem and one whose sender  *)
(* waits on a future.                                                      *)
(***************************************************************************)
EXTENDS HciLayer

CONSTANTS a, b, s, f, opA, opS, opF

MCOpcode == [c \in Cmds |-> CASE c \in {a, b} -> opA [] c = s -> opS [] c = f -> opF]
MCKind == [o \in Opcodes |-> CASE o = opA -> "async" [] o = opS -> "sync" [] o = opF -> "future"]
=============================================================================
