----------------------------- MODULE MCClientV2 -----------------------------
(***************************************************************************)
(* Instances of ClientV2 for TLC.  One gRPC client, one legacy client    *)
(* that exists before any facade (for AsV2) and one that NewFromProto     *)
(* can build, one parameter value, two results (object or error).        *)
(*                                                                        *)
(* MCClientV2.cfg: one goroutine, up to two options per call out of a     *)
(* nil option and two one-code options, so order, nil skipping and the    *)
(* omitted argument all occur on every operation of every handle.         *)
(***************************************************************************)
EXTENDS ClientV2

MCOptions == {NilOption, WithIgnoredCodes(<<1001>>), WithIgnoredCodes(<<1002>>)}

=============================================================================
