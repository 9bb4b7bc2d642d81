------------------------------- MODULE MCRpc -------------------------------
(***************************************************************************)
(* An instance of Rpc for TLC: calls over two session ids, so that the ids *)
(* wrap around.                                                            *)
(***************************************************************************)
EXTENDS Rpc, TLC

CONSTANTS a, b, c, d

MCKind == [x \in Calls |-> IF x = d THEN "fire" ELSE IF x = b THEN "bad" ELSE "good"]
=============================================================================
