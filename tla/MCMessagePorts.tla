---------------------------- MODULE MCMessagePorts ----------------------------
(* The pair of a worker and its parent, and one pair more.                   *)
EXTENDS MessagePorts, TLC

CONSTANTS a, b, c, d

TwoPairs == (a :> b) @@ (b :> a) @@ (c :> d) @@ (d :> c)

===============================================================================
