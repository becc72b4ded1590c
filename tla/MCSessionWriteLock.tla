------------------------- MODULE MCSessionWriteLock -------------------------
(* Two calls in the gateway, one of which may nest, and one in another     *)
(* process that also sweeps stale files when it starts.                    *)
EXTENDS SessionWriteLock

CONSTANTS a1, a2, b1, gateway, doctor

MCProcOf == [a \in {a1, a2, b1} |-> IF a = b1 THEN doctor ELSE gateway]
=============================================================================
