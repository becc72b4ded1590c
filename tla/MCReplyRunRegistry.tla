------------------------- MODULE MCReplyRunRegistry -------------------------
(* Two operations of one key, one after the other, and one of another key, *)
(* with session ids that all of them may use.                              *)
EXTENDS ReplyRunRegistry, TLC

CONSTANTS k1, k2, o1, o2, o3, i1, i2, w1

MCKeyOf == [o \in {o1, o2, o3} |-> IF o = o3 THEN k2 ELSE k1]

Symmetry == Permutations({o1, o2}) \cup Permutations(Ids)

(* What a later step or a property can depend on: of an operation that is  *)
(* cleared the session id, of one with a result whether its signal is      *)
(* aborted, and of a wait that ended when it should have, nothing.         *)
LiveOp(o) ==
  [op[o] EXCEPT !.sid = IF op[o].cleared THEN None ELSE @,
                !.aborted = @ /\ op[o].result = "none"]

LiveWaiter(w) ==
  IF waiter[w].status = "ended" /\ waiter[w].for \notin Active THEN NoWait ELSE waiter[w]

LiveView ==
  <<active, sessionOf, keyOf, waitKey, ids, crossed,
    [o \in Ops |-> LiveOp(o)], [w \in Waiters |-> LiveWaiter(w)]>>
=============================================================================
