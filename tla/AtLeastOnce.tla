---------------------------- MODULE AtLeastOnce ----------------------------
(***************************************************************************)
(* What the write-ahead delivery queue promises about a message once it is *)
(* on disk: it stays owed until every part has reached the recipient, its  *)
(* caller aborted it, or it was parked in failed/; it is being sent by one *)
(* owner at a time; and once it is no longer owed it is not sent again.    *)
(***************************************************************************)
CONSTANTS Entries, Parts

VARIABLES state, sending, received

vars == <<state, sending, received>>

Init ==
  /\ state = [e \in Entries |-> "new"]
  /\ sending = {}
  /\ received = [e \in Entries |-> {}]

Accept(e) ==
  /\ state[e] = "new"
  /\ state' = [state EXCEPT ![e] = "owed"]
  /\ UNCHANGED <<sending, received>>

Begin(e) ==
  /\ state[e] = "owed"
  /\ e \notin sending
  /\ sending' = sending \cup {e}
  /\ UNCHANGED <<state, received>>

(* A part arrives, the sender may learn of it or not. *)
Arrive(e, p) ==
  /\ e \in sending
  /\ received' = [received EXCEPT ![e] = @ \cup {p}]
  /\ sending' \in {sending, sending \ {e}}
  /\ UNCHANGED state

(* Sends end, or the process that makes them dies. *)
Stop(S) ==
  /\ S # {}
  /\ S \subseteq sending
  /\ sending' = sending \ S
  /\ UNCHANGED <<state, received>>

Settle(e) ==
  /\ state[e] = "owed"
  /\ e \notin sending
  /\ \/ /\ received[e] = Parts
        /\ state' = [state EXCEPT ![e] = "delivered"]
     \/ state' = [state EXCEPT ![e] = "aborted"]
     \/ state' = [state EXCEPT ![e] = "parked"]
  /\ UNCHANGED <<sending, received>>

Next ==
  \/ \E e \in Entries : Accept(e) \/ Begin(e) \/ Settle(e)
  \/ \E e \in Entries, p \in Parts : Arrive(e, p)
  \/ \E S \in SUBSET Entries : Stop(S)

Spec == Init /\ [][Next]_vars
=============================================================================
