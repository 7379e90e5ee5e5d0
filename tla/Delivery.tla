------------------------------ MODULE Delivery ------------------------------
(***************************************************************************)
(* What a person is promised of the messages they send: each submission of *)
(* a draft ends once, sent, refused with a reason or taken back, and none  *)
(* is lost; a draft sent again takes its earlier submission back.          *)
(* Sending.tla implements this, and says which of its drains' races the    *)
(* promise has to admit (`Deliver').                                       *)
(***************************************************************************)
EXTENDS Naturals

CONSTANT Ids   \* submissions of the draft, in the order they are queued

VARIABLE fate  \* what has become of each

Fates == {"unqueued", "held", "sent", "refused", "taken"}

Init == fate = [r \in Ids |-> "unqueued"]

\* A submission that is held is taken back, or turns out to have been sent already.
Withdrawn(r) ==
    IF fate[r] = "held" THEN fate'[r] \in {"sent", "taken"} ELSE fate'[r] = fate[r]

\* The draft is sent, again if something of it is still held.
Queue(r) ==
    /\ fate[r] = "unqueued" /\ \A q \in Ids : fate[q] = "unqueued" => q >= r
    /\ fate' \in [Ids -> Fates] /\ fate'[r] = "held"
    /\ \A q \in Ids \ {r} : Withdrawn(q)

\* It is taken back, or discarded.
TakeBack == fate' \in [Ids -> Fates] /\ \A r \in Ids : Withdrawn(r)

\* The server has it.  One refused or taken back while another attempt of it was under way may
\* still be sent by that; what has been sent stays sent.
Deliver(r) ==
    /\ fate[r] \in {"held", "refused", "taken"}
    /\ fate' = [fate EXCEPT ![r] = "sent"]

\* The server will not have it, and the draft says so.
Refuse(r) == fate[r] = "held" /\ fate' = [fate EXCEPT ![r] = "refused"]

Next == TakeBack \/ \E r \in Ids : Queue(r) \/ Deliver(r) \/ Refuse(r)

Spec == Init /\ [][Next]_fate
=============================================================================
