--------------------------- MODULE OrderedDelivery ---------------------------
(***************************************************************************)
(* What the event queues of SentinelGRC promise their readers, without     *)
(* workers, leases, retries or crashes: the events of one finding reach    *)
(* the sink in sequence order, the next one only after the sender has      *)
(* recorded the previous one as accepted, and nothing accepted or recorded *)
(* is ever taken back.                                                     *)
(***************************************************************************)
EXTENDS Naturals

CONSTANTS Finding, MaxSequence

VARIABLES
    emitted,   \* how many events of each finding were committed
    accepted,  \* <<finding, sequence>> the sink holds
    recorded   \* <<finding, sequence>> the sender knows the sink holds

Sequence == 1 .. MaxSequence
Item == Finding \X Sequence

vars == <<emitted, accepted, recorded>>

Init ==
    /\ emitted = [f \in Finding |-> 0]
    /\ accepted = {}
    /\ recorded = {}

Emit(f) ==
    /\ emitted[f] < MaxSequence
    /\ emitted' = [emitted EXCEPT ![f] = @ + 1]
    /\ UNCHANGED <<accepted, recorded>>

\* The sink takes an event for the first time.
Accept(f, n) ==
    /\ n <= emitted[f]
    /\ \A m \in 1 .. (n - 1) : <<f, m>> \in recorded
    /\ accepted' = accepted \cup {<<f, n>>}
    /\ UNCHANGED <<emitted, recorded>>

Record(f, n) ==
    /\ <<f, n>> \in accepted
    /\ recorded' = recorded \cup {<<f, n>>}
    /\ UNCHANGED <<emitted, accepted>>

Next == \E f \in Finding :
            \/ Emit(f)
            \/ \E n \in Sequence : Accept(f, n) \/ Record(f, n)

Spec == Init /\ [][Next]_vars
=============================================================================
