-------------------------- MODULE MCExternalImport --------------------------
(* The small instance of ExternalImport: a verified and an unverified bundle   *)
(* of one incident, and one that was verified by its executor; a JML request    *)
(* that qualifies and one that was verified by its requester.                   *)
EXTENDS ExternalImport, TLC

CONSTANTS f1, ann, bob

Good(n) == [id |-> n, finding |-> f1, closed |-> TRUE, valid |-> TRUE, passed |-> TRUE,
            verifier |-> ann, executor |-> bob]
MC_Bundle == {Good(1), [Good(2) EXCEPT !.passed = FALSE], [Good(3) EXCEPT !.executor = ann]}
Request(n) == [id |-> n, closed |-> TRUE, valid |-> TRUE, passed |-> TRUE,
               verifier |-> ann, requester |-> bob, executor |-> bob]
MC_JmlRequest == {Request(1), [Request(2) EXCEPT !.requester = ann]}

BridgeSymmetry == Permutations(Bridge) \cup Permutations(JmlBridge)
=============================================================================
