-------------------------- MODULE MCServiceBusGate --------------------------
EXTENDS ServiceBusGate

CONSTANTS f1, f2

\* The event of f1, named exactly, and named with the other finding's
\* session by mistake.
MCExpected ==
    {[message_id |-> <<f1, 1>>, session_id |-> f1, payload |-> <<f1, 1>>],
     [message_id |-> <<f1, 1>>, session_id |-> f2, payload |-> <<f1, 1>>]}
=============================================================================
