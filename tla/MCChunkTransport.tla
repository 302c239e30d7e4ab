-------------------------- MODULE MCChunkTransport --------------------------
\* TLC instances of ChunkTransport.
EXTENDS ChunkTransport

CONSTANTS app, idt, other, module, broker

\* One process with two sending threads (the application and the ID thread)...
OneProcess == [t \in {app, idt} |-> module]

\* ... and a second process that sends to the same receiver.
TwoProcesses == [t \in {app, idt, other} |-> IF t = other THEN broker ELSE module]
=============================================================================
