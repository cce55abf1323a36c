-------------------------- MODULE MCPipewireCapture --------------------------
(* Instances of PipewireCapture small enough for TLC. *)
EXTENDS PipewireCapture

\* Before the first negotiation the size is 0 x 0; then the screen is 2 x 1 or,
\* rotated, 1 x 2.
MCInfos == { [w |-> 2, h |-> 1], [w |-> 1, h |-> 2] }

\* A chunk that holds both sizes, padding included, and an empty one, after
\* which a conversion may find too few bytes.
MCChunks == { [stride |-> 2, size |-> 4], [stride |-> 0, size |-> 0] }

\* A default-length timeout, and one that is 0 in whole milliseconds.
MCTimeouts == {100000, 500}
=============================================================================
