---------------------------- MODULE MCSckCapture ----------------------------
(* Instances of SckCapture small enough for TLC. *)
EXTENDS SckCapture

\* A display of two pixels, in rows and in columns with padding, a smaller one,
\* and one whose pixel format convertMacFrame does not know.
MCSamples ==
    { [w |-> 2, h |-> 1, stride |-> 2, known |-> TRUE],
      [w |-> 1, h |-> 2, stride |-> 2, known |-> TRUE],
      [w |-> 1, h |-> 1, stride |-> 1, known |-> TRUE],
      [w |-> 1, h |-> 1, stride |-> 2, known |-> FALSE] }

\* A default-length timeout, and one that is 0 in whole milliseconds.
MCTimeouts == {100000, 500}
=============================================================================
