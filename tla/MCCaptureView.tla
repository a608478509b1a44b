--------------------------- MODULE MCCaptureView ---------------------------
(* CaptureView on small instances. *)
EXTENDS CaptureView

CONSTANTS a, b, c
\* Two documents fit together, all three do not; the largest exceeds the bound.
Sizes == [x \in Id |-> IF x = a THEN 1 ELSE IF x = b THEN 2 ELSE 4]
====
