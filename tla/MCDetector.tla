------------------------------ MODULE MCDetector ------------------------------
(***************************************************************************)
(* Instances of Detector.  Two layouts with two samples each: Tall has its *)
(* samples in rows 0 and 2, Wide in columns 0 and 2; each row has padding  *)
(* or not.  122 is above three quarters of 160 (120) and below three       *)
(* quarters of 165 (123.75).                                               *)
(***************************************************************************)
EXTENDS Detector

Buffer(size, i, a, j, b) ==
    [n \in 0..(size - 1) |-> IF n = i THEN a ELSE IF n = j THEN b ELSE 0]

Tall(a, b) == [width |-> 2, height |-> 4, bytesPerRow |-> 5,
               buffer |-> Buffer(20, 0, a, 10, b)]
Wide(a, b) == [width |-> 4, height |-> 2, bytesPerRow |-> 4,
               buffer |-> Buffer(8, 0, a, 2, b)]

\* A sample at 122 that fades out of view when the threshold rises, two of them
\* in the other format, and a dark frame in that format.
FadingFrames == {Tall(0, 122), Wide(122, 122), Wide(0, 0)}

\* Two layouts of one width: the scan of a Tall frame's rows leaves Short.
Short == [width |-> 2, height |-> 2, bytesPerRow |-> 4,
          buffer |-> Buffer(8, 0, 0, 1, 0)]

RacingFrames == {Tall(255, 0), Wide(0, 0), Short}
=============================================================================
