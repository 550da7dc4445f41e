------------------------------ MODULE FrameScan ------------------------------
(***************************************************************************)
(* The arithmetic of one camera frame, as DetectionVC.captureOutput does   *)
(* it: which samples of the luma plane are visited, at which index of the  *)
(* buffer each one lies, when a sample counts as bright and when the       *)
(* number of bright samples makes the frame a cosmic ray.                  *)
(*                                                                         *)
(* A frame is a record [width, height, bytesPerRow, buffer]: plane 0 of    *)
(* the pixel buffer, buffer a function from 0..bytesPerRow*height-1 to     *)
(* UInt8.  Frames have no other content here.                              *)
(***************************************************************************)
EXTENDS Integers, FiniteSets

UInt8 == 0..255

\* DetectionVC.pixelsToSkip and DetectionVC.minRaySize.
pixelsToSkip == 2
minRaySize == 1

\* "let index = x +  y * bytesPerRowofPlane".
Index(x, y, bytesPerRowofPlane) == x + y * bytesPerRowofPlane

\* "intensity > getIntensityThreshold(mode: detectionMode)*0.75", exactly.
IsBright(intensity, threshold) == 4 * intensity > 3 * threshold

\* Broken variant of IsRay: no lower limit.
IsRayNoMinimum(n, width, height) == n <= (width * height) \div 4

\* The window that turns a count of bright samples into an event.
IsRay(n, width, height) ==
    minRaySize <= n /\ n <= (width * height) \div 4

\* Broken variant of NextPoint: only the first row is visited.
NextPointFirstRow(x, y, height) == <<x + pixelsToSkip, 0>>

\* The successor of point <<x, y>> in the two nested stride loops.
NextPoint(x, y, height) ==
    IF y + pixelsToSkip < height THEN <<x, y + pixelsToSkip>>
                                 ELSE <<x + pixelsToSkip, 0>>

-----------------------------------------------------------------------------
(* Reference definitions, for the properties only.                         *)

\* The values of "stride(from: 0, to: n, by: pixelsToSkip)".
Strided(n) == {i \in 0..(n - 1) : i % pixelsToSkip = 0}

SampledPoints(f) == Strided(f.width) \X Strided(f.height)

\* The bright samples of frame f under one fixed threshold.
BrightPoints(f, threshold) ==
    {p \in SampledPoints(f) :
        IsBright(f.buffer[p[1] + p[2] * f.bytesPerRow], threshold)}
=============================================================================
