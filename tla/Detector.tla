------------------------------- MODULE Detector -------------------------------
(***************************************************************************)
(* One DetectionVC from viewDidLoad until its Stop button is pressed, and  *)
(* after.  Two threads share its properties without a lock:                *)
(*                                                                         *)
(*   - the serial queue imageQueue, on which AVFoundation calls            *)
(*     captureOutput: the scan of a frame, the count of events, the        *)
(*     rendered image;                                                     *)
(*   - the main thread: the view callbacks, the button, the timer that     *)
(*     raises the threshold, and the blocks captureOutput sends to         *)
(*     DispatchQueue.main, each of which records one detection.            *)
(*                                                                         *)
(* A frame is identified by its number (numFrames while it is handled), an *)
(* image by the number of the frame it was rendered from (0 stands for the *)
(* bundled placeholder).  Time is in whole seconds since timeStarted.      *)
(***************************************************************************)
EXTENDS FrameScan, Sequences

CONSTANTS
    Frames,      \* the sample buffers the camera can deliver
    MaxFrames,   \* bound: frames handled in a behaviour
    MaxLate,     \* bound: late frames discarded by AVFoundation
    MaxTime      \* bound: seconds of a behaviour

ASSUME BoundsAssumption ==
    MaxFrames \in Nat /\ MaxLate \in Nat /\ MaxTime \in Nat

\* A pixel buffer is at least as wide in memory as on screen.
ASSUME FramesAssumption ==
    \A f \in Frames :
        /\ f.width \in Nat \ {0}
        /\ f.height \in Nat \ {0}
        /\ f.bytesPerRow \in Nat
        /\ f.width <= f.bytesPerRow
        /\ f.buffer \in [0..(f.bytesPerRow * f.height - 1) -> UInt8]

\* The camera uses one layout for each width, as under one session preset.
\* Not assumed: captureOutput refreshes its cache only for a new width.
OneLayoutPerWidth ==
    \A f, g \in Frames :
        f.width = g.width => /\ f.height = g.height
                             /\ f.bytesPerRow = g.bytesPerRow

VARIABLES
    screen,        \* "init", "loaded", "appeared", "left"
    isRunning,     \* cameraSession.isRunning
    hasInput,      \* the session has the camera as its input
    now,           \* CFAbsoluteTimeGetCurrent() - timeStarted
    nextFire,      \* fire date of the repeating timer
    mainPC,        \* "idle", or "decide" inside updateThreshold
    mainQueue,     \* blocks waiting on DispatchQueue.main
    intensityThreshholds, \* per detection mode, raised by the timer
    intensityThreshhold,  \* the copy captureOutput keeps for the score
    geometry,      \* cached width, height, bytesPerRowofPlane
    fluxPC,        \* per thread: where it is in recomputing the flux
    reading,       \* per thread: the operands it has loaded for that
    timeElapsed,   \* shared by both threads
    flux,          \* shared: the pair of operands flux was computed from
    queuePC,       \* where imageQueue is: see TypeOK
    frame,         \* the sample buffer being handled
    x, y,          \* the next sample of the scan
    numBrightPixels,
    numFrames, numEvents,
    cgimage,       \* number of the frame the shared cgimage came from
    detections,    \* the calls of FirebaseHelper.addDetection, in order
    droppedFrames, \* the counter of the program
    lateFrames,    \* history: frames AVFoundation discarded
    eventsAtStop   \* history: numEvents when Stop was pressed

viewVars == <<screen, isRunning, hasInput, eventsAtStop>>
mainVars == <<mainPC, nextFire>>
scanVars == <<queuePC, frame, x, y, numBrightPixels>>
cacheVars == <<geometry, intensityThreshhold>>
lossVars == <<droppedFrames, lateFrames>>
fluxVars == <<fluxPC, reading, timeElapsed, flux>>

vars == <<viewVars, mainVars, scanVars, cacheVars, lossVars, fluxVars, now,
          mainQueue, intensityThreshholds, numFrames, numEvents, cgimage,
          detections>>

DetectionModes == {"YUV420v", "BGRA"}
detectionMode == "YUV420v"
InitialThreshold == 160
ThresholdStep == 5
TimerPeriod == 5

\* The two threads that recompute timeElapsed and flux.
Threads == {"main", "imageQueue"}

\* "var timeElapsed = CFAbsoluteTimeGetCurrent()": seconds since 2001.
AbsoluteTime == 700000000

NoReading == [events |-> 0, elapsed |-> 0]

NoFrame == [width |-> 0, height |-> 0, bytesPerRow |-> 0, buffer |-> <<>>]

GeometryOf(f) == [width |-> f.width, height |-> f.height,
                  bytesPerRow |-> f.bytesPerRow]

Init ==
    /\ screen = "init" /\ isRunning = FALSE /\ hasInput = FALSE
    /\ now = 0 /\ nextFire = 0
    /\ mainPC = "idle" /\ mainQueue = <<>>
    /\ intensityThreshholds =
         [m \in DetectionModes |-> IF m = "BGRA" THEN 450 ELSE InitialThreshold]
    /\ intensityThreshhold = 0
    /\ geometry = GeometryOf(NoFrame)
    /\ fluxPC = [t \in Threads |-> "idle"]
    /\ reading = [t \in Threads |-> NoReading]
    /\ timeElapsed = AbsoluteTime /\ flux = NoReading
    /\ queuePC = "idle" /\ frame = NoFrame
    /\ x = 0 /\ y = 0 /\ numBrightPixels = 0
    /\ numFrames = 0 /\ numEvents = 0
    /\ cgimage = 0
    /\ detections = <<>>
    /\ droppedFrames = 0 /\ lateFrames = 0 /\ eventsAtStop = 0

-----------------------------------------------------------------------------
(* Thresholds and flux                                                     *)

getIntensityThreshold(mode) == intensityThreshholds[mode]

\* Broken variant: the threshold is lowered.
setIntensityThresholdDown(mode, value) ==
    intensityThreshholds' = [intensityThreshholds EXCEPT
                               ![mode] = @ - (value - @)]

setIntensityThreshold(mode, value) ==
    intensityThreshholds' = [intensityThreshholds EXCEPT ![mode] = value]

incrementIntensityThreshold(mode, value) ==
    setIntensityThreshold(mode, getIntensityThreshold(mode) + value)

\* Broken variant: the flux compared the wrong way round.
FluxTooLow(f) == 10 * f.events < f.elapsed

\* "flux > targetFlux", flux = numEvents/timeElapsed and targetFlux = 1/10.
FluxTooHigh(f) == 10 * f.events > f.elapsed

\* "timeElapsed = CFAbsoluteTimeGetCurrent() - timeStarted" and then
\* "flux = Double(numEvents)/timeElapsed", on either thread: the clock is
\* read and timeElapsed written; numEvents and timeElapsed are read back and
\* flux is written.  Nothing keeps the other thread out between the steps.
readClock(t) ==
    /\ fluxPC[t] = "clock"
    /\ fluxPC' = [fluxPC EXCEPT ![t] = "store"]
    /\ reading' = [reading EXCEPT ![t].elapsed = now]
    /\ UNCHANGED <<timeElapsed, flux>>

storeElapsed(t) ==
    /\ fluxPC[t] = "store"
    /\ fluxPC' = [fluxPC EXCEPT ![t] = "events"]
    /\ timeElapsed' = reading[t].elapsed
    /\ UNCHANGED <<reading, flux>>

loadEvents(t) ==
    /\ fluxPC[t] = "events"
    /\ fluxPC' = [fluxPC EXCEPT ![t] = "elapsed"]
    /\ reading' = [reading EXCEPT ![t].events = numEvents]
    /\ UNCHANGED <<timeElapsed, flux>>

loadElapsed(t) ==
    /\ fluxPC[t] = "elapsed"
    /\ fluxPC' = [fluxPC EXCEPT ![t] = "divide"]
    /\ reading' = [reading EXCEPT ![t].elapsed = timeElapsed]
    /\ UNCHANGED <<timeElapsed, flux>>

storeFlux(t) ==
    /\ fluxPC[t] = "divide"
    /\ fluxPC' = [fluxPC EXCEPT ![t] = "idle"]
    /\ flux' = reading[t]
    /\ reading' = [reading EXCEPT ![t] = NoReading]
    /\ UNCHANGED timeElapsed

updateFlux(t) ==
    /\ \/ readClock(t) \/ storeElapsed(t) \/ loadEvents(t)
       \/ loadElapsed(t) \/ storeFlux(t)
    /\ UNCHANGED <<viewVars, mainVars, scanVars, cacheVars, lossVars, now,
                   mainQueue, intensityThreshholds, numFrames, numEvents,
                   cgimage, detections>>

-----------------------------------------------------------------------------
(* Main thread                                                             *)

\* viewDidLoad schedules the timer and configures the session; the camera
\* is not added when AVCaptureDeviceInput throws or canAddInput refuses it.
viewDidLoad ==
    /\ screen = "init"
    /\ screen' = "loaded"
    /\ nextFire' = now + TimerPeriod
    /\ hasInput' \in BOOLEAN
    /\ UNCHANGED <<isRunning, eventsAtStop, mainPC, scanVars, cacheVars,
                   lossVars, now, mainQueue, intensityThreshholds, fluxVars,
                   numFrames, numEvents, cgimage, detections>>

\* startRunning unless the session already runs; a later appearance of the
\* same view finds it running and changes nothing.
viewDidAppear ==
    /\ screen = "loaded"
    /\ mainPC = "idle"
    /\ screen' = "appeared"
    /\ isRunning' = TRUE
    /\ UNCHANGED <<hasInput, eventsAtStop, mainVars, scanVars, cacheVars,
                   lossVars, now, mainQueue, intensityThreshholds, fluxVars,
                   numFrames, numEvents, cgimage, detections>>

\* Broken variant: the segue alone, the session keeps running.
leaveWithoutStopping ==
    /\ screen = "appeared"
    /\ mainPC = "idle"
    /\ screen' = "left"
    /\ eventsAtStop' = numEvents
    /\ UNCHANGED <<isRunning, hasInput, mainVars, scanVars, cacheVars,
                   lossVars, now, mainQueue, intensityThreshholds, fluxVars,
                   numFrames, numEvents, cgimage, detections>>

\* The button stops the session and its segue covers the view for good.
stopCollectingDidTap ==
    /\ screen = "appeared"
    /\ mainPC = "idle"
    /\ isRunning' = FALSE
    /\ screen' = "left"
    /\ eventsAtStop' = numEvents
    /\ UNCHANGED <<hasInput, mainVars, scanVars, cacheVars, lossVars, now,
                   mainQueue, intensityThreshholds, fluxVars, numFrames,
                   numEvents, cgimage, detections>>

\* The first fire date after now: missed periods are coalesced.
Reschedule(due) ==
    CHOOSE d \in {due + TimerPeriod * k : k \in 1..(now + 1)} :
        d > now /\ d - TimerPeriod <= now

\* Entry of updateThreshold; it runs as long as the timer lives, and nothing
\* invalidates the timer when the screen is left.
updateThreshold ==
    /\ screen # "init"
    /\ mainPC = "idle"
    /\ nextFire <= now
    /\ nextFire' = Reschedule(nextFire)
    /\ mainPC' = "decide"
    /\ fluxPC' = [fluxPC EXCEPT !["main"] = "clock"]
    /\ UNCHANGED <<viewVars, scanVars, cacheVars, lossVars, reading,
                   timeElapsed, flux, now, mainQueue, intensityThreshholds,
                   numFrames, numEvents, cgimage, detections>>

\* Its "if": it reads the shared flux again, which captureOutput may have
\* overwritten since.
updateThresholdDecide ==
    /\ mainPC = "decide" /\ fluxPC["main"] = "idle"
    /\ mainPC' = "idle"
    /\ \/ /\ FluxTooHigh(flux)
          /\ incrementIntensityThreshold(detectionMode, ThresholdStep)
       \/ /\ ~FluxTooHigh(flux)
          /\ UNCHANGED intensityThreshholds
    /\ UNCHANGED <<viewVars, nextFire, scanVars, cacheVars, lossVars, fluxVars,
                   now, mainQueue, numFrames, numEvents, cgimage, detections>>

\* Broken variant: blocks of a view that is no longer shown do nothing.
recordWhileShown ==
    /\ screen = "appeared"
    /\ mainPC = "idle"
    /\ mainQueue # <<>>
    /\ detections' = Append(detections,
            [frame |-> Head(mainQueue).frame,
             bright |-> Head(mainQueue).bright,
             image |-> cgimage,
             score |-> Head(mainQueue).bright * intensityThreshhold])
    /\ mainQueue' = Tail(mainQueue)
    /\ UNCHANGED <<viewVars, mainVars, scanVars, cacheVars, lossVars, now,
                   intensityThreshholds, fluxVars, numFrames, numEvents, cgimage>>

\* The block captureOutput sent to the main queue: it reads the shared
\* cgimage and intensityThreshhold as they are now, not as they were then.
recordDetection ==
    /\ mainPC = "idle"
    /\ mainQueue # <<>>
    /\ LET block == Head(mainQueue) IN
         detections' = Append(detections,
            [frame |-> block.frame,
             bright |-> block.bright,
             image |-> cgimage,
             score |-> block.bright * intensityThreshhold])
    /\ mainQueue' = Tail(mainQueue)
    /\ UNCHANGED <<viewVars, mainVars, scanVars, cacheVars, lossVars, now,
                   intensityThreshholds, fluxVars, numFrames, numEvents, cgimage>>

-----------------------------------------------------------------------------
(* AVFoundation and imageQueue                                             *)

\* A running session hands over a buffer when the queue is free ...
deliverFrame(f) ==
    /\ isRunning /\ hasInput
    /\ queuePC = "idle"
    /\ numFrames < MaxFrames
    /\ frame' = f
    /\ queuePC' = "delivered"
    /\ UNCHANGED <<viewVars, mainVars, cacheVars, lossVars, now, mainQueue,
                   intensityThreshholds, fluxVars, x, y, numBrightPixels,
                   numFrames, numEvents, cgimage, detections>>

\* ... and discards it when not (alwaysDiscardsLateVideoFrames).  The
\* program has a counter for this, in a method nothing calls.
discardLateFrame ==
    /\ isRunning /\ hasInput
    /\ queuePC # "idle"
    /\ lateFrames < MaxLate
    /\ lateFrames' = lateFrames + 1
    /\ UNCHANGED <<viewVars, mainVars, scanVars, cacheVars, droppedFrames, now,
                   mainQueue, intensityThreshholds, fluxVars, numFrames,
                   numEvents, cgimage, detections>>

\* Broken variant: the geometry of the first frame is kept for ever.
StaleGeometry(f) == geometry.width = 0

\* "planeWidth != CVPixelBufferGetWidthOfPlane(pixelBuffer!,0)".
GeometryChanged(f) == geometry.width # f.width

\* Entry of captureOutput: count, lock, refresh the cached geometry and the
\* threshold copy if the width is new, start the scan.
captureOutput ==
    /\ queuePC = "delivered"
    /\ queuePC' = "scan"
    /\ numFrames' = numFrames + 1
    /\ \/ /\ GeometryChanged(frame)
          /\ geometry' = GeometryOf(frame)
          /\ intensityThreshhold' = getIntensityThreshold(detectionMode)
       \/ /\ ~GeometryChanged(frame)
          /\ UNCHANGED cacheVars
    /\ x' = 0 /\ y' = 0 /\ numBrightPixels' = 0
    /\ UNCHANGED <<viewVars, mainVars, frame, lossVars, now, mainQueue,
                   intensityThreshholds, fluxVars, numEvents, cgimage, detections>>

\* "buffer[index]" through an unchecked pointer: any byte, if the cached
\* layout leads out of the buffer at hand.
Loaded(buffer, index) ==
    IF index \in DOMAIN buffer THEN {buffer[index]} ELSE UInt8

\* One iteration of the nested loops; the threshold is read every time.
scanPixel ==
    /\ queuePC = "scan"
    /\ x < geometry.width
    /\ \E intensity \in Loaded(frame.buffer,
                               Index(x, y, geometry.bytesPerRow)) :
         numBrightPixels' =
            IF IsBright(intensity, getIntensityThreshold(detectionMode))
            THEN numBrightPixels + 1 ELSE numBrightPixels
    /\ LET p == NextPoint(x, y, geometry.height) IN x' = p[1] /\ y' = p[2]
    /\ UNCHANGED <<viewVars, mainVars, queuePC, frame, cacheVars, lossVars,
                   now, mainQueue, intensityThreshholds, fluxVars, numFrames,
                   numEvents, cgimage, detections>>

ScanFinished == queuePC = "scan" /\ x >= geometry.width

\* The scan found a ray: "numEvents += 1", and the flux is recomputed.
countEvent ==
    /\ ScanFinished
    /\ IsRay(numBrightPixels, geometry.width, geometry.height)
    /\ numEvents' = numEvents + 1
    /\ queuePC' = "flux"
    /\ fluxPC' = [fluxPC EXCEPT !["imageQueue"] = "clock"]
    /\ UNCHANGED <<viewVars, mainVars, frame, x, y, numBrightPixels, cacheVars,
                   lossVars, reading, timeElapsed, flux, now, mainQueue,
                   intensityThreshholds, numFrames, cgimage, detections>>

\* Broken variant of renderImage: the image of the last event is kept.
renderNothing ==
    /\ queuePC = "flux" /\ fluxPC["imageQueue"] = "idle"
    /\ queuePC' = "dispatch"
    /\ UNCHANGED <<viewVars, mainVars, frame, x, y, numBrightPixels, cacheVars,
                   lossVars, fluxVars, now, mainQueue, intensityThreshholds,
                   numFrames, numEvents, cgimage, detections>>

\* The frame is rendered into the shared ciimage and cgimage ...
renderImage ==
    /\ queuePC = "flux" /\ fluxPC["imageQueue"] = "idle"
    /\ cgimage' = numFrames
    /\ queuePC' = "dispatch"
    /\ UNCHANGED <<viewVars, mainVars, frame, x, y, numBrightPixels, cacheVars,
                   lossVars, fluxVars, now, mainQueue, intensityThreshholds,
                   numFrames, numEvents, detections>>

\* Broken variant of dispatchBlock: the flux limit that is commented out in
\* the source silently drops an event that was counted.
dispatchUnlessFluxHigh ==
    /\ queuePC = "dispatch"
    /\ mainQueue' = IF FluxTooHigh(flux) THEN mainQueue
                    ELSE Append(mainQueue, [frame |-> numFrames,
                                            bright |-> numBrightPixels])
    /\ queuePC' = "idle"
    /\ UNCHANGED <<viewVars, mainVars, frame, x, y, numBrightPixels, cacheVars,
                   lossVars, now, intensityThreshholds, fluxVars, numFrames,
                   numEvents, cgimage, detections>>

\* ... and the block that records it is sent to the main queue; the buffer
\* is unlocked and captureOutput returns.
dispatchBlock ==
    /\ queuePC = "dispatch"
    /\ mainQueue' = Append(mainQueue, [frame |-> numFrames,
                                       bright |-> numBrightPixels])
    /\ queuePC' = "idle"
    /\ UNCHANGED <<viewVars, mainVars, frame, x, y, numBrightPixels, cacheVars,
                   lossVars, now, intensityThreshholds, fluxVars, numFrames,
                   numEvents, cgimage, detections>>

\* No ray: unlock the buffer and return.
ignoreFrame ==
    /\ ScanFinished
    /\ ~IsRay(numBrightPixels, geometry.width, geometry.height)
    /\ queuePC' = "idle"
    /\ UNCHANGED <<viewVars, mainVars, frame, x, y, numBrightPixels, cacheVars,
                   lossVars, now, mainQueue, intensityThreshholds, fluxVars,
                   numFrames, numEvents, cgimage, detections>>

Tick ==
    /\ now < MaxTime
    /\ now' = now + 1
    /\ UNCHANGED <<viewVars, mainVars, scanVars, cacheVars, lossVars, mainQueue,
                   intensityThreshholds, fluxVars, numFrames, numEvents, cgimage,
                   detections>>

-----------------------------------------------------------------------------

MainThread == viewDidLoad \/ viewDidAppear \/ stopCollectingDidTap
                \/ updateThreshold \/ updateFlux("main")
                \/ updateThresholdDecide \/ recordDetection

ImageQueue == captureOutput \/ scanPixel \/ countEvent
                \/ updateFlux("imageQueue") \/ renderImage \/ dispatchBlock
                \/ ignoreFrame

Camera == (\E f \in Frames : deliverFrame(f)) \/ discardLateFrame

Next == MainThread \/ ImageQueue \/ Camera \/ Tick

Spec == Init /\ [][Next]_vars

\* A dispatch queue runs what it was given and the run loop serves the main
\* queue; neither the user, nor the camera, nor the clock is obliged to act.
Fairness ==
    /\ WF_vars(ImageQueue)
    /\ WF_vars(updateFlux("main") \/ updateThresholdDecide)
    /\ WF_vars(recordDetection)

FairSpec == Spec /\ Fairness
-----------------------------------------------------------------------------
(* Properties                                                              *)

Threshold == getIntensityThreshold(detectionMode)

\* captureOutput has counted an event it has not yet sent to the main queue.
HandlingEvent == queuePC \in {"flux", "dispatch"}

Block == [frame : Nat, bright : Nat \ {0}]
Record == [frame : Nat, bright : Nat \ {0}, image : Nat, score : Nat]

\* Type invariant of DetectionVC's properties and of the two queues: in
\* particular every block sent to the main queue has a bright pixel.
TypeOK ==
    /\ screen \in {"init", "loaded", "appeared", "left"}
    /\ isRunning \in BOOLEAN /\ hasInput \in BOOLEAN
    /\ now \in Nat /\ nextFire \in Nat
    /\ mainPC \in {"idle", "decide"}
    /\ mainQueue \in Seq(Block)
    /\ intensityThreshholds \in [DetectionModes -> Nat]
    /\ intensityThreshhold \in Nat
    /\ geometry \in [width : Nat, height : Nat, bytesPerRow : Nat]
    /\ fluxPC \in [Threads -> {"idle", "clock", "store", "events", "elapsed",
                               "divide"}]
    /\ reading \in [Threads -> [events : Nat, elapsed : Nat]]
    /\ timeElapsed \in Nat /\ flux \in [events : Nat, elapsed : Nat]
    /\ queuePC \in {"idle", "delivered", "scan", "flux", "dispatch"}
    /\ frame \in Frames \cup {NoFrame}
    /\ x \in Nat /\ y \in Nat /\ numBrightPixels \in Nat
    /\ numFrames \in Nat /\ numEvents \in Nat /\ cgimage \in Nat
    /\ detections \in Seq(Record)
    /\ droppedFrames \in Nat /\ lateFrames \in Nat /\ eventsAtStop \in Nat

\* The width is that of the cached layout, the buffer is smaller: the change
\* of format that captureOutput does not notice.
ShrunkUnnoticed ==
    /\ frame.width = geometry.width
    /\ frame.bytesPerRow * frame.height
         < geometry.bytesPerRow * geometry.height

\* captureOutput reads the buffer through an unchecked pointer with the
\* cached geometry.  Whatever formats the camera switches between, the index
\* lies in the buffer of the frame at hand, also right after a change, with
\* one exception: a buffer that shrank while the width stayed the same.
ReadsInBounds ==
    queuePC = "scan" /\ x < geometry.width /\ ~ShrunkUnnoticed =>
        Index(x, y, geometry.bytesPerRow)
            \in 0..(frame.bytesPerRow * frame.height - 1)

\* numEvents, which drives the flux, counts exactly the detections recorded
\* plus those on their way to the main thread: none is lost or doubled.
EventAccounting ==
    numEvents = Len(detections) + Len(mainQueue)
                  + (IF HandlingEvent THEN 1 ELSE 0)

\* An event pays for less than 10 in the threshold, ten seconds at the target
\* flux, if the timer divides by its own clock.  captureOutput can spoil that
\* twice per event, when its store of an old clock value into timeElapsed, or
\* of an old quotient into flux, falls into an updateThreshold under way:
\* each makes one set of events pay for one more step.  However the two
\* threads interleave and however late the timer fires, it is no more.
ThresholdPaidByEvents ==
    \/ Threshold = InitialThreshold
    \/ Threshold + ThresholdStep
         <= InitialThreshold + (10 + 2 * ThresholdStep) * numEvents

\* The score mixes a pixel count taken under the current threshold with the
\* copy of the threshold captureOutput took when the format was new: it lies
\* between the values the initial and the current threshold would give.
ScoreBracketed ==
    \A i \in 1..Len(detections) :
        LET d == detections[i] IN
        /\ InitialThreshold * d.bright <= d.score
        /\ d.score <= Threshold * d.bright

\* The frame of the j-th event counted so far.
EventFrame(j) ==
    IF j <= Len(detections) THEN detections[j].frame
    ELSE IF j <= Len(detections) + Len(mainQueue)
         THEN mainQueue[j - Len(detections)].frame ELSE numFrames

\* cgimage is shared: a block that runs late takes the image of a later
\* event, but never an earlier one and never a frame that was no event.
ImageOfOwnOrLaterEvent ==
    \A i \in 1..Len(detections) :
        \E j \in i..numEvents : detections[i].image = EventFrame(j)

\* imageQueue is serial and late frames are discarded: after Stop at most
\* the one frame already handed over can still become an event.
AtMostOneEventAfterStop ==
    screen = "left" => numEvents <= eventsAtStop + 1

\* The two loops with a threshold read per pixel count no pixel that was
\* dark under the initial threshold and miss none that is bright under the
\* current one, although the timer may raise it in the middle of a scan; the
\* layout is the frame's own.
ScanCountsBrightPixels ==
    ScanFinished /\ geometry = GeometryOf(frame) =>
        /\ Cardinality(BrightPoints(frame, Threshold)) <= numBrightPixels
        /\ numBrightPixels
             <= Cardinality(BrightPoints(frame, InitialThreshold))

\* The brightest sample the camera can deliver at a point that is scanned;
\* with layouts captureOutput can confuse, any byte may be read.
Samples == UNION {{f.buffer[p[1] + p[2] * f.bytesPerRow] :
                     p \in SampledPoints(f)} : f \in Frames}
Brightest == IF OneLayoutPerWidth
             THEN CHOOSE v \in Samples : \A w \in Samples : w <= v
             ELSE 255

\* The least threshold under which even that sample is not bright.
BlindingThreshold == (4 * Brightest + 2) \div 3

\* With k events counted, the threshold above every sample and no scan under
\* way, the k events are all there will be.
StaysBlind(k) ==
    []((Threshold >= BlindingThreshold /\ queuePC \in {"idle", "delivered"}
          /\ numEvents = k)
         => [](numEvents = k))

\* The threshold is never lowered: once it is above what the camera can
\* deliver and no scan is under way, no event is counted ever again.
BlindForever == \A k \in 0..MaxFrames : StaysBlind(k)

\* Every counted event is eventually recorded, also after Stop.
EveryEventRecorded ==
    \A k \in 1..MaxFrames : numEvents >= k ~> Len(detections) >= k
=============================================================================
