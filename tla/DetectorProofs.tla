---------------------------- MODULE DetectorProofs ----------------------------
(***************************************************************************)
(* Theorems about Detector, for every set of frames and every bound.  The  *)
(* inductive invariant is built in three layers, each proved with the      *)
(* help of the ones before: types, the timer's pace, the scan.             *)
(***************************************************************************)
EXTENDS Detector, FiniteSetTheorems, WellFoundedInduction, TLAPS

\* What TypeOK needs to be inductive: an event has at least one bright pixel.
EventHasBrightPixel == HandlingEvent => numBrightPixels >= 1

TypeInv == TypeOK /\ EventHasBrightPixel


-----------------------------------------------------------------------------
(* Operators                                                               *)

\* The repeating timer's next date is in the future, at most one period
\* away, and at least one period after the date it was due.
LEMMA RescheduleBounds ==
    ASSUME now \in Nat, NEW due \in Nat, due <= now
    PROVE  /\ Reschedule(due) \in Nat
           /\ Reschedule(due) > now
           /\ Reschedule(due) - TimerPeriod <= now
           /\ Reschedule(due) >= due + TimerPeriod
<1> DEFINE S == {due + TimerPeriod * j : j \in 1..(now + 1)}
<1>1. PICK k \in 1..(now + 1) :
        /\ due + TimerPeriod * k > now
        /\ due + TimerPeriod * k - TimerPeriod <= now
  <2>1. (now - due) \div 5 + 1 \in 1..(now + 1)
    OBVIOUS
  <2>2. /\ due + 5 * ((now - due) \div 5 + 1) > now
        /\ due + 5 * ((now - due) \div 5 + 1) - 5 <= now
    OBVIOUS
  <2> QED BY <2>1, <2>2 DEF TimerPeriod
<1>2. PICK e \in S : e = due + TimerPeriod * k
  OBVIOUS
<1>3. \E d \in S : d > now /\ d - TimerPeriod <= now
  <2>1. e \in S /\ e > now /\ e - TimerPeriod <= now
    BY <1>1, <1>2 DEF TimerPeriod
  <2> HIDE DEF S
  <2> QED BY <2>1
<1>4. Reschedule(due) \in S /\ Reschedule(due) > now
        /\ Reschedule(due) - TimerPeriod <= now
  BY <1>3 DEF Reschedule
<1>5. \A d \in S : d \in Nat /\ d >= due + TimerPeriod
  BY DEF TimerPeriod
<1> QED BY <1>4, <1>5

-----------------------------------------------------------------------------
(* Types                                                                   *)

\* The part of TypeOK that the recomputation of the flux touches.
FluxTypes ==
    /\ fluxPC \in [Threads -> {"idle", "clock", "store", "events", "elapsed",
                               "divide"}]
    /\ reading \in [Threads -> [events : Nat, elapsed : Nat]]
    /\ timeElapsed \in Nat /\ flux \in [events : Nat, elapsed : Nat]

UpdateFlux == \E t \in Threads : updateFlux(t)

\* Recomputing the flux leaves everything but its own variables alone.
LEMMA OnlyFluxChanges ==
    ASSUME TypeInv, UpdateFlux
    PROVE  /\ FluxTypes'
           /\ UNCHANGED <<screen, isRunning, hasInput, eventsAtStop, mainPC,
                          nextFire, queuePC, frame, x, y, numBrightPixels,
                          geometry, intensityThreshhold, droppedFrames,
                          lateFrames, now, mainQueue, intensityThreshholds,
                          numFrames, numEvents, cgimage, detections>>
<1>1. PICK t \in Threads : updateFlux(t)
  BY DEF UpdateFlux
<1>2. FluxTypes /\ now \in Nat /\ numEvents \in Nat
  BY DEF TypeInv, TypeOK, FluxTypes
<1>3. FluxTypes'
  <2> USE DEF FluxTypes
  <2>1. CASE readClock(t)
    BY <1>2, <2>1 DEF readClock
  <2>2. CASE storeElapsed(t)
    BY <1>2, <2>2 DEF storeElapsed
  <2>3. CASE loadEvents(t)
    BY <1>2, <2>3 DEF loadEvents
  <2>4. CASE loadElapsed(t)
    BY <1>2, <2>4 DEF loadElapsed
  <2>5. CASE storeFlux(t)
    BY <1>2, <2>5 DEF storeFlux, NoReading
  <2> QED BY <1>1, <2>1, <2>2, <2>3, <2>4, <2>5 DEF updateFlux
<1> QED BY <1>1, <1>3 DEF updateFlux, viewVars, mainVars, scanVars, cacheVars,
                          lossVars

LEMMA InitTypeInv == Init => TypeInv
<1> SUFFICES ASSUME Init PROVE TypeInv
  OBVIOUS
<1>1. intensityThreshholds \in [DetectionModes -> Nat]
  BY DEF Init, InitialThreshold
<1>2. geometry \in [width : Nat, height : Nat, bytesPerRow : Nat]
  BY DEF Init, GeometryOf, NoFrame
<1>3. mainQueue \in Seq(Block) /\ detections \in Seq(Record)
  BY DEF Init
<1>4. FluxTypes
  BY DEF Init, FluxTypes, Threads, NoReading, AbsoluteTime
<1> QED BY <1>1, <1>2, <1>3, <1>4
        DEF Init, FluxTypes, TypeInv, TypeOK, EventHasBrightPixel, HandlingEvent

LEMMA NextTypeInv == TypeInv /\ [Next]_vars => TypeInv'
<1> SUFFICES ASSUME TypeInv, [Next]_vars PROVE TypeInv'
  OBVIOUS
<1> USE DEF TypeInv, TypeOK, EventHasBrightPixel, HandlingEvent, viewVars,
            mainVars, scanVars, cacheVars, lossVars, fluxVars
<1>1. CASE viewDidLoad
  BY <1>1 DEF viewDidLoad, TimerPeriod
<1>2. CASE viewDidAppear
  BY <1>2 DEF viewDidAppear
<1>3. CASE stopCollectingDidTap
  BY <1>3 DEF stopCollectingDidTap
<1>4. CASE updateThreshold
  <2>1. nextFire' \in Nat
    BY <1>4, RescheduleBounds DEF updateThreshold
  <2> QED BY <1>4, <2>1 DEF updateThreshold
<1>5. CASE updateThresholdDecide
  <2>1. intensityThreshholds' \in [DetectionModes -> Nat]
    BY <1>5 DEF updateThresholdDecide, incrementIntensityThreshold,
                setIntensityThreshold, getIntensityThreshold, ThresholdStep,
                DetectionModes, detectionMode
  <2> QED BY <1>5, <2>1 DEF updateThresholdDecide
<1>6. CASE recordDetection
  <2>1. Head(mainQueue) \in Block /\ Tail(mainQueue) \in Seq(Block)
    BY <1>6 DEF recordDetection
  <2>2. Head(mainQueue).bright * intensityThreshhold \in Nat
    BY <2>1, SMTT(30) DEF Block
  <2>3. [frame |-> Head(mainQueue).frame, bright |-> Head(mainQueue).bright,
         image |-> cgimage,
         score |-> Head(mainQueue).bright * intensityThreshhold] \in Record
    BY <2>1, <2>2 DEF Block, Record
  <2>4. detections' \in Seq(Record)
    BY <1>6, <2>3 DEF recordDetection
  <2> QED BY <1>6, <2>1, <2>4 DEF recordDetection
<1>7. CASE captureOutput
  <2>1. GeometryOf(frame) \in [width : Nat, height : Nat, bytesPerRow : Nat]
    BY FramesAssumption DEF GeometryOf, NoFrame
  <2>2. intensityThreshhold' \in Nat
    BY <1>7 DEF captureOutput, getIntensityThreshold, DetectionModes,
                detectionMode
  <2> QED BY <1>7, <2>1, <2>2 DEF captureOutput
<1>8. CASE scanPixel
  <2>1. numBrightPixels' \in Nat
    BY <1>8 DEF scanPixel
  <2>2. x' \in Nat /\ y' \in Nat
    BY <1>8 DEF scanPixel, NextPoint, pixelsToSkip
  <2> QED BY <1>8, <2>1, <2>2 DEF scanPixel
<1>9. CASE countEvent
  <2>1. FluxTypes'
    BY <1>9 DEF countEvent, FluxTypes
  <2> QED BY <1>9, <2>1 DEF countEvent, ScanFinished, IsRay, minRaySize,
                            FluxTypes
<1>10. CASE UpdateFlux
  BY <1>10, OnlyFluxChanges DEF FluxTypes
<1>11. CASE renderImage
  BY <1>11 DEF renderImage
<1>12. CASE dispatchBlock
  <2>1. mainQueue' \in Seq(Block)
    BY <1>12 DEF dispatchBlock, Block
  <2> QED BY <1>12, <2>1 DEF dispatchBlock
<1>13. CASE ignoreFrame
  BY <1>13 DEF ignoreFrame
<1>14. ASSUME NEW f \in Frames, deliverFrame(f) PROVE TypeInv'
  BY <1>14 DEF deliverFrame
<1>15. CASE discardLateFrame
  BY <1>15 DEF discardLateFrame
<1>16. CASE Tick
  BY <1>16 DEF Tick
<1>17. CASE UNCHANGED vars
  BY <1>17 DEF vars
<1> QED
  BY <1>1, <1>2, <1>3, <1>4, <1>5, <1>6, <1>7, <1>8, <1>9, <1>10, <1>11,
     <1>12, <1>13, <1>14, <1>15, <1>16, <1>17
     DEF Next, MainThread, ImageQueue, Camera, UpdateFlux, Threads

\* The type invariant, for every Frames and every bound: the properties of
\* DetectionVC keep their types under any interleaving of its two threads.
THEOREM TypeCorrect == Spec => []TypeOK
<1>1. TypeInv => TypeOK
  BY DEF TypeInv
<1> QED BY <1>1, InitTypeInv, NextTypeInv, PTL DEF Spec

-----------------------------------------------------------------------------
(* Events                                                                  *)

LEMMA NextAccounting ==
    TypeInv /\ EventAccounting /\ [Next]_vars => EventAccounting'
<1> SUFFICES ASSUME TypeInv, EventAccounting, [Next]_vars
             PROVE  EventAccounting'
  OBVIOUS
<1> USE DEF TypeInv, TypeOK, EventAccounting, HandlingEvent, viewVars,
            mainVars, scanVars, cacheVars, lossVars, fluxVars
<1>1. CASE recordDetection
  <2>1. Len(Tail(mainQueue)) = Len(mainQueue) - 1
    BY <1>1 DEF recordDetection
  <2>2. Len(detections') = Len(detections) + 1
    BY <1>1 DEF recordDetection
  <2> QED BY <1>1, <2>1, <2>2 DEF recordDetection
<1>2. CASE dispatchBlock
  <2>1. Len(mainQueue') = Len(mainQueue) + 1
    BY <1>2 DEF dispatchBlock
  <2> QED BY <1>2, <2>1 DEF dispatchBlock
<1>3. CASE captureOutput \/ scanPixel \/ renderImage \/ ignoreFrame
  BY <1>3 DEF captureOutput, scanPixel, ScanFinished, renderImage, ignoreFrame
<1>7. CASE UpdateFlux
  BY <1>7, OnlyFluxChanges
<1>4. CASE viewDidLoad \/ viewDidAppear \/ stopCollectingDidTap
             \/ updateThreshold \/ updateThresholdDecide
  BY <1>4 DEF viewDidLoad, viewDidAppear, stopCollectingDidTap,
              updateThreshold, updateThresholdDecide
<1>5. CASE Camera \/ Tick \/ UNCHANGED vars
  BY <1>5 DEF Camera, deliverFrame, discardLateFrame, Tick, vars
<1>6. CASE countEvent
  BY <1>6 DEF countEvent, ScanFinished
<1> QED BY <1>1, <1>2, <1>3, <1>4, <1>5, <1>6, <1>7
        DEF Next, MainThread, ImageQueue, UpdateFlux, Threads

\* numEvents counts exactly the detections recorded or on their way to the
\* main thread, for any number of frames and any length of the main queue.
THEOREM NoEventLostOrDoubled == Spec => []EventAccounting
<1>1. Init => EventAccounting
  BY DEF Init, EventAccounting, HandlingEvent
<1> QED BY <1>1, InitTypeInv, NextTypeInv, NextAccounting, PTL DEF Spec

-----------------------------------------------------------------------------
(* The pace of the timer                                                   *)

ThresholdInSteps == Threshold % ThresholdStep = 0

\* Stores into timeElapsed and flux that captureOutput has done so far: two
\* per event, less those the event at hand still has to do.
StoresLeft ==
    IF queuePC # "flux" THEN 0
    ELSE IF fluxPC["imageQueue"] \in {"clock", "store"} THEN 2
    ELSE IF fluxPC["imageQueue"] = "idle" THEN 0 ELSE 1
Stores == 2 * numEvents - StoresLeft

\* What the events counted so far and the stores done so far pay for.
Credit == InitialThreshold + 10 * numEvents + ThresholdStep * Stores

Paid == Threshold = InitialThreshold \/ Threshold + ThresholdStep <= Credit
PaidAhead == Threshold + 2 * ThresholdStep <= Credit

\* A clock value read after the date updateThreshold is serving.
Fresh(elapsed) == nextFire - TimerPeriod <= elapsed

\* Where each thread is, and operands loaded from numEvents.
FluxInv ==
    /\ mainPC = "idle" => fluxPC["main"] = "idle"
    /\ queuePC # "flux" => fluxPC["imageQueue"] = "idle"
    /\ queuePC = "flux" => numEvents >= 1
    /\ flux.events <= numEvents
    /\ \A t \in Threads : reading[t].events <= numEvents

\* While updateThreshold is under way, the value its next step takes from
\* timeElapsed or flux is its own, or captureOutput has just stored there
\* and with that store paid for the step the timer may take.
DecideInv ==
    mainPC = "decide" =>
        /\ Threshold <= InitialThreshold + nextFire - 2 * TimerPeriod
        /\ Fresh(now)
        /\ fluxPC["main"] = "store" => Fresh(reading["main"].elapsed)
        /\ fluxPC["main"] \in {"events", "elapsed"}
             => Fresh(timeElapsed) \/ PaidAhead
        /\ fluxPC["main"] = "divide"
             => Fresh(reading["main"].elapsed) \/ PaidAhead
        /\ fluxPC["main"] = "idle" => Fresh(flux.elapsed) \/ PaidAhead

\* Threshold moves in steps, and by at most one step per period of the timer
\* (nextFire - TimerPeriod is the last date served).
TimerInv ==
    /\ ThresholdInSteps
    /\ screen = "init" => Threshold = InitialThreshold /\ mainPC = "idle"
    /\ screen # "init" /\ mainPC = "idle"
         => Threshold <= InitialThreshold + nextFire - TimerPeriod
    /\ FluxInv /\ Paid /\ DecideInv

LEMMA InitTimerInv == Init => TimerInv
<1> SUFFICES ASSUME Init PROVE TimerInv
  OBVIOUS
<1>1. Threshold = InitialThreshold
  BY DEF Init, Threshold, getIntensityThreshold, detectionMode, DetectionModes
<1>2. ThresholdInSteps
  BY <1>1 DEF ThresholdInSteps, InitialThreshold, ThresholdStep
<1>3. FluxInv
  BY DEF Init, FluxInv, Threads, NoReading
<1> QED BY <1>1, <1>2, <1>3 DEF Init, TimerInv, Paid, DecideInv

\* The types the arithmetic of the timer needs.
LEMMA TimerTypes ==
    ASSUME TypeInv
    PROVE  /\ now \in Nat /\ nextFire \in Nat /\ numEvents \in Nat
           /\ FluxTypes
           /\ mainPC \in {"idle", "decide"}
           /\ Threshold \in Nat
           /\ Stores \in Int /\ Credit \in Int
           /\ Credit <= InitialThreshold + 20 * numEvents
<1>1. /\ now \in Nat /\ nextFire \in Nat /\ numEvents \in Nat
      /\ FluxTypes /\ mainPC \in {"idle", "decide"} /\ Threshold \in Nat
  BY DEF Threshold, getIntensityThreshold, DetectionModes, detectionMode,
         TypeInv, TypeOK, FluxTypes
<1>2. StoresLeft \in 0..2
  BY DEF StoresLeft
<1> QED BY <1>1, <1>2 DEF Stores, Credit, InitialThreshold, ThresholdStep

\* Recomputing the flux, on the main thread and in captureOutput.
LEMMA NextFluxInv ==
    ASSUME TypeInv, TypeInv', TimerInv, NEW t \in Threads, updateFlux(t)
    PROVE  TimerInv'
<1> USE DEF TimerPeriod, ThresholdStep, InitialThreshold
<1>1. UpdateFlux
  BY DEF UpdateFlux
<1>2. /\ UNCHANGED <<screen, mainPC, nextFire, queuePC, now, numEvents,
                     intensityThreshholds>>
      /\ FluxTypes'
  BY <1>1, OnlyFluxChanges
<1>3. /\ Threshold' = Threshold /\ ThresholdInSteps'
  BY <1>2 DEF Threshold, getIntensityThreshold, ThresholdInSteps, TimerInv
<1>4. /\ now \in Nat /\ nextFire \in Nat /\ numEvents \in Nat
      /\ FluxTypes /\ mainPC \in {"idle", "decide"} /\ Threshold \in Nat
      /\ Stores \in Int /\ Credit \in Int
  BY TimerTypes
<1>5. /\ FluxInv /\ Paid /\ DecideInv
  BY DEF TimerInv
<1>6. FluxInv'
  <2>1. CASE readClock(t) \/ storeElapsed(t) \/ loadElapsed(t) \/ storeFlux(t)
    BY <1>2, <1>4, <1>5, <2>1 DEF FluxInv, FluxTypes, readClock, storeElapsed,
       loadElapsed, storeFlux, NoReading, Threads, updateFlux
  <2>2. CASE loadEvents(t)
    BY <1>2, <1>4, <1>5, <2>2 DEF FluxInv, FluxTypes, loadEvents, Threads
  <2> QED BY <2>1, <2>2 DEF updateFlux
<1>7. CASE t = "main"
  <2>1. fluxPC'["imageQueue"] = fluxPC["imageQueue"]
          /\ reading'["imageQueue"] = reading["imageQueue"]
    BY <1>4, <1>7 DEF updateFlux, readClock, storeElapsed, loadEvents,
       loadElapsed, storeFlux, FluxTypes, Threads
  <2>2. Credit' = Credit
    BY <1>2, <2>1 DEF Credit, Stores, StoresLeft
  <2>3. mainPC = "decide"
    BY <1>4, <1>5, <1>7 DEF FluxInv, updateFlux, readClock, storeElapsed,
       loadEvents, loadElapsed, storeFlux
  <2>4. DecideInv'
    <3>1. CASE readClock(t)
      BY <1>2, <1>3, <1>4, <1>5, <1>7, <2>2, <2>3, <3>1
         DEF readClock, DecideInv, Fresh, PaidAhead, FluxTypes, Threads
    <3>2. CASE storeElapsed(t)
      BY <1>2, <1>3, <1>4, <1>5, <1>7, <2>2, <2>3, <3>2
         DEF storeElapsed, DecideInv, Fresh, PaidAhead, FluxTypes, Threads
    <3>3. CASE loadEvents(t)
      BY <1>2, <1>3, <1>4, <1>5, <1>7, <2>2, <2>3, <3>3
         DEF loadEvents, DecideInv, Fresh, PaidAhead, FluxTypes, Threads
    <3>4. CASE loadElapsed(t)
      BY <1>2, <1>3, <1>4, <1>5, <1>7, <2>2, <2>3, <3>4
         DEF loadElapsed, DecideInv, Fresh, PaidAhead, FluxTypes, Threads
    <3>5. CASE storeFlux(t)
      BY <1>2, <1>3, <1>4, <1>5, <1>7, <2>2, <2>3, <3>5
         DEF storeFlux, DecideInv, Fresh, PaidAhead, FluxTypes, Threads
    <3> QED BY <3>1, <3>2, <3>3, <3>4, <3>5 DEF updateFlux
  <2> QED BY <1>2, <1>3, <1>5, <1>6, <2>2, <2>4 DEF TimerInv, Paid
<1>8. CASE t = "imageQueue"
  <2>1. fluxPC'["main"] = fluxPC["main"] /\ reading'["main"] = reading["main"]
    BY <1>4, <1>8 DEF updateFlux, readClock, storeElapsed, loadEvents,
       loadElapsed, storeFlux, FluxTypes, Threads
  <2>2. queuePC = "flux"
    BY <1>4, <1>5, <1>8 DEF FluxInv, updateFlux, readClock, storeElapsed,
       loadEvents, loadElapsed, storeFlux
  <2>3. CASE readClock(t) \/ loadEvents(t) \/ loadElapsed(t)
    <3>1. Credit' = Credit
      BY <1>2, <1>4, <1>8, <2>2, <2>3 DEF readClock, loadEvents, loadElapsed,
         Credit, Stores, StoresLeft, FluxTypes, Threads
    <3>2. timeElapsed' = timeElapsed /\ flux' = flux
      BY <2>3 DEF readClock, loadEvents, loadElapsed
    <3> QED BY <1>2, <1>3, <1>5, <1>6, <2>1, <3>1, <3>2
            DEF TimerInv, Paid, DecideInv, Fresh, PaidAhead
  <2>4. CASE storeElapsed(t) \/ storeFlux(t)
    <3>1. Stores' = Stores + 1
      BY <1>2, <1>4, <1>8, <2>2, <2>4 DEF storeElapsed, storeFlux, Stores,
         StoresLeft, FluxTypes, Threads
    <3>2. Credit' = Credit + 5
      BY <1>2, <1>4, <3>1 DEF Credit
    <3>3. PaidAhead'
      <4>1. CASE Threshold = 160
        <5>1. numEvents >= 1
          BY <1>5, <2>2 DEF FluxInv
        <5>2. Stores >= 0
          BY <1>4, <5>1 DEF Stores, StoresLeft
        <5>3. Credit' >= 160 + 10 + 5
          BY <1>2, <1>4, <3>1, <5>1, <5>2 DEF Credit
        <5> QED BY <1>3, <1>4, <3>2, <4>1, <5>3 DEF PaidAhead
      <4>2. CASE Threshold + 5 <= Credit
        BY <1>3, <1>4, <3>2, <4>2 DEF PaidAhead
      <4> QED BY <1>5, <4>1, <4>2 DEF Paid
    <3>4. Paid'
      BY <1>3, <1>4, <1>5, <3>2 DEF Paid
    <3> QED BY <1>2, <1>3, <1>5, <1>6, <2>1, <3>3, <3>4, <2>4
            DEF TimerInv, DecideInv, Fresh, storeElapsed, storeFlux
  <2> QED BY <2>3, <2>4 DEF updateFlux
<1> QED BY <1>7, <1>8 DEF Threads

\* Steps that change none of the timer's variables but move on the queue.
LEMMA TimerUnchanged ==
    ASSUME TypeInv, TypeInv', TimerInv,
           UNCHANGED <<screen, mainPC, nextFire, intensityThreshholds, fluxVars>>,
           now <= now',
           \/ queuePC' = queuePC /\ numEvents' = numEvents
           \/ queuePC # "flux" /\ queuePC' # "flux" /\ numEvents' = numEvents
           \/ fluxPC["imageQueue"] = "idle" /\ numEvents' = numEvents
                /\ queuePC' # "flux"
    PROVE  TimerInv'
<1> USE DEF TimerPeriod, ThresholdStep, InitialThreshold, fluxVars
<1>1. Threshold' = Threshold /\ ThresholdInSteps'
  BY DEF Threshold, getIntensityThreshold, ThresholdInSteps, TimerInv
<1>2. /\ now \in Nat /\ now' \in Nat /\ nextFire \in Nat /\ numEvents \in Nat
      /\ FluxTypes /\ Threshold \in Nat /\ Credit \in Int
  BY TimerTypes DEF TypeInv, TypeOK
<1>3. FluxInv /\ Paid /\ DecideInv
  BY DEF TimerInv
<1>4. StoresLeft' = StoresLeft
  BY <1>3 DEF StoresLeft, FluxInv
<1>5. Credit' = Credit
  BY <1>4 DEF Credit, Stores
<1>6. FluxInv'
  BY <1>3 DEF FluxInv
<1>7. DecideInv'
  BY <1>1, <1>2, <1>3, <1>5 DEF DecideInv, Fresh, PaidAhead
<1> QED BY <1>1, <1>2, <1>3, <1>5, <1>6, <1>7 DEF TimerInv, Paid

LEMMA NextTimerInv == TypeInv /\ TimerInv /\ [Next]_vars => TimerInv'
<1> SUFFICES ASSUME TypeInv, TimerInv, [Next]_vars PROVE TimerInv'
  OBVIOUS
<1> USE DEF viewVars, mainVars, scanVars, cacheVars, lossVars, TimerPeriod,
            ThresholdStep, InitialThreshold
<1>0. TypeInv'
  BY NextTypeInv
<1>1. /\ now \in Nat /\ nextFire \in Nat /\ nextFire' \in Nat
      /\ numEvents \in Nat /\ FluxTypes /\ Threshold \in Nat
      /\ mainPC \in {"idle", "decide"}
      /\ Credit \in Int
  BY <1>0, TimerTypes DEF TypeInv, TypeOK
<1>2. UNCHANGED intensityThreshholds => /\ Threshold' = Threshold
                                        /\ ThresholdInSteps'
  BY DEF Threshold, getIntensityThreshold, ThresholdInSteps, TimerInv
<1>3. FluxInv /\ Paid /\ DecideInv
  BY DEF TimerInv
<1>4. CASE updateThreshold
  <2>1. nextFire' - 5 <= now /\ nextFire' >= nextFire + 5
    BY <1>1, <1>4, RescheduleBounds DEF updateThreshold
  <2>2. Threshold' = Threshold /\ ThresholdInSteps' /\ mainPC' = "decide"
          /\ screen' # "init"
    BY <1>2, <1>4 DEF updateThreshold
  <2>3. Threshold <= 160 + nextFire - 5
    BY <1>4 DEF updateThreshold, TimerInv
  <2>4. fluxPC' = [fluxPC EXCEPT !["main"] = "clock"]
          /\ UNCHANGED <<now, numEvents, queuePC, reading, flux, timeElapsed>>
    BY <1>4 DEF updateThreshold
  <2>5. fluxPC'["main"] = "clock"
          /\ fluxPC'["imageQueue"] = fluxPC["imageQueue"]
    BY <1>1, <2>4 DEF FluxTypes, Threads
  <2>6. Credit' = Credit
    BY <2>4, <2>5 DEF Credit, Stores, StoresLeft
  <2>7. Threshold' <= 160 + nextFire' - 10
    <3>1. \A t, a, b \in Nat : t <= 160 + a - 5 /\ b >= a + 5
                                 => t <= 160 + b - 10
      OBVIOUS
    <3> QED BY <1>1, <2>1, <2>2, <2>3, <3>1
  <2>8. FluxInv'
    BY <1>3, <2>2, <2>4, <2>5 DEF FluxInv
  <2>9. DecideInv'
    <3>1. Fresh(now)'
      BY <2>1, <2>4 DEF Fresh
    <3> QED BY <2>5, <2>7, <3>1 DEF DecideInv
  <2> QED BY <1>3, <2>2, <2>6, <2>8, <2>9 DEF TimerInv, Paid
<1>5. CASE updateThresholdDecide
  <2>1. /\ Threshold <= 160 + nextFire - 10
        /\ nextFire - 5 <= flux.elapsed \/ Threshold + 10 <= Credit
    BY <1>3, <1>5 DEF updateThresholdDecide, DecideInv, Fresh, PaidAhead
  <2>2. /\ UNCHANGED <<screen, nextFire, queuePC, fluxPC, reading, flux,
                       numEvents>>
        /\ mainPC' = "idle" /\ fluxPC["main"] = "idle"
    BY <1>5 DEF updateThresholdDecide, fluxVars
  <2>3. screen # "init"
    BY <1>5 DEF updateThresholdDecide, TimerInv
  <2>4. Credit' = Credit /\ FluxInv'
    BY <1>3, <2>2 DEF Credit, Stores, StoresLeft, FluxInv
  <2>5. CASE FluxTooHigh(flux)
    <3>1. Threshold' = Threshold + 5
      BY <1>5, <2>5 DEF updateThresholdDecide, Threshold, detectionMode,
            incrementIntensityThreshold, setIntensityThreshold, FluxTooHigh,
            getIntensityThreshold, DetectionModes, TypeInv, TypeOK
    <3>2. ThresholdInSteps'
      BY <1>1, <3>1 DEF ThresholdInSteps, TimerInv
    <3>3. Threshold' + 5 <= Credit
      <4>1. CASE Threshold + 10 <= Credit
        BY <1>1, <3>1, <4>1
      <4>2. CASE nextFire - 5 <= flux.elapsed
        <5>1. Threshold' < 160 + 10 * numEvents
          BY <1>1, <1>3, <2>1, <2>5, <3>1, <4>2
             DEF FluxTooHigh, FluxInv, FluxTypes
        <5>2. Threshold' + 5 <= 160 + 10 * numEvents
          BY <1>1, <3>1, <3>2, <5>1 DEF ThresholdInSteps
        <5>3. Stores >= 0
          BY <1>1, <1>3 DEF Stores, StoresLeft, FluxInv
        <5>4. Stores \in Int
          BY TimerTypes
        <5> QED BY <1>1, <3>1, <5>2, <5>3, <5>4 DEF Credit
      <4> QED BY <2>1, <4>1, <4>2
    <3>4. Threshold' <= 160 + nextFire - 5
      BY <1>1, <2>1, <3>1
    <3> QED BY <2>2, <2>3, <2>4, <3>2, <3>3, <3>4 DEF TimerInv, Paid, DecideInv
  <2>6. CASE ~FluxTooHigh(flux)
    <3>1. Threshold' = Threshold /\ ThresholdInSteps'
      BY <1>2, <1>5, <2>6 DEF updateThresholdDecide
    <3>2. Threshold' <= 160 + nextFire - 5
      BY <1>1, <2>1, <3>1
    <3> QED BY <1>3, <2>2, <2>3, <2>4, <3>1, <3>2 DEF TimerInv, Paid, DecideInv
  <2> QED BY <2>5, <2>6
<1>6. CASE viewDidLoad
  <2>1. UNCHANGED <<mainPC, fluxPC, reading, timeElapsed, flux, queuePC,
                    numEvents>>
    BY <1>6 DEF viewDidLoad, fluxVars
  <2>2. Credit' = Credit /\ FluxInv'
    BY <1>3, <2>1 DEF Credit, Stores, StoresLeft, FluxInv
  <2>3. Threshold' = Threshold /\ ThresholdInSteps' /\ Threshold = 160
          /\ mainPC = "idle" /\ nextFire' = now + 5 /\ screen' # "init"
    BY <1>2, <1>6 DEF viewDidLoad, TimerInv
  <2> QED BY <1>1, <2>1, <2>2, <2>3 DEF TimerInv, Paid, DecideInv
<1>7. CASE viewDidAppear \/ stopCollectingDidTap
  <2>1. /\ UNCHANGED <<mainPC, nextFire, intensityThreshholds, fluxVars, queuePC,
                       numEvents, now>>
        /\ screen # "init" /\ screen' # "init"
    BY <1>7 DEF viewDidAppear, stopCollectingDidTap
  <2>2. /\ Credit' = Credit /\ FluxInv' /\ Threshold' = Threshold
        /\ ThresholdInSteps'
    BY <1>2, <1>3, <2>1 DEF Credit, Stores, StoresLeft, FluxInv, fluxVars
  <2>3. DecideInv' /\ Paid'
    BY <1>3, <2>1, <2>2 DEF DecideInv, Fresh, PaidAhead, Paid, fluxVars
  <2> QED BY <2>1, <2>2, <2>3 DEF TimerInv
<1>8. CASE recordDetection \/ captureOutput \/ scanPixel \/ renderImage
             \/ dispatchBlock \/ ignoreFrame \/ Camera \/ Tick \/ UNCHANGED vars
  <2>1. /\ UNCHANGED <<screen, mainPC, nextFire, intensityThreshholds, fluxVars>>
        /\ now <= now'
        /\ numEvents' = numEvents
    BY <1>1, <1>8 DEF recordDetection, captureOutput, scanPixel, renderImage,
       dispatchBlock, ignoreFrame, Camera, deliverFrame, discardLateFrame,
       Tick, vars
  <2>2. \/ queuePC' = queuePC
        \/ queuePC # "flux" /\ queuePC' # "flux"
        \/ fluxPC["imageQueue"] = "idle" /\ queuePC' # "flux"
    BY <1>8 DEF recordDetection, captureOutput, scanPixel, renderImage,
       dispatchBlock, ignoreFrame, ScanFinished, Camera, deliverFrame,
       discardLateFrame, Tick, vars
  <2> QED BY <1>0, <2>1, <2>2, TimerUnchanged
<1>9. CASE countEvent
  <2>1. /\ UNCHANGED <<screen, mainPC, nextFire, intensityThreshholds, now, reading,
                       timeElapsed, flux>>
        /\ queuePC = "scan" /\ queuePC' = "flux" /\ numEvents' = numEvents + 1
        /\ fluxPC' = [fluxPC EXCEPT !["imageQueue"] = "clock"]
    BY <1>9 DEF countEvent, ScanFinished
  <2>2. fluxPC'["imageQueue"] = "clock" /\ fluxPC'["main"] = fluxPC["main"]
    BY <1>1, <2>1 DEF FluxTypes, Threads
  <2>3. Threshold' = Threshold /\ ThresholdInSteps'
    BY <1>2, <2>1
  <2>4. Stores' = Stores /\ Stores \in Int
    BY <1>1, <2>1, <2>2, TimerTypes DEF Stores, StoresLeft
  <2>5. Credit' = Credit + 10
    BY <1>1, <2>1, <2>4 DEF Credit
  <2>6. FluxInv'
    BY <1>1, <1>3, <2>1, <2>2 DEF FluxInv, FluxTypes
  <2>7. DecideInv' /\ Paid'
    BY <1>1, <1>3, <2>1, <2>2, <2>3, <2>5 DEF DecideInv, Fresh, PaidAhead, Paid
  <2> QED BY <2>1, <2>3, <2>6, <2>7 DEF TimerInv
<1>10. CASE UpdateFlux
  BY <1>0, <1>10, NextFluxInv DEF UpdateFlux
<1> QED
  BY <1>4, <1>5, <1>6, <1>7, <1>8, <1>9, <1>10
     DEF Next, MainThread, ImageQueue, UpdateFlux, Threads

\* The timer raises the threshold by less than 10 per counted event, and by
\* one step more for each store of captureOutput into the two variables it
\* shares, for any length of a run, any delay of the timer and any
\* interleaving of the two threads between clock, timeElapsed and flux.
THEOREM ThresholdNeverOverpaid == Spec => []ThresholdPaidByEvents
<1>1. TypeInv /\ TimerInv => ThresholdPaidByEvents
  <2> SUFFICES ASSUME TypeInv, TimerInv PROVE ThresholdPaidByEvents
    OBVIOUS
  <2>1. /\ Threshold \in Nat /\ Credit \in Int /\ numEvents \in Nat
        /\ Credit <= InitialThreshold + 20 * numEvents
    BY TimerTypes
  <2> QED BY <2>1 DEF TimerInv, Paid, ThresholdPaidByEvents, ThresholdStep,
                      InitialThreshold
<1> QED BY <1>1, InitTypeInv, NextTypeInv, InitTimerInv, NextTimerInv, PTL
        DEF Spec

-----------------------------------------------------------------------------
(* The scan                                                                *)

\* A point of the luma plane lies in its buffer.
LEMMA IndexInBuffer ==
    ASSUME NEW w \in Nat, NEW h \in Nat, NEW b \in Nat, w <= b,
           NEW i \in Nat, NEW j \in Nat, i < w, j < h
    PROVE  Index(i, j, b) \in 0..(b * h - 1)
<1>1. j * b \in Nat /\ b * h \in Nat
  OBVIOUS
<1>2. (j + 1) * b <= h * b
  OBVIOUS
<1>3. (j + 1) * b = j * b + b /\ h * b = b * h
  OBVIOUS
<1> QED BY <1>1, <1>2, <1>3 DEF Index

\* The geometry cached when the width was new is that of some frame of that
\* width; with one layout per width, of the frame at hand.
ScanInv ==
    /\ queuePC # "idle" => frame \in Frames
    /\ geometry.width # 0 => \E f \in Frames : geometry = GeometryOf(f)
    /\ queuePC = "scan"
         => /\ geometry.width = frame.width /\ y < geometry.height
            /\ OneLayoutPerWidth => geometry = GeometryOf(frame)
    /\ queuePC \in {"scan", "flux", "dispatch"} \/ mainQueue # <<>>
         => geometry.width # 0

LEMMA NextScanInv == TypeInv /\ ScanInv /\ [Next]_vars => ScanInv'
<1> SUFFICES ASSUME TypeInv, ScanInv, [Next]_vars PROVE ScanInv'
  OBVIOUS
<1> USE DEF viewVars, mainVars, scanVars, cacheVars, lossVars, fluxVars
<1>1. /\ geometry \in [width : Nat, height : Nat, bytesPerRow : Nat]
      /\ x \in Nat /\ y \in Nat
      /\ mainQueue \in Seq(Block)
  BY DEF TypeInv, TypeOK
<1>2. CASE captureOutput
  <2>1. frame \in Frames
    BY <1>2 DEF captureOutput, ScanInv
  <2>2. frame.width \in Nat \ {0} /\ frame.height \in Nat \ {0}
    BY <2>1, FramesAssumption
  <2>3. PICK f \in Frames : /\ geometry' = GeometryOf(f)
                            /\ f.width = frame.width
                            /\ OneLayoutPerWidth => geometry' = GeometryOf(frame)
    <3>1. CASE GeometryChanged(frame)
      BY <1>2, <2>1, <3>1 DEF captureOutput
    <3>2. CASE ~GeometryChanged(frame)
      <4>1. geometry' = geometry /\ geometry.width = frame.width
        BY <1>2, <3>2 DEF captureOutput, GeometryChanged
      <4>2. PICK f \in Frames : geometry = GeometryOf(f)
        BY <2>2, <4>1 DEF ScanInv
      <4>3. f.width = frame.width
        BY <4>1, <4>2 DEF GeometryOf
      <4>4. OneLayoutPerWidth => /\ f.height = frame.height
                                 /\ f.bytesPerRow = frame.bytesPerRow
        BY <2>1, <4>3 DEF OneLayoutPerWidth
      <4> QED BY <4>1, <4>2, <4>3, <4>4 DEF GeometryOf
    <3> QED BY <3>1, <3>2
  <2>4. geometry'.width # 0 /\ 0 < geometry'.height
          /\ geometry'.width = frame.width
    <3>1. f.width \in Nat \ {0} /\ f.height \in Nat \ {0}
      BY FramesAssumption
    <3> QED BY <2>3, <3>1 DEF GeometryOf
  <2>5. frame' = frame /\ y' = 0 /\ queuePC' = "scan"
    BY <1>2 DEF captureOutput
  <2> QED BY <2>1, <2>3, <2>4, <2>5 DEF ScanInv, OneLayoutPerWidth
<1>3. CASE scanPixel
  <2>1. geometry' = geometry /\ frame' = frame /\ queuePC' = queuePC
          /\ mainQueue' = mainQueue /\ queuePC = "scan"
    BY <1>3 DEF scanPixel
  <2>2. 0 < geometry.height
    <3>1. PICK f \in Frames : geometry = GeometryOf(f)
      BY <2>1 DEF ScanInv
    <3> QED BY <3>1, FramesAssumption DEF GeometryOf
  <2>3. y' < geometry.height
    BY <1>1, <1>3, <2>2 DEF scanPixel, NextPoint, pixelsToSkip
  <2> QED BY <2>1, <2>3 DEF ScanInv
<1>4. CASE countEvent \/ renderImage \/ dispatchBlock \/ ignoreFrame
  BY <1>4 DEF countEvent, ScanFinished, renderImage, dispatchBlock,
              ignoreFrame, ScanInv
<1>9. CASE UpdateFlux
  BY <1>9, OnlyFluxChanges DEF ScanInv
<1>5. CASE recordDetection
  BY <1>5 DEF recordDetection, ScanInv
<1>6. CASE viewDidLoad \/ viewDidAppear \/ stopCollectingDidTap
             \/ updateThreshold \/ updateThresholdDecide
  BY <1>6 DEF viewDidLoad, viewDidAppear, stopCollectingDidTap,
              updateThreshold, updateThresholdDecide, ScanInv
<1>7. CASE Camera
  BY <1>7 DEF Camera, deliverFrame, discardLateFrame, ScanInv
<1>8. CASE Tick \/ UNCHANGED vars
  BY <1>8 DEF Tick, vars, ScanInv
<1> QED
  BY <1>2, <1>3, <1>4, <1>5, <1>6, <1>7, <1>8, <1>9
     DEF Next, MainThread, ImageQueue, UpdateFlux, Threads

LEMMA InitScanInv == Init => ScanInv
  BY DEF Init, ScanInv, GeometryOf, NoFrame

\* No read of the unchecked buffer pointer in captureOutput leaves the
\* buffer, for frames of any layout and in any order, unless a smaller buffer
\* of the same width came after the one whose layout is cached.
THEOREM NoReadOutOfBounds == Spec => []ReadsInBounds
<1>1. TypeInv /\ ScanInv => ReadsInBounds
  <2> SUFFICES ASSUME TypeInv, ScanInv, queuePC = "scan", x < geometry.width,
                      ~ShrunkUnnoticed
               PROVE  Index(x, y, geometry.bytesPerRow)
                        \in 0..(frame.bytesPerRow * frame.height - 1)
    BY DEF ReadsInBounds
  <2>1. /\ frame \in Frames /\ y < geometry.height
        /\ geometry.width = frame.width /\ geometry.width # 0
    BY DEF ScanInv
  <2>2. PICK f \in Frames : geometry = GeometryOf(f)
    BY <2>1 DEF ScanInv
  <2>3. /\ f.width \in Nat /\ f.height \in Nat
        /\ f.bytesPerRow \in Nat /\ f.width <= f.bytesPerRow
        /\ frame.height \in Nat /\ frame.bytesPerRow \in Nat
    BY <2>1, <2>2, FramesAssumption
  <2>4. /\ geometry.width = f.width /\ geometry.height = f.height
        /\ geometry.bytesPerRow = f.bytesPerRow
    BY <2>2 DEF GeometryOf
  <2>5. x \in Nat /\ y \in Nat
    BY DEF TypeInv, TypeOK
  <2>6. Index(x, y, f.bytesPerRow) \in 0..(f.bytesPerRow * f.height - 1)
    BY <2>1, <2>3, <2>4, <2>5, IndexInBuffer
  <2>7. ~(frame.bytesPerRow * frame.height < f.bytesPerRow * f.height)
    BY <2>1, <2>4 DEF ShrunkUnnoticed
  <2>8. /\ frame.bytesPerRow * frame.height \in Nat
        /\ f.bytesPerRow * f.height \in Nat
    BY <2>3
  <2> QED BY <2>4, <2>6, <2>7, <2>8
<1> QED BY <1>1, InitTypeInv, NextTypeInv, InitScanInv, NextScanInv, PTL
        DEF Spec

-----------------------------------------------------------------------------
(* The score and the Stop button                                           *)

\* The copy of the threshold was taken between the start and now, and the
\* threshold only grows.
CopyInv ==
    /\ InitialThreshold <= Threshold
    /\ geometry.width # 0 => /\ InitialThreshold <= intensityThreshhold
                             /\ intensityThreshhold <= Threshold
    /\ ScoreBracketed

LEMMA InitCopyInv == Init => CopyInv
<1> SUFFICES ASSUME Init PROVE CopyInv
  OBVIOUS
<1>1. Threshold = InitialThreshold
  BY DEF Init, Threshold, getIntensityThreshold, detectionMode, DetectionModes
<1>2. detections = <<>> /\ geometry.width = 0
  BY DEF Init, GeometryOf, NoFrame
<1> QED BY <1>1, <1>2 DEF CopyInv, ScoreBracketed, InitialThreshold

LEMMA ThresholdNeverLowered ==
    TypeInv /\ [Next]_vars
      => /\ Threshold \in Nat /\ Threshold' \in Nat /\ Threshold <= Threshold'
         /\ updateThresholdDecide \/ Threshold' = Threshold
<1> SUFFICES ASSUME TypeInv, [Next]_vars
             PROVE  /\ Threshold \in Nat /\ Threshold' \in Nat
                    /\ Threshold <= Threshold'
                    /\ updateThresholdDecide \/ Threshold' = Threshold
  OBVIOUS
<1>1. Threshold \in Nat
  BY DEF Threshold, getIntensityThreshold, DetectionModes, detectionMode,
         TypeInv, TypeOK
<1>2. UNCHANGED intensityThreshholds => Threshold' = Threshold
  BY DEF Threshold, getIntensityThreshold
<1>3. CASE updateThresholdDecide
  <2>1. Threshold' = Threshold \/ Threshold' = Threshold + 5
    BY <1>2, <1>3
       DEF updateThresholdDecide, Threshold, detectionMode, ThresholdStep,
           incrementIntensityThreshold, setIntensityThreshold,
           getIntensityThreshold, DetectionModes, TypeInv, TypeOK
  <2> QED BY <1>1, <1>3, <2>1
<1>4. CASE ~updateThresholdDecide
  <2>1. UNCHANGED intensityThreshholds
    BY <1>4, OnlyFluxChanges DEF Next, MainThread, ImageQueue, Camera, Tick, vars, viewDidLoad,
       viewDidAppear, stopCollectingDidTap, updateThreshold, recordDetection,
       captureOutput, scanPixel, countEvent, renderImage, dispatchBlock,
       ignoreFrame, deliverFrame, discardLateFrame, UpdateFlux, Threads
  <2> QED BY <1>1, <1>2, <2>1
<1> QED BY <1>3, <1>4

LEMMA NextCopyInv ==
    TypeInv /\ ScanInv /\ CopyInv /\ [Next]_vars => CopyInv'
<1> SUFFICES ASSUME TypeInv, ScanInv, CopyInv, [Next]_vars PROVE CopyInv'
  OBVIOUS
<1> USE DEF viewVars, mainVars, scanVars, cacheVars, lossVars, fluxVars, InitialThreshold
<1>1. /\ intensityThreshhold \in Nat
      /\ mainQueue \in Seq(Block) /\ detections \in Seq(Record)
  BY DEF TypeInv, TypeOK
<1>2. Threshold \in Nat /\ Threshold' \in Nat /\ Threshold <= Threshold'
  BY ThresholdNeverLowered
<1>3. \A a, b, c \in Nat : a <= b => a * c <= b * c
  OBVIOUS
<1>4. \A d \in Record : d.score <= Threshold * d.bright
                          => d.score <= Threshold' * d.bright
  <2> SUFFICES ASSUME NEW d \in Record, d.score <= Threshold * d.bright
               PROVE  d.score <= Threshold' * d.bright
    OBVIOUS
  <2>1. d.score \in Nat /\ d.bright \in Nat
    BY DEF Record
  <2>2. Threshold * d.bright <= Threshold' * d.bright
    BY <1>2, <1>3, <2>1
  <2>3. Threshold * d.bright \in Nat /\ Threshold' * d.bright \in Nat
    BY <1>2, <2>1
  <2> QED BY <2>1, <2>2, <2>3
<1>5. 160 <= Threshold'
  BY <1>2 DEF CopyInv
<1>6. CASE captureOutput
  <2>1. Threshold' = Threshold /\ detections' = detections
    BY <1>6, ThresholdNeverLowered DEF captureOutput, updateThresholdDecide
  <2>2. /\ 160 <= Threshold
        /\ geometry.width # 0 => /\ 160 <= intensityThreshhold
                                 /\ intensityThreshhold <= Threshold
    BY DEF CopyInv
  <2>3. geometry'.width # 0 => /\ 160 <= intensityThreshhold'
                               /\ intensityThreshhold' <= Threshold
    BY <1>6, <1>2, <2>2 DEF captureOutput, Threshold
  <2> QED BY <1>5, <2>1, <2>3 DEF CopyInv, ScoreBracketed
<1>7. CASE recordDetection
  <2>1. Threshold' = Threshold /\ UNCHANGED cacheVars
    BY <1>7, ThresholdNeverLowered DEF recordDetection, updateThresholdDecide
  <2>2. /\ 160 <= intensityThreshhold
        /\ intensityThreshhold <= Threshold
    BY <1>7 DEF recordDetection, ScanInv, CopyInv
  <2> DEFINE block == Head(mainQueue)
             new == [frame |-> block.frame, bright |-> block.bright,
                     image |-> cgimage,
                     score |-> block.bright * intensityThreshhold]
  <2>3. block.bright \in Nat
    <3>1. mainQueue \in Seq(Block) /\ mainQueue # <<>>
      BY <1>1, <1>7 DEF recordDetection
    <3>2. block \in Block
      BY <3>1
    <3> QED BY <3>2 DEF Block
  <2>4. /\ 160 * block.bright <= intensityThreshhold * block.bright
        /\ intensityThreshhold * block.bright <= Threshold * block.bright
    BY <1>1, <1>2, <1>3, <2>2, <2>3, SMTT(30)
  <2>5. /\ new.bright = block.bright
        /\ new.score = intensityThreshhold * block.bright
    BY <1>1, <2>3
  <2>6. detections' = Append(detections, new)
    BY <1>7 DEF recordDetection
  <2>7. ASSUME NEW i \in 1..Len(detections')
        PROVE  /\ 160 * detections'[i].bright <= detections'[i].score
               /\ detections'[i].score <= Threshold' * detections'[i].bright
    <3>1. CASE i = Len(detections) + 1
      <4>1. detections'[i] = new
        BY <1>1, <2>6, <3>1
      <4> HIDE DEF new
      <4> QED BY <2>1, <2>4, <2>5, <4>1
    <3>2. CASE i # Len(detections) + 1
      <4>1. i \in 1..Len(detections) /\ detections'[i] = detections[i]
        BY <1>1, <2>6, <3>2
      <4> QED BY <2>1, <4>1 DEF CopyInv, ScoreBracketed
    <3> QED BY <3>1, <3>2
  <2> QED BY <1>5, <2>1, <2>2, <2>7 DEF CopyInv, ScoreBracketed
<1>8. CASE UNCHANGED <<cacheVars, detections>>
  <2>1. ASSUME NEW i \in 1..Len(detections)
        PROVE  detections[i].score <= Threshold' * detections[i].bright
    BY <1>1, <1>4 DEF CopyInv, ScoreBracketed
  <2>2. geometry.width # 0 => intensityThreshhold <= Threshold'
    BY <1>1, <1>2 DEF CopyInv
  <2> QED BY <1>5, <1>8, <2>1, <2>2 DEF CopyInv, ScoreBracketed
<1>9. CASE UpdateFlux
  BY <1>8, <1>9, OnlyFluxChanges
<1> QED
  BY <1>6, <1>7, <1>8, <1>9 DEF Next, MainThread, ImageQueue, Camera, Tick, vars,
     viewDidLoad, viewDidAppear, stopCollectingDidTap, updateThreshold,
     updateThresholdDecide, scanPixel, countEvent, renderImage,
     dispatchBlock, ignoreFrame, deliverFrame, discardLateFrame, UpdateFlux,
     Threads

\* The score of every recorded detection lies between what the initial and
\* what the current threshold would give, although the main thread reads the
\* copy of the threshold long after imageQueue wrote it.
THEOREM ScoresBracketed == Spec => []ScoreBracketed
<1>1. CopyInv => ScoreBracketed
  BY DEF CopyInv
<1> QED BY <1>1, InitTypeInv, NextTypeInv, InitScanInv, NextScanInv,
           InitCopyInv, NextCopyInv, PTL DEF Spec

\* After Stop no frame is delivered; the one under way can still be counted.
StopInv ==
    screen = "left" =>
        /\ isRunning = FALSE
        /\ numEvents <= eventsAtStop + 1
        /\ queuePC \in {"delivered", "scan"} => numEvents <= eventsAtStop

LEMMA NextStopInv == TypeInv /\ StopInv /\ [Next]_vars => StopInv'
<1> SUFFICES ASSUME TypeInv, StopInv, [Next]_vars PROVE StopInv'
  OBVIOUS
<1> USE DEF viewVars, mainVars, scanVars, cacheVars, lossVars, fluxVars
<1>1. numEvents \in Nat /\ eventsAtStop \in Nat
  BY DEF TypeInv, TypeOK
<1>2. CASE viewDidLoad \/ viewDidAppear
  BY <1>2 DEF viewDidLoad, viewDidAppear, StopInv
<1>3. CASE stopCollectingDidTap
  BY <1>1, <1>3 DEF stopCollectingDidTap, StopInv
<1>4. CASE updateThreshold \/ updateThresholdDecide \/ recordDetection
  BY <1>1, <1>4 DEF updateThreshold, updateThresholdDecide, recordDetection,
                    StopInv
<1>5. CASE countEvent
  BY <1>1, <1>5 DEF countEvent, ScanFinished, StopInv
<1>6. CASE captureOutput \/ scanPixel
  BY <1>1, <1>6 DEF captureOutput, scanPixel, StopInv
<1>7. CASE renderImage \/ dispatchBlock \/ ignoreFrame
  BY <1>1, <1>7 DEF renderImage, dispatchBlock, ignoreFrame, StopInv
<1>10. CASE UpdateFlux
  BY <1>1, <1>10, OnlyFluxChanges DEF StopInv
<1>8. CASE Camera
  BY <1>1, <1>8 DEF Camera, deliverFrame, discardLateFrame, StopInv
<1>9. CASE Tick \/ UNCHANGED vars
  BY <1>1, <1>9 DEF Tick, vars, StopInv
<1> QED BY <1>2, <1>3, <1>4, <1>5, <1>6, <1>7, <1>8, <1>9, <1>10
        DEF Next, MainThread, ImageQueue, UpdateFlux, Threads

\* Once Stop was pressed at most one more event is counted, however many
\* blocks wait for the main thread and however long the last scan takes.
THEOREM StopIsPrompt == Spec => []AtMostOneEventAfterStop
<1>1. Init => StopInv
  BY DEF Init, StopInv
<1>2. StopInv => AtMostOneEventAfterStop
  BY DEF StopInv, AtMostOneEventAfterStop
<1> QED BY <1>1, <1>2, InitTypeInv, NextTypeInv, NextStopInv, PTL DEF Spec
-----------------------------------------------------------------------------
(* The shared image                                                        *)

\* The last event whose frame was rendered: not the one captureOutput has
\* counted and not rendered yet.
LastRendered == IF queuePC = "flux" THEN numEvents - 1 ELSE numEvents

\* cgimage was always rendered from the frame of that event.
ImageInv ==
    /\ LastRendered >= 1 => cgimage = EventFrame(LastRendered)
    /\ ImageOfOwnOrLaterEvent

\* The events counted so far keep their frames while blocks move from
\* imageQueue to the main queue and on to the records.
LEMMA EventFramesKept ==
    TypeInv /\ EventAccounting /\ [Next]_vars
      => /\ numEvents <= numEvents'
         /\ \A j \in 1..numEvents : EventFrame(j)' = EventFrame(j)
<1> SUFFICES ASSUME TypeInv, EventAccounting, [Next]_vars
             PROVE  /\ numEvents <= numEvents'
                    /\ \A j \in 1..numEvents : EventFrame(j)' = EventFrame(j)
  OBVIOUS
<1> USE DEF viewVars, mainVars, scanVars, cacheVars, lossVars, fluxVars
<1>1. /\ mainQueue \in Seq(Block) /\ detections \in Seq(Record)
      /\ numEvents \in Nat
      /\ numEvents = Len(detections) + Len(mainQueue)
                       + (IF HandlingEvent THEN 1 ELSE 0)
  BY DEF TypeInv, TypeOK, EventAccounting
<1>2. CASE recordDetection
  <2>1. PICK new : /\ detections' = Append(detections, new)
                   /\ new.frame = Head(mainQueue).frame
    <3> DEFINE n == [frame |-> Head(mainQueue).frame,
                     bright |-> Head(mainQueue).bright, image |-> cgimage,
                     score |-> Head(mainQueue).bright * intensityThreshhold]
    <3>1. detections' = Append(detections, n) /\ n.frame = Head(mainQueue).frame
      BY <1>2 DEF recordDetection
    <3> HIDE DEF n
    <3> QED BY <3>1
  <2>2. /\ mainQueue # <<>> /\ mainQueue' = Tail(mainQueue)
        /\ numEvents' = numEvents /\ numFrames' = numFrames
    BY <1>2 DEF recordDetection
  <2>3. /\ Len(detections') = Len(detections) + 1
        /\ Len(mainQueue') = Len(mainQueue) - 1
        /\ \A i \in 1..Len(detections) : detections'[i] = detections[i]
        /\ detections'[Len(detections) + 1] = new
        /\ \A i \in 1..(Len(mainQueue) - 1) : mainQueue'[i] = mainQueue[i + 1]
    BY <1>1, <2>1, <2>2
  <2>4. new.frame = mainQueue[1].frame
    BY <1>1, <2>1, <2>2
  <2>5. ASSUME NEW j \in 1..numEvents PROVE EventFrame(j)' = EventFrame(j)
    <3>1. CASE j <= Len(detections)
      BY <1>1, <2>3, <3>1 DEF EventFrame
    <3>2. CASE j = Len(detections) + 1
      BY <1>1, <2>2, <2>3, <2>4, <3>2 DEF EventFrame
    <3>3. CASE j > Len(detections) + 1 /\ j <= Len(detections) + Len(mainQueue)
      <4>1. PICK i : i = j - (Len(detections) + 1)
        OBVIOUS
      <4>2. /\ i \in 1..(Len(mainQueue) - 1) /\ i + 1 = j - Len(detections)
            /\ j - Len(detections') = i
        BY <1>1, <2>3, <3>3, <4>1
      <4>3. mainQueue'[i] = mainQueue[i + 1]
        BY <2>3, <4>2
      <4>4. EventFrame(j) = mainQueue[i + 1].frame
        BY <1>1, <3>3, <4>2 DEF EventFrame
      <4>5. ~(j <= Len(detections')) /\ j <= Len(detections') + Len(mainQueue')
        BY <1>1, <2>3, <3>3
      <4>6. EventFrame(j)' = mainQueue'[i].frame
        BY <4>2, <4>5 DEF EventFrame
      <4> QED BY <4>3, <4>4, <4>6
    <3>4. CASE j > Len(detections) + 1 /\ j > Len(detections) + Len(mainQueue)
      BY <1>1, <2>2, <2>3, <3>4 DEF EventFrame
    <3> QED BY <1>1, <3>1, <3>2, <3>3, <3>4
  <2> QED BY <1>1, <2>2, <2>5
<1>3. CASE dispatchBlock
  <2>1. PICK b : /\ mainQueue' = Append(mainQueue, b) /\ b.frame = numFrames
    <3> DEFINE n == [frame |-> numFrames, bright |-> numBrightPixels]
    <3>1. mainQueue' = Append(mainQueue, n) /\ n.frame = numFrames
      BY <1>3 DEF dispatchBlock
    <3> HIDE DEF n
    <3> QED BY <3>1
  <2>2. /\ detections' = detections /\ numEvents' = numEvents
        /\ numEvents = Len(detections) + Len(mainQueue) + 1
    BY <1>1, <1>3 DEF dispatchBlock, HandlingEvent
  <2>3. /\ Len(mainQueue') = Len(mainQueue) + 1
        /\ \A i \in 1..Len(mainQueue) : mainQueue'[i] = mainQueue[i]
        /\ mainQueue'[Len(mainQueue) + 1] = b
    BY <1>1, <2>1
  <2>4. ASSUME NEW j \in 1..numEvents PROVE EventFrame(j)' = EventFrame(j)
    <3>1. CASE j <= Len(detections) + Len(mainQueue)
      BY <1>1, <2>2, <2>3, <3>1 DEF EventFrame
    <3>2. CASE j = Len(detections) + Len(mainQueue) + 1
      BY <1>1, <2>1, <2>2, <2>3, <3>2 DEF EventFrame
    <3> QED BY <1>1, <2>2, <3>1, <3>2
  <2> QED BY <1>1, <2>2, <2>4
<1>4. CASE captureOutput \/ countEvent
  <2>1. /\ UNCHANGED <<detections, mainQueue>>
        /\ numEvents = Len(detections) + Len(mainQueue)
        /\ numEvents <= numEvents'
    BY <1>1, <1>4 DEF captureOutput, countEvent, ScanFinished, HandlingEvent
  <2> QED BY <1>1, <2>1 DEF EventFrame
<1>5. CASE UNCHANGED <<detections, mainQueue, numEvents, numFrames>>
  BY <1>1, <1>5 DEF EventFrame
<1>6. CASE UpdateFlux
  BY <1>5, <1>6, OnlyFluxChanges
<1> QED
  BY <1>2, <1>3, <1>4, <1>5, <1>6 DEF Next, MainThread, ImageQueue, Camera,
     Tick, vars, viewDidLoad, viewDidAppear, stopCollectingDidTap,
     updateThreshold, updateThresholdDecide, scanPixel, renderImage,
     ignoreFrame, deliverFrame, discardLateFrame, UpdateFlux, Threads

LEMMA NextImageInv ==
    TypeInv /\ EventAccounting /\ ImageInv /\ [Next]_vars => ImageInv'
<1> SUFFICES ASSUME TypeInv, EventAccounting, ImageInv, [Next]_vars
             PROVE  ImageInv'
  OBVIOUS
<1> USE DEF viewVars, mainVars, scanVars, cacheVars, lossVars, fluxVars
<1>1. /\ mainQueue \in Seq(Block) /\ detections \in Seq(Record)
      /\ numEvents \in Nat /\ numEvents' \in Nat
      /\ numEvents = Len(detections) + Len(mainQueue)
                       + (IF HandlingEvent THEN 1 ELSE 0)
  BY NextTypeInv DEF TypeInv, TypeOK, EventAccounting
<1>2. /\ numEvents <= numEvents'
      /\ \A j \in 1..numEvents : EventFrame(j)' = EventFrame(j)
  BY EventFramesKept
<1>3. LastRendered \in Int /\ LastRendered <= numEvents
        /\ LastRendered >= Len(detections) + Len(mainQueue)
  BY <1>1 DEF LastRendered, HandlingEvent
<1>4. ASSUME UNCHANGED cgimage, LastRendered' = LastRendered
      PROVE  LastRendered' >= 1 => cgimage' = EventFrame(LastRendered)'
  <2> SUFFICES ASSUME LastRendered' >= 1
               PROVE  cgimage' = EventFrame(LastRendered)'
    OBVIOUS
  <2>1. PICK j \in 1..numEvents : j = LastRendered
    BY <1>1, <1>3, <1>4
  <2>2. cgimage = EventFrame(j) /\ EventFrame(j)' = EventFrame(j)
    BY <1>2, <1>4, <2>1 DEF ImageInv
  <2>3. EventFrame(LastRendered)' = EventFrame(j)'
    BY <1>4, <2>1 DEF EventFrame
  <2> QED BY <1>4, <2>2, <2>3
<1>5. ASSUME UNCHANGED detections PROVE ImageOfOwnOrLaterEvent'
  <2> SUFFICES ASSUME NEW i \in 1..Len(detections)
               PROVE  \E j \in i..numEvents' :
                        detections[i].image = EventFrame(j)'
    BY <1>5 DEF ImageOfOwnOrLaterEvent
  <2>1. PICK j \in i..numEvents : detections[i].image = EventFrame(j)
    BY DEF ImageInv, ImageOfOwnOrLaterEvent
  <2>2. j \in 1..numEvents /\ j \in i..numEvents'
    BY <1>1, <1>2
  <2> QED BY <1>2, <2>1, <2>2
<1>6. CASE recordDetection
  <2>1. PICK new : /\ detections' = Append(detections, new)
                   /\ new.image = cgimage
    <3> DEFINE n == [frame |-> Head(mainQueue).frame,
                     bright |-> Head(mainQueue).bright, image |-> cgimage,
                     score |-> Head(mainQueue).bright * intensityThreshhold]
    <3>1. detections' = Append(detections, n) /\ n.image = cgimage
      BY <1>6 DEF recordDetection
    <3> HIDE DEF n
    <3> QED BY <3>1
  <2>2. LastRendered' = LastRendered /\ UNCHANGED <<cgimage, numEvents>>
          /\ mainQueue # <<>>
    BY <1>6 DEF recordDetection, LastRendered
  <2>3. LastRendered >= Len(detections) + 1 /\ Len(detections) \in Nat
    BY <1>1, <1>3, <2>2
  <2>4. PICK r \in 1..numEvents : r = LastRendered
    BY <1>1, <1>3, <2>3
  <2>5. cgimage = EventFrame(r)'
    BY <1>2, <2>3, <2>4 DEF ImageInv
  <2>6. ASSUME NEW i \in 1..Len(detections')
        PROVE  \E j \in i..numEvents' : detections'[i].image = EventFrame(j)'
    <3>1. CASE i = Len(detections) + 1
      <4>1. detections'[i] = new
        BY <1>1, <2>1, <3>1
      <4>2. r \in i..numEvents'
        BY <1>1, <2>2, <2>3, <2>4, <3>1
      <4> QED BY <2>1, <2>5, <4>1, <4>2
    <3>2. CASE i # Len(detections) + 1
      <4>1. i \in 1..Len(detections) /\ detections'[i] = detections[i]
        BY <1>1, <2>1, <3>2
      <4>2. PICK j \in i..numEvents : detections[i].image = EventFrame(j)
        BY <4>1 DEF ImageInv, ImageOfOwnOrLaterEvent
      <4>3. j \in 1..numEvents /\ j \in i..numEvents'
        BY <1>1, <1>2, <4>1
      <4> QED BY <1>2, <4>1, <4>2, <4>3
    <3> QED BY <3>1, <3>2
  <2> QED BY <1>4, <2>2, <2>6 DEF ImageInv, ImageOfOwnOrLaterEvent
<1>7. CASE renderImage
  <2>1. /\ UNCHANGED <<detections, mainQueue, numEvents, numFrames>>
        /\ numEvents = Len(detections) + Len(mainQueue) + 1
        /\ LastRendered' = numEvents /\ cgimage' = numFrames
    BY <1>1, <1>7 DEF renderImage, HandlingEvent, LastRendered
  <2>2. EventFrame(LastRendered)' = numFrames
    BY <1>1, <2>1 DEF EventFrame
  <2> QED BY <1>5, <2>1, <2>2 DEF ImageInv
<1>8. CASE UNCHANGED <<cgimage, detections>> /\ LastRendered' = LastRendered
  BY <1>4, <1>5, <1>8 DEF ImageInv
<1>9. CASE countEvent \/ UpdateFlux
  <2>1. LastRendered' = LastRendered /\ UNCHANGED <<cgimage, detections>>
    BY <1>1, <1>9, OnlyFluxChanges DEF countEvent, ScanFinished, LastRendered
  <2> QED BY <1>8, <2>1
<1>10. CASE captureOutput \/ scanPixel \/ dispatchBlock \/ ignoreFrame
  <2>1. LastRendered' = LastRendered /\ UNCHANGED <<cgimage, detections>>
    BY <1>10 DEF captureOutput, scanPixel, dispatchBlock, ignoreFrame,
                 ScanFinished, LastRendered
  <2> QED BY <1>8, <2>1
<1>11. CASE viewDidLoad \/ viewDidAppear \/ stopCollectingDidTap
              \/ updateThreshold \/ updateThresholdDecide
  <2>1. LastRendered' = LastRendered /\ UNCHANGED <<cgimage, detections>>
    BY <1>11 DEF viewDidLoad, viewDidAppear, stopCollectingDidTap,
                 updateThreshold, updateThresholdDecide, LastRendered
  <2> QED BY <1>8, <2>1
<1>12. CASE Camera \/ Tick \/ UNCHANGED vars
  <2>1. LastRendered' = LastRendered /\ UNCHANGED <<cgimage, detections>>
    BY <1>12 DEF Camera, deliverFrame, discardLateFrame, Tick, vars,
                 LastRendered
  <2> QED BY <1>8, <2>1
<1> QED BY <1>6, <1>7, <1>9, <1>10, <1>11, <1>12
        DEF Next, MainThread, ImageQueue, UpdateFlux, Threads

\* A block that reads the shared cgimage late records the image of its own
\* event or of a later one, for any number of blocks waiting and any delay
\* of the main thread; never that of an earlier event or of a plain frame.
THEOREM ImagesAreOfEvents == Spec => []ImageOfOwnOrLaterEvent
<1>1. Init => EventAccounting /\ ImageInv
  BY DEF Init, EventAccounting, HandlingEvent, ImageInv, LastRendered,
         ImageOfOwnOrLaterEvent
<1>2. ImageInv => ImageOfOwnOrLaterEvent
  BY DEF ImageInv
<1> QED BY <1>1, <1>2, InitTypeInv, NextTypeInv, NextAccounting, NextImageInv,
           PTL DEF Spec
-----------------------------------------------------------------------------
(* What a scan counts                                                      *)

\* Point p comes before <<x, y>> in the two stride loops.
Visited(p) == p[1] < x \/ (p[1] = x /\ p[2] < y)

BrightVisited(t) == {p \in BrightPoints(frame, t) : Visited(p)}

\* The scan stands on a sampled point, and so far it counted what is bright
\* among the points before it: no more than under the initial threshold, no
\* less than under the one of now.
CountInv ==
    queuePC = "scan" =>
        /\ x % pixelsToSkip = 0 /\ y % pixelsToSkip = 0
        /\ geometry = GeometryOf(frame) =>
             /\ Cardinality(BrightVisited(Threshold)) <= numBrightPixels
             /\ numBrightPixels <= Cardinality(BrightVisited(InitialThreshold))

\* Whatever the cached layout, a byte is loaded; with the frame's own layout
\* it is the sample at the point the scan stands on.
LEMMA ScanLoads ==
    ASSUME TypeInv, ScanInv, queuePC = "scan", x < geometry.width
    PROVE  LET i == Index(x, y, geometry.bytesPerRow) IN
           /\ Loaded(frame.buffer, i) \subseteq UInt8
           /\ geometry = GeometryOf(frame)
                => /\ Loaded(frame.buffer, i) = {frame.buffer[i]}
                   /\ frame.buffer[i] \in Nat
<1> DEFINE i == Index(x, y, geometry.bytesPerRow)
<1>1. frame \in Frames /\ y < geometry.height /\ x \in Nat /\ y \in Nat
  BY DEF ScanInv, TypeInv, TypeOK
<1>2. /\ frame.width \in Nat /\ frame.height \in Nat
      /\ frame.bytesPerRow \in Nat /\ frame.width <= frame.bytesPerRow
      /\ frame.buffer \in [0..(frame.bytesPerRow * frame.height - 1) -> UInt8]
  BY <1>1, FramesAssumption
<1>3. ASSUME geometry = GeometryOf(frame)
      PROVE  i \in 0..(frame.bytesPerRow * frame.height - 1)
  BY <1>1, <1>2, <1>3, IndexInBuffer DEF GeometryOf
<1> HIDE DEF i
<1>4. Loaded(frame.buffer, i) \subseteq UInt8
  BY <1>2 DEF Loaded
<1>5. ASSUME geometry = GeometryOf(frame)
      PROVE  Loaded(frame.buffer, i) = {frame.buffer[i]}
               /\ frame.buffer[i] \in Nat
  <2>1. i \in DOMAIN frame.buffer /\ frame.buffer[i] \in UInt8
    BY <1>2, <1>3, <1>5
  <2> QED BY <2>1 DEF Loaded, UInt8
<1> QED BY <1>4, <1>5 DEF i

\* Every sample of a frame the camera delivers is a byte.
LEMMA SamplesAreBytes ==
    ASSUME NEW f \in Frames, NEW p \in SampledPoints(f)
    PROVE  /\ p = <<p[1], p[2]>>
           /\ p[1] \in Nat /\ p[2] \in Nat
           /\ p[1] < f.width /\ p[2] < f.height
           /\ p[1] % pixelsToSkip = 0 /\ p[2] % pixelsToSkip = 0
           /\ f.buffer[p[1] + p[2] * f.bytesPerRow] \in Nat
<1>1. /\ f.width \in Nat /\ f.height \in Nat /\ f.bytesPerRow \in Nat
      /\ f.width <= f.bytesPerRow
      /\ f.buffer \in [0..(f.bytesPerRow * f.height - 1) -> UInt8]
  BY FramesAssumption
<1>2. /\ p = <<p[1], p[2]>>
      /\ p[1] \in Strided(f.width) /\ p[2] \in Strided(f.height)
  BY DEF SampledPoints
<1>3. /\ p[1] \in Nat /\ p[1] < f.width /\ p[1] % pixelsToSkip = 0
      /\ p[2] \in Nat /\ p[2] < f.height /\ p[2] % pixelsToSkip = 0
  BY <1>1, <1>2 DEF Strided
<1>4. Index(p[1], p[2], f.bytesPerRow) \in 0..(f.bytesPerRow * f.height - 1)
  BY <1>1, <1>3, IndexInBuffer
<1>5. f.buffer[p[1] + p[2] * f.bytesPerRow] \in UInt8
  BY <1>1, <1>4 DEF Index
<1> QED BY <1>2, <1>3, <1>5 DEF UInt8

LEMMA BrightPointsFinite ==
    ASSUME NEW f \in Frames, NEW t PROVE IsFiniteSet(BrightPoints(f, t))
<1>1. f.width \in Nat /\ f.height \in Nat
  BY FramesAssumption
<1>2. ASSUME NEW n \in Nat PROVE IsFiniteSet(Strided(n))
  <2>1. Strided(n) \subseteq 0..(n - 1)
    BY DEF Strided
  <2>2. IsFiniteSet(0..(n - 1))
    BY FS_Interval
  <2> QED BY <2>1, <2>2, FS_Subset
<1>3. IsFiniteSet(SampledPoints(f))
  BY <1>1, <1>2, FS_Product DEF SampledPoints
<1> QED BY <1>3, FS_Subset DEF BrightPoints

\* A point that is bright under a threshold is bright under a lower one.
LEMMA BrighterUnderLower ==
    ASSUME NEW f \in Frames, NEW s \in Nat, NEW t \in Nat, s <= t
    PROVE  BrightPoints(f, t) \subseteq BrightPoints(f, s)
<1> SUFFICES ASSUME NEW p \in SampledPoints(f),
                    IsBright(f.buffer[p[1] + p[2] * f.bytesPerRow], t)
             PROVE  IsBright(f.buffer[p[1] + p[2] * f.bytesPerRow], s)
  BY DEF BrightPoints
<1>1. f.buffer[p[1] + p[2] * f.bytesPerRow] \in Nat
  BY SamplesAreBytes
<1>2. \A i \in Nat : 4 * i > 3 * t => 4 * i > 3 * s
  OBVIOUS
<1> QED BY <1>1, <1>2 DEF IsBright

\* A pixel more, or none, in the set of bright points before the scan.
LEMMA ScanAddsPoint ==
    ASSUME TypeInv, ScanInv, CountInv, scanPixel, NEW t \in Nat,
           geometry = GeometryOf(frame)
    PROVE  /\ IsBright(frame.buffer[Index(x, y, geometry.bytesPerRow)], t)
                => Cardinality(BrightVisited(t)') = Cardinality(BrightVisited(t)) + 1
           /\ ~IsBright(frame.buffer[Index(x, y, geometry.bytesPerRow)], t)
                => BrightVisited(t)' = BrightVisited(t)
           /\ IsFiniteSet(BrightVisited(t)) /\ IsFiniteSet(BrightVisited(t)')
<1>1. /\ frame \in Frames /\ geometry = GeometryOf(frame)
      /\ y < geometry.height /\ x < geometry.width
      /\ x \in Nat /\ y \in Nat /\ x % 2 = 0 /\ y % 2 = 0
      /\ frame' = frame /\ queuePC = "scan"
  BY DEF TypeInv, TypeOK, ScanInv, CountInv, scanPixel, scanVars, pixelsToSkip
<1>2. /\ geometry.width = frame.width /\ geometry.height = frame.height
      /\ geometry.bytesPerRow = frame.bytesPerRow
      /\ frame.width \in Nat /\ frame.height \in Nat
  BY <1>1, FramesAssumption DEF GeometryOf
<1>3. \/ y + 2 < frame.height /\ x' = x /\ y' = y + 2
      \/ y + 2 >= frame.height /\ x' = x + 2 /\ y' = 0
  BY <1>1, <1>2 DEF scanPixel, NextPoint, pixelsToSkip
<1> DEFINE here == <<x, y>>
<1>4. here \in SampledPoints(frame) /\ here[1] = x /\ here[2] = y
  BY <1>1, <1>2 DEF SampledPoints, Strided, pixelsToSkip
<1>5. ASSUME NEW p \in SampledPoints(frame)
      PROVE  Visited(p)' <=> Visited(p) \/ p = here
  <2>1. /\ p = <<p[1], p[2]>> /\ p[1] \in Nat /\ p[2] \in Nat
        /\ p[1] < frame.width /\ p[2] < frame.height
        /\ p[1] % 2 = 0 /\ p[2] % 2 = 0
    BY <1>1, SamplesAreBytes DEF pixelsToSkip
  <2>2. p = here <=> p[1] = x /\ p[2] = y
    BY <2>1
  <2>3. \A a, b \in Nat : a % 2 = 0 /\ b % 2 = 0 => (a < b + 2 <=> a < b \/ a = b)
    OBVIOUS
  <2>4. p[2] < y + 2 <=> p[2] < y \/ p[2] = y
    BY <1>1, <2>1, <2>3
  <2>5. p[1] < x + 2 <=> p[1] < x \/ p[1] = x
    BY <1>1, <2>1, <2>3
  <2>6. CASE y + 2 < frame.height /\ x' = x /\ y' = y + 2
    BY <1>1, <2>1, <2>2, <2>4, <2>6 DEF Visited
  <2>7. CASE y + 2 >= frame.height /\ x' = x + 2 /\ y' = 0
    <3>1. p[2] < y \/ p[2] = y
      BY <1>1, <1>2, <2>1, <2>4, <2>7
    <3> QED BY <1>1, <2>1, <2>2, <2>5, <2>7, <3>1 DEF Visited
  <2> QED BY <1>3, <2>6, <2>7
<1>6. ~Visited(here)
  BY <1>1, <1>4 DEF Visited
<1> DEFINE value == frame.buffer[x + y * frame.bytesPerRow]
<1>7. frame.buffer[Index(x, y, geometry.bytesPerRow)] = value
  BY <1>2 DEF Index
<1>8. here \in BrightPoints(frame, t) <=> IsBright(value, t)
  BY <1>4 DEF BrightPoints
<1>9. BrightPoints(frame, t) \subseteq SampledPoints(frame)
  BY DEF BrightPoints
<1>10. BrightVisited(t)' = {p \in BrightPoints(frame, t) : Visited(p)'}
  BY <1>1 DEF BrightVisited, BrightPoints
<1>11. IsFiniteSet(BrightVisited(t)) /\ here \notin BrightVisited(t)
  BY <1>1, <1>6, BrightPointsFinite, FS_Subset DEF BrightVisited
<1>12. IsFiniteSet(BrightVisited(t)')
  BY <1>1, <1>10, BrightPointsFinite, FS_Subset
<1> HIDE DEF value, here
<1>13. CASE IsBright(value, t)
  <2>1. BrightVisited(t)' = BrightVisited(t) \cup {here}
    BY <1>5, <1>8, <1>9, <1>10, <1>13 DEF BrightVisited
  <2>2. Cardinality(BrightVisited(t)') = Cardinality(BrightVisited(t)) + 1
    BY <1>11, <2>1, FS_AddElement
  <2> QED BY <1>1, <1>3, <1>7, <1>11, <1>12, <1>13, <2>2
<1>14. CASE ~IsBright(value, t)
  <2>1. BrightVisited(t)' = BrightVisited(t)
    BY <1>5, <1>8, <1>9, <1>10, <1>14 DEF BrightVisited
  <2> QED BY <1>1, <1>3, <1>7, <1>11, <1>12, <1>14, <2>1
<1> QED BY <1>13, <1>14

LEMMA NextCountInv ==
    TypeInv /\ ScanInv /\ CopyInv /\ CountInv /\ [Next]_vars => CountInv'
<1> SUFFICES ASSUME TypeInv, ScanInv, CopyInv, CountInv, [Next]_vars
             PROVE  CountInv'
  OBVIOUS
<1> USE DEF viewVars, mainVars, scanVars, cacheVars, lossVars, fluxVars
<1>1. /\ Threshold \in Nat /\ Threshold' \in Nat /\ Threshold <= Threshold'
      /\ updateThresholdDecide \/ Threshold' = Threshold
      /\ InitialThreshold \in Nat /\ InitialThreshold <= Threshold
      /\ numBrightPixels \in Nat
  BY ThresholdNeverLowered DEF InitialThreshold, CopyInv, TypeInv, TypeOK
<1>2. ASSUME scanPixel, geometry = GeometryOf(frame)
      PROVE  /\ Cardinality(BrightVisited(Threshold)') <= numBrightPixels'
             /\ numBrightPixels' <= Cardinality(BrightVisited(InitialThreshold)')
  <2>1. Threshold' = Threshold
    BY <1>1, <1>2 DEF scanPixel, updateThresholdDecide
  <2>2. frame \in Frames /\ queuePC = "scan" /\ x < geometry.width
    BY <1>2 DEF scanPixel, ScanInv
  <2> DEFINE v == frame.buffer[Index(x, y, geometry.bytesPerRow)]
             lo == Cardinality(BrightVisited(Threshold))
             hi == Cardinality(BrightVisited(InitialThreshold))
  <2>3. lo <= numBrightPixels /\ numBrightPixels <= hi
    BY <1>2, <2>2 DEF CountInv
  <2>4. numBrightPixels' = IF IsBright(v, Threshold) THEN numBrightPixels + 1
                                                     ELSE numBrightPixels
    BY <1>2, <2>2, ScanLoads DEF scanPixel, Threshold
  <2>5. /\ IsFiniteSet(BrightVisited(Threshold))
        /\ IsFiniteSet(BrightVisited(Threshold)')
        /\ IsBright(v, Threshold)
             => Cardinality(BrightVisited(Threshold)') = lo + 1
        /\ ~IsBright(v, Threshold)
             => BrightVisited(Threshold)' = BrightVisited(Threshold)
    <3>1. PICK t \in Nat : t = Threshold
      BY <1>1
    <3>2. /\ IsFiniteSet(BrightVisited(t)) /\ IsFiniteSet(BrightVisited(t)')
          /\ IsBright(v, t) => Cardinality(BrightVisited(t)')
                                 = Cardinality(BrightVisited(t)) + 1
          /\ ~IsBright(v, t) => BrightVisited(t)' = BrightVisited(t)
      BY <1>2, ScanAddsPoint
    <3>3. BrightVisited(t)' = BrightVisited(Threshold)'
      BY <2>1, <3>1 DEF BrightVisited
    <3> QED BY <3>1, <3>2, <3>3
  <2>6. /\ IsFiniteSet(BrightVisited(InitialThreshold))
        /\ IsFiniteSet(BrightVisited(InitialThreshold)')
        /\ IsBright(v, InitialThreshold)
             => Cardinality(BrightVisited(InitialThreshold)') = hi + 1
        /\ ~IsBright(v, InitialThreshold)
             => BrightVisited(InitialThreshold)' = BrightVisited(InitialThreshold)
    BY <1>1, <1>2, ScanAddsPoint
  <2>7. lo \in Nat /\ hi \in Nat
    BY <2>5, <2>6, FS_CardinalityType
  <2>8. IsBright(v, Threshold) => IsBright(v, InitialThreshold)
    <3>1. v \in Nat
      BY <1>2, <2>2, ScanLoads
    <3>2. \A i, s, t \in Nat : s <= t /\ 4 * i > 3 * t => 4 * i > 3 * s
      OBVIOUS
    <3> HIDE DEF v
    <3> QED BY <1>1, <3>1, <3>2 DEF IsBright
  <2> DEFINE lo2 == Cardinality(BrightVisited(Threshold)')
             hi2 == Cardinality(BrightVisited(InitialThreshold)')
  <2>9. lo2 <= numBrightPixels' /\ numBrightPixels' <= hi2
    <3> HIDE DEF v
    <3>1. CASE IsBright(v, Threshold)
      <4>1. lo2 = lo + 1 /\ hi2 = hi + 1 /\ numBrightPixels' = numBrightPixels + 1
        BY <2>4, <2>5, <2>6, <2>8, <3>1
      <4> HIDE DEF lo, hi, lo2, hi2
      <4> QED BY <1>1, <2>3, <2>7, <4>1
    <3>2. CASE ~IsBright(v, Threshold)
      <4>1. lo2 = lo /\ (hi2 = hi \/ hi2 = hi + 1)
              /\ numBrightPixels' = numBrightPixels
        BY <2>4, <2>5, <2>6, <3>2
      <4> HIDE DEF lo, hi, lo2, hi2
      <4> QED BY <1>1, <2>3, <2>7, <4>1
    <3> QED BY <3>1, <3>2
  <2> QED BY <2>9
<1>11. CASE scanPixel
  <2>1. x' % pixelsToSkip = 0 /\ y' % pixelsToSkip = 0
    <3>1. /\ x \in Nat /\ y \in Nat
          /\ x % pixelsToSkip = 0 /\ y % pixelsToSkip = 0
      BY <1>11 DEF scanPixel, CountInv, TypeInv, TypeOK
    <3>2. \/ x' = x /\ y' = y + pixelsToSkip
          \/ x' = x + pixelsToSkip /\ y' = 0
      BY <1>11 DEF scanPixel, NextPoint
    <3> QED BY <3>1, <3>2 DEF pixelsToSkip
  <2>2. UNCHANGED <<geometry, frame>>
    BY <1>11 DEF scanPixel
  <2>3. CASE geometry # GeometryOf(frame)
    BY <2>1, <2>2, <2>3 DEF CountInv, GeometryOf
  <2>4. CASE geometry = GeometryOf(frame)
    BY <1>2, <1>11, <2>1, <2>4 DEF CountInv
  <2> QED BY <2>3, <2>4
<1>3. CASE captureOutput
  <2>1. x' = 0 /\ y' = 0 /\ numBrightPixels' = 0 /\ frame' = frame
          /\ frame \in Frames
    BY <1>3 DEF captureOutput, ScanInv
  <2>2. \A t \in Nat : BrightVisited(t)' = {}
    <3> SUFFICES ASSUME NEW t \in Nat, NEW p \in BrightPoints(frame, t)
                 PROVE  ~Visited(p)'
      BY <2>1 DEF BrightVisited, BrightPoints
    <3>1. p[1] \in Nat /\ p[2] \in Nat
      BY <2>1, SamplesAreBytes DEF BrightPoints
    <3> QED BY <2>1, <3>1 DEF Visited
  <2>3. BrightVisited(Threshold)' = {} /\ BrightVisited(InitialThreshold)' = {}
    <3>1. PICK t \in Nat : t = Threshold'
      BY <1>1
    <3>2. BrightVisited(t)' = BrightVisited(Threshold)'
      BY <3>1 DEF BrightVisited
    <3> QED BY <1>1, <2>2, <3>1, <3>2
  <2> QED BY <2>1, <2>3, FS_EmptySet DEF CountInv, pixelsToSkip
<1>4. CASE updateThresholdDecide
  <2>0. UNCHANGED <<x, y, numBrightPixels, frame, queuePC, geometry>>
    BY <1>4 DEF updateThresholdDecide
  <2> SUFFICES ASSUME queuePC = "scan", geometry = GeometryOf(frame)
               PROVE  CountInv'
    BY <2>0 DEF CountInv, GeometryOf
  <2>1. UNCHANGED <<x, y, numBrightPixels, frame, queuePC>> /\ frame \in Frames
    BY <2>0 DEF ScanInv
  <2>2. PICK s \in Nat, t \in Nat : s = Threshold /\ t = Threshold' /\ s <= t
    BY <1>1
  <2>3. /\ BrightVisited(InitialThreshold)' = BrightVisited(InitialThreshold)
        /\ BrightVisited(Threshold)' = BrightVisited(t)
        /\ BrightVisited(Threshold) = BrightVisited(s)
    BY <2>1, <2>2 DEF BrightVisited, BrightPoints, Visited
  <2>4. BrightVisited(t) \subseteq BrightVisited(s)
    BY <2>1, <2>2, BrighterUnderLower DEF BrightVisited
  <2>5. IsFiniteSet(BrightVisited(s))
    BY <2>1, BrightPointsFinite, FS_Subset DEF BrightVisited
  <2>6. /\ Cardinality(BrightVisited(t)) <= Cardinality(BrightVisited(s))
        /\ Cardinality(BrightVisited(t)) \in Nat
        /\ Cardinality(BrightVisited(s)) \in Nat
    BY <2>4, <2>5, FS_Subset, FS_CardinalityType
  <2>7. /\ Cardinality(BrightVisited(s)) <= numBrightPixels
        /\ numBrightPixels <= Cardinality(BrightVisited(InitialThreshold))
        /\ x % pixelsToSkip = 0 /\ y % pixelsToSkip = 0
    BY <2>3 DEF CountInv
  <2>8. Cardinality(BrightVisited(t)) <= numBrightPixels
    BY <1>1, <2>6, <2>7
  <2> QED BY <2>1, <2>3, <2>7, <2>8 DEF CountInv
<1>5. CASE /\ UNCHANGED <<x, y, numBrightPixels, frame, geometry>>
           /\ queuePC' = "scan" => queuePC = "scan"
           /\ Threshold' = Threshold
  <2>1. /\ BrightVisited(InitialThreshold)' = BrightVisited(InitialThreshold)
        /\ BrightVisited(Threshold)' = BrightVisited(Threshold)
    BY <1>5 DEF BrightVisited, BrightPoints, Visited
  <2> QED BY <1>5, <2>1 DEF CountInv, GeometryOf
<1>6. CASE countEvent \/ renderImage \/ dispatchBlock \/ ignoreFrame
  BY <1>6 DEF countEvent, renderImage, dispatchBlock, ignoreFrame, CountInv
<1>10. CASE UpdateFlux
  <2>1. Threshold' = Threshold
    BY <1>10, OnlyFluxChanges DEF Threshold, getIntensityThreshold
  <2> QED BY <1>5, <1>10, <2>1, OnlyFluxChanges
<1>7. CASE viewDidLoad \/ viewDidAppear \/ stopCollectingDidTap
             \/ updateThreshold \/ recordDetection
  BY <1>5, <1>7, <1>1 DEF viewDidLoad, viewDidAppear, stopCollectingDidTap,
     updateThreshold, recordDetection, updateThresholdDecide
<1>8. CASE Camera
  <2>1. CASE discardLateFrame
    BY <1>1, <1>5, <2>1 DEF discardLateFrame, updateThresholdDecide
  <2>2. CASE \E f \in Frames : deliverFrame(f)
    BY <2>2 DEF deliverFrame, CountInv
  <2> QED BY <1>8, <2>1, <2>2 DEF Camera
<1>9. CASE Tick \/ UNCHANGED vars
  <2>1. UNCHANGED intensityThreshholds
    BY <1>9 DEF Tick, vars
  <2>2. Threshold' = Threshold
    BY <2>1 DEF Threshold, getIntensityThreshold
  <2> QED BY <1>5, <1>9, <2>2 DEF Tick, vars
<1> QED BY <1>3, <1>4, <1>6, <1>7, <1>8, <1>9, <1>10, <1>11
        DEF Next, MainThread, ImageQueue, UpdateFlux, Threads

\* The two loops count what is bright, for frames of any size and content
\* and whenever the timer raises the threshold in the middle of a scan: at
\* least the samples bright under the threshold of the end, at most those
\* bright under the initial one; exactly these while the two agree.
THEOREM ScansCountBrightPixels == Spec => []ScanCountsBrightPixels
<1>1. Init => CountInv
  BY DEF Init, CountInv
<1>2. TypeInv /\ ScanInv /\ CountInv => ScanCountsBrightPixels
  <2> SUFFICES ASSUME TypeInv, ScanInv, CountInv, ScanFinished,
                      geometry = GeometryOf(frame)
               PROVE  /\ Cardinality(BrightPoints(frame, Threshold))
                           <= numBrightPixels
                      /\ numBrightPixels
                           <= Cardinality(BrightPoints(frame, InitialThreshold))
    BY DEF ScanCountsBrightPixels
  <2>1. frame \in Frames /\ x >= frame.width /\ x \in Nat /\ queuePC = "scan"
          /\ frame.width \in Nat
    BY FramesAssumption DEF ScanFinished, ScanInv, GeometryOf, TypeInv, TypeOK
  <2>2. \A t : BrightVisited(t) = BrightPoints(frame, t)
    <3> SUFFICES ASSUME NEW t, NEW p \in BrightPoints(frame, t) PROVE Visited(p)
      BY DEF BrightVisited
    <3>1. p[1] \in Nat /\ p[1] < frame.width
      BY <2>1, SamplesAreBytes DEF BrightPoints
    <3> QED BY <2>1, <3>1 DEF Visited
  <2> QED BY <2>1, <2>2 DEF CountInv
<1> QED BY <1>1, <1>2, InitTypeInv, NextTypeInv, InitScanInv, NextScanInv,
           InitCopyInv, NextCopyInv, NextCountInv, PTL DEF Spec
-----------------------------------------------------------------------------
(* A blind detector stays blind                                            *)

\* A nonempty set of bytes has a greatest element.
LEMMA GreatestByte ==
    ASSUME NEW S \in SUBSET UInt8, S # {}
    PROVE  \E v \in S : \A w \in S : w <= v
<1> DEFINE D == {255 - s : s \in S}
<1>1. \A s \in S : s \in Nat /\ s <= 255
  BY DEF UInt8
<1>2. D \in SUBSET Nat /\ D # {}
  BY <1>1
<1>3. PICK d \in D : \A e \in D : ~(<<e, d>> \in OpToRel(<, Nat))
  BY <1>2, WFMin, NatLessThanWellFounded
<1>4. PICK v \in S : d = 255 - v
  BY <1>3
<1>5. ASSUME NEW w \in S PROVE w <= v
  <2>1. 255 - w \in D /\ 255 - w \in Nat /\ d \in Nat
    BY <1>1, <1>2
  <2>2. ~(255 - w < d)
    BY <1>3, <2>1 DEF OpToRel
  <2> QED BY <1>1, <1>4, <2>1, <2>2
<1> QED BY <1>5

\* No sample the camera delivers is bright under the blinding threshold.
LEMMA BlindedSamples ==
    ASSUME NEW f \in Frames, NEW p \in SampledPoints(f),
           NEW t \in Nat, OneLayoutPerWidth
    PROVE  /\ BlindingThreshold \in Nat
           /\ t >= BlindingThreshold
                => ~IsBright(f.buffer[p[1] + p[2] * f.bytesPerRow], t)
<1> DEFINE Of(g) == {g.buffer[q[1] + q[2] * g.bytesPerRow] : q \in SampledPoints(g)}
           v == f.buffer[p[1] + p[2] * f.bytesPerRow]
<1>1. Samples = UNION {Of(g) : g \in Frames}
  BY DEF Samples
<1>2. ASSUME NEW g \in Frames, NEW w \in Of(g) PROVE w \in UInt8
  <2>1. PICK q \in SampledPoints(g) : w = g.buffer[q[1] + q[2] * g.bytesPerRow]
    OBVIOUS
  <2>2. /\ q[1] \in Nat /\ q[2] \in Nat /\ q[1] < g.width /\ q[2] < g.height
    BY SamplesAreBytes
  <2>3. /\ g.width \in Nat /\ g.height \in Nat /\ g.bytesPerRow \in Nat
        /\ g.width <= g.bytesPerRow
        /\ g.buffer \in [0..(g.bytesPerRow * g.height - 1) -> UInt8]
    BY FramesAssumption
  <2>4. Index(q[1], q[2], g.bytesPerRow) \in 0..(g.bytesPerRow * g.height - 1)
    BY <2>2, <2>3, IndexInBuffer
  <2> QED BY <2>1, <2>3, <2>4 DEF Index
<1>3. v \in Of(f)
  OBVIOUS
<1> HIDE DEF Of
<1>4. Samples \in SUBSET UInt8 /\ v \in Samples
  BY <1>1, <1>2, <1>3
<1> HIDE DEF v
<1>5. \E b \in Samples : \A w \in Samples : w <= b
  BY <1>4, GreatestByte
<1>6. Brightest \in Samples /\ v <= Brightest
  BY <1>4, <1>5 DEF Brightest
<1>7. v \in Nat /\ Brightest \in Nat
  BY <1>4, <1>6 DEF UInt8
<1>8. \A b \in Nat : 3 * ((4 * b + 2) \div 3) >= 4 * b /\ (4 * b + 2) \div 3 \in Nat
  OBVIOUS
<1>9. 3 * BlindingThreshold >= 4 * Brightest /\ BlindingThreshold \in Nat
  BY <1>7, <1>8 DEF BlindingThreshold
<1>10. \A a, b, s \in Nat : a <= b /\ t >= s /\ 3 * s >= 4 * b => ~(4 * a > 3 * t)
  OBVIOUS
<1>11. t >= BlindingThreshold => ~(4 * v > 3 * t)
  BY <1>6, <1>7, <1>9, <1>10
<1> QED BY <1>9, <1>11 DEF IsBright, v

\* Nor is any byte at all, if the layouts of the camera can be confused.
LEMMA BlindedBytes ==
    ASSUME ~OneLayoutPerWidth, NEW i \in UInt8, NEW t \in Nat
    PROVE  /\ BlindingThreshold \in Nat
           /\ t >= BlindingThreshold => ~IsBright(i, t)
<1>1. BlindingThreshold = 340
  BY DEF BlindingThreshold, Brightest
<1> QED BY <1>1 DEF IsBright, UInt8

\* The detector is blind, no event is under way and k were counted.  A camera
\* that delivers nothing has no brightest sample.
Blind(k) ==
    /\ Frames # {} => Threshold >= BlindingThreshold
    /\ ~HandlingEvent
    /\ queuePC = "scan" => numBrightPixels = 0
    /\ numEvents = k

LEMMA NextBlind ==
    ASSUME NEW k
    PROVE  TypeInv /\ ScanInv /\ CountInv /\ Blind(k) /\ [Next]_vars => Blind(k)'
<1> SUFFICES ASSUME TypeInv, ScanInv, CountInv, Blind(k), [Next]_vars
             PROVE  Blind(k)'
  OBVIOUS
<1> USE DEF viewVars, mainVars, scanVars, cacheVars, lossVars, fluxVars
<1>1. /\ Threshold \in Nat /\ Threshold' \in Nat /\ Threshold <= Threshold'
      /\ numBrightPixels \in Nat
  BY ThresholdNeverLowered DEF TypeInv, TypeOK
<1>2. /\ Frames # {} => Threshold' >= BlindingThreshold
      /\ BlindingThreshold' = BlindingThreshold
  <2>1. ASSUME NEW f \in Frames PROVE BlindingThreshold \in Nat
    <3>1. <<0, 0>> \in SampledPoints(f)
      BY FramesAssumption DEF SampledPoints, Strided, pixelsToSkip
    <3>2. 0 \in UInt8
      BY DEF UInt8
    <3> QED BY <1>1, <3>1, <3>2, BlindedSamples, BlindedBytes
  <2>2. Frames # {} => Threshold' >= BlindingThreshold
    BY <1>1, <2>1 DEF Blind
  <2> QED BY <2>2 DEF BlindingThreshold, Brightest, Samples
<1>3. CASE scanPixel
  <2>1. /\ frame \in Frames /\ queuePC = "scan"
        /\ y < geometry.height /\ x < geometry.width
        /\ x \in Nat /\ y \in Nat /\ x % 2 = 0 /\ y % 2 = 0
        /\ OneLayoutPerWidth => geometry = GeometryOf(frame)
        /\ Threshold >= BlindingThreshold
    BY <1>3 DEF TypeInv, TypeOK, ScanInv, CountInv, scanPixel, pixelsToSkip,
                Blind
  <2> DEFINE i == Index(x, y, geometry.bytesPerRow)
  <2>2. ASSUME NEW v \in Loaded(frame.buffer, i)
        PROVE  ~IsBright(v, Threshold)
    <3>1. CASE ~OneLayoutPerWidth
      <4>1. v \in UInt8
        BY <2>1, ScanLoads
      <4> QED BY <1>1, <2>1, <3>1, <4>1, BlindedBytes
    <3>2. CASE OneLayoutPerWidth
      <4>1. /\ geometry.width = frame.width /\ geometry.height = frame.height
            /\ geometry.bytesPerRow = frame.bytesPerRow
            /\ frame.width \in Nat /\ frame.height \in Nat
        BY <2>1, <3>2, FramesAssumption DEF GeometryOf
      <4>2. PICK p \in SampledPoints(frame) : p[1] = x /\ p[2] = y
        <5>1. <<x, y>> \in SampledPoints(frame)
          BY <2>1, <4>1 DEF SampledPoints, Strided, pixelsToSkip
        <5> QED BY <5>1
      <4>3. ~IsBright(frame.buffer[p[1] + p[2] * frame.bytesPerRow], Threshold)
        BY <1>1, <2>1, <3>2, BlindedSamples
      <4>4. v = frame.buffer[i]
        BY <2>1, <3>2, ScanLoads
      <4> QED BY <4>1, <4>2, <4>3, <4>4 DEF Index
    <3> QED BY <3>1, <3>2
  <2> HIDE DEF i
  <2>3. PICK v \in Loaded(frame.buffer, i) :
          numBrightPixels' = IF IsBright(v, Threshold) THEN numBrightPixels + 1
                                                       ELSE numBrightPixels
    BY <1>3 DEF scanPixel, Threshold, i
  <2>4. numBrightPixels' = 0 /\ queuePC' = "scan" /\ numEvents' = numEvents
          /\ intensityThreshholds' = intensityThreshholds
    BY <1>3, <2>1, <2>2, <2>3 DEF scanPixel, Blind
  <2> QED BY <1>1, <1>2, <2>4
          DEF Blind, HandlingEvent, Threshold, getIntensityThreshold
<1>4. CASE countEvent
  BY <1>4 DEF countEvent, ScanFinished, IsRay, minRaySize, Blind
<1>5. CASE /\ queuePC' \in {"flux", "dispatch"} => HandlingEvent
           /\ queuePC' = "scan" => numBrightPixels' = 0
           /\ numEvents' = numEvents
  BY <1>2, <1>5 DEF Blind, HandlingEvent
<1>6. CASE captureOutput \/ ignoreFrame
  BY <1>5, <1>6 DEF captureOutput, ignoreFrame
<1>7. CASE renderImage \/ dispatchBlock
  BY <1>7 DEF renderImage, dispatchBlock, Blind, HandlingEvent
<1>10. CASE UpdateFlux
  BY <1>5, <1>10, OnlyFluxChanges DEF Blind, HandlingEvent
<1>8. CASE viewDidLoad \/ viewDidAppear \/ stopCollectingDidTap
             \/ updateThreshold \/ updateThresholdDecide \/ recordDetection
  BY <1>5, <1>8 DEF viewDidLoad, viewDidAppear, stopCollectingDidTap,
     updateThreshold, updateThresholdDecide, recordDetection, Blind,
     HandlingEvent
<1>9. CASE Camera \/ Tick \/ UNCHANGED vars
  BY <1>5, <1>9 DEF Camera, deliverFrame, discardLateFrame, Tick, vars, Blind,
     HandlingEvent
<1> QED BY <1>3, <1>4, <1>6, <1>7, <1>8, <1>9, <1>10
        DEF Next, MainThread, ImageQueue, UpdateFlux, Threads

\* The timer only ever raises the threshold: once no sample the camera can
\* deliver is above it and no scan is under way, not one event is counted
\* for the rest of the session, whatever the camera sees.
THEOREM BlindStaysBlind == Spec => BlindForever
<1>1. Init => CountInv
  BY DEF Init, CountInv
<1>2. ASSUME NEW k \in 0..MaxFrames
      PROVE  Spec => StaysBlind(k)
  <2>1. TypeInv /\ ScanInv /\ CountInv /\ Blind(k) /\ [Next]_vars => Blind(k)'
    BY NextBlind
  <2>2. /\ Threshold >= BlindingThreshold
        /\ queuePC \in {"idle", "delivered"}
        /\ numEvents = k
        => Blind(k)
    BY DEF Blind, HandlingEvent
  <2>3. Blind(k) => numEvents = k
    BY DEF Blind
  <2> QED BY <1>1, <2>1, <2>2, <2>3, InitTypeInv, NextTypeInv, InitScanInv,
             NextScanInv, InitCopyInv, NextCopyInv, NextCountInv, PTL
             DEF Spec, StaysBlind
<1> QED BY <1>2 DEF BlindForever
=============================================================================
