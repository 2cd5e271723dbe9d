------------------------ MODULE CaptureSessionProofs ------------------------
(***************************************************************************)
(* Theorems about CaptureSession for every TIMEOUT, TIMEOUT4, --duration,   *)
(* scheduling delay, number of requests and amount of traffic.              *)
(***************************************************************************)
EXTENDS CaptureSession, TLAPS

(***************************************************************************)
(* Type correctness.                                                        *)
(***************************************************************************)
LEMMA InitTypeOK == Init => TypeOK
<1>1. Init => StateOK
  BY TimeAssumption, SessionAssumption
  DEF Init, StateOK, MainPc, CapturePc, TimerPc, LastPhase
<1>2. Init => FlagsOK
  BY DEF Init, FlagsOK
<1>3. QED
  BY <1>1, <1>2 DEF TypeOK

LEMMA MainStateOK == TypeOK /\ MainStep => StateOK'
<1> SUFFICES ASSUME TypeOK, MainStep PROVE StateOK'
  OBVIOUS
<1> USE TimeAssumption, SessionAssumption
  DEF TypeOK, StateOK, MainPc, CapturePc, TimerPc, LastPhase, clockVars, captureVars,
      timerVars, netVars, history
<1>1. CASE Launch
  BY <1>1 DEF Launch
<1>2. CASE SendRequest
  BY <1>2 DEF SendRequest, RequestLimit
<1>3. CASE SendsOver
  BY <1>3 DEF SendsOver
<1>4. CASE Join
  <2>1. mpc' \in MainPc /\ phase' \in 1..LastPhase
    BY <1>4 DEF Join, AfterJoin, NoDevices
  <2>2. QED
    BY <1>4, <2>1 DEF Join
<1>5. CASE Finalize
  BY <1>5 DEF Finalize
<1>6. QED
  BY <1>1, <1>2, <1>3, <1>4, <1>5 DEF MainStep

LEMMA CaptureStateOK == TypeOK /\ CaptureStep => StateOK'
<1> SUFFICES ASSUME TypeOK, CaptureStep PROVE StateOK'
  OBVIOUS
<1> USE TimeAssumption, SessionAssumption
  DEF TypeOK, StateOK, MainPc, CapturePc, TimerPc, LastPhase, clockVars, mainVars,
      timerVars, netVars, history
<1>1. CASE OpenAdapter
  BY <1>1 DEF OpenAdapter
<1>2. CASE StartTimer
  BY <1>2 DEF StartTimer, SetUpStamp
<1>3. CASE TakePacket
  BY <1>3 DEF TakePacket
<1>4. CASE HandlerStep
  BY <1>4 DEF HandlerStep, HandleSilently, HandleNew, HandleUpdate,
              HandleLast, Stamp
<1>5. CASE LeaveLoop
  BY <1>5 DEF LeaveLoop
<1>6. CASE CloseAdapter
  BY <1>6 DEF CloseAdapter
<1>7. QED
  BY <1>1, <1>2, <1>3, <1>4, <1>5, <1>6 DEF CaptureStep

LEMMA TimerStateOK == TypeOK /\ TimerStep => StateOK'
<1> SUFFICES ASSUME TypeOK, TimerStep PROVE StateOK'
  OBVIOUS
<1> USE TimeAssumption, SessionAssumption
  DEF TypeOK, StateOK, MainPc, CapturePc, TimerPc, LastPhase, clockVars, mainVars,
      captureVars, netVars, history
<1>1. CASE CheckDuration
  <2>1. CASE DurationElapsed
    BY <1>1, <2>1 DEF CheckDuration, Break
  <2>2. CASE ~DurationElapsed
    BY <1>1, <2>2 DEF CheckDuration
  <2>3. QED
    BY <2>1, <2>2
<1>2. CASE ReadClock
  BY <1>2 DEF ReadClock
<1>3. CASE CompareOrder
  BY <1>3 DEF CompareOrder
<1>4. CASE BreakWhenQuiet
  BY <1>4 DEF BreakWhenQuiet, Break
<1>5. CASE KeepListening
  BY <1>5 DEF KeepListening
<1>6. CASE StoreAndSleep
  BY <1>6 DEF StoreAndSleep, SleepTime
<1>7. CASE Wake
  BY <1>7 DEF Wake
<1>8. QED
  BY <1>1, <1>2, <1>3, <1>4, <1>5, <1>6, <1>7 DEF TimerStep

LEMMA NextStateOK == TypeOK /\ [Next]_vars => StateOK'
<1> SUFFICES ASSUME TypeOK, [Next]_vars PROVE StateOK'
  OBVIOUS
<1>1. CASE Arrive
  BY <1>1, SessionAssumption
  DEF Arrive, TypeOK, StateOK, CapturePc, clockVars, mainVars, timerVars,
      history
<1>2. CASE Tick
  BY <1>2, TimeAssumption
  DEF Tick, TypeOK, StateOK, captureVars, timerVars, history
<1>3. CASE UNCHANGED vars
  BY <1>3 DEF TypeOK, StateOK, vars, clockVars, mainVars, captureVars,
              timerVars, netVars, history
<1>4. QED
  BY <1>1, <1>2, <1>3, MainStateOK, CaptureStateOK, TimerStateOK
  DEF Next, Exited

\* The three flags change in five actions and nowhere else.
LEMMA NextFlagsOK == FlagsOK /\ [Next]_vars => FlagsOK'
<1> SUFFICES ASSUME FlagsOK, [Next]_vars PROVE FlagsOK'
  OBVIOUS
<1> USE DEF FlagsOK
<1>1. CASE MainStep
  BY <1>1, Zenon
  DEF MainStep, Launch, SendRequest, SendsOver, Join, Finalize
<1>2. CASE CaptureStep
  <2>1. CASE OpenAdapter \/ StartTimer \/ TakePacket
    BY <2>1, Zenon DEF OpenAdapter, StartTimer, TakePacket
  <2>2. CASE HandlerStep
    BY <2>2, Zenon
    DEF HandlerStep, HandleSilently, HandleNew, HandleUpdate, HandleLast
  <2>3. CASE LeaveLoop \/ CloseAdapter
    BY <2>3, Zenon DEF LeaveLoop, CloseAdapter
  <2>4. QED
    BY <1>2, <2>1, <2>2, <2>3 DEF CaptureStep
<1>3. CASE TimerStep
  <2>1. CASE CheckDuration
    BY <2>1, Zenon DEF CheckDuration, Break
  <2>2. CASE BreakWhenQuiet
    BY <2>2, Zenon DEF BreakWhenQuiet, Break
  <2>3. CASE ReadClock \/ CompareOrder \/ KeepListening \/ StoreAndSleep \/ Wake
    BY <2>3, Zenon
    DEF ReadClock, CompareOrder, KeepListening, StoreAndSleep, Wake
  <2>4. QED
    BY <1>3, <2>1, <2>2, <2>3 DEF TimerStep
<1>4. CASE Arrive \/ Tick
  BY <1>4, Zenon DEF Arrive, Tick
<1>5. CASE UNCHANGED vars
  BY <1>5, Zenon DEF vars
<1>6. QED
  BY <1>1, <1>2, <1>3, <1>4, <1>5 DEF Next, Exited

LEMMA NextTypeOK == TypeOK /\ [Next]_vars => TypeOK'
  BY NextStateOK, NextFlagsOK DEF TypeOK

\* Every variable of the three threads keeps its type.
THEOREM TypeCorrect == Spec => []TypeOK
  BY InitTypeOK, NextTypeOK, PTL DEF Spec

-----------------------------------------------------------------------------
(* The threads and the capture handle.                                     *)

LEMMA InitThreadInv == Init => ThreadInv
  BY DEF Init, ThreadInv, TimerAlive, TimerPc, CaptureOver

LEMMA NextThreadInv == TypeOK /\ ThreadInv /\ [Next]_vars => ThreadInv'
<1> SUFFICES ASSUME TypeOK, ThreadInv, [Next]_vars PROVE ThreadInv'
  OBVIOUS
<1> USE DEF TypeOK, StateOK, ThreadInv, TimerAlive, TimerPc, CaptureOver,
            captureVars, timerVars, mainVars
<1>1. CASE MainStep
  <2>1. CASE Launch
    BY <2>1 DEF Launch
  <2>2. CASE SendRequest \/ SendsOver
    BY <2>2 DEF SendRequest, SendsOver
  <2>3. CASE Join
    BY <2>3 DEF Join, JoinReturns
  <2>4. CASE Finalize
    BY <2>4 DEF Finalize
  <2>5. QED
    BY <1>1, <2>1, <2>2, <2>3, <2>4 DEF MainStep
<1>2. CASE CaptureStep
  <2>1. CASE OpenAdapter
    BY <2>1 DEF OpenAdapter
  <2>2. CASE StartTimer
    BY <2>2 DEF StartTimer
  <2>3. CASE TakePacket \/ LeaveLoop
    BY <2>3 DEF TakePacket, LeaveLoop
  <2>4. CASE HandlerStep
    BY <2>4
    DEF HandlerStep, HandleSilently, HandleNew, HandleUpdate, HandleLast
  <2>5. CASE CloseAdapter
    BY <2>5 DEF CloseAdapter, TimerJoined
  <2>6. QED
    BY <1>2, <2>1, <2>2, <2>3, <2>4, <2>5 DEF CaptureStep
<1>3. CASE TimerStep
  <2>1. /\ tpc \in TimerAlive
        /\ UNCHANGED <<mpc, cpc, handle>>
    BY <1>3 DEF TimerStep, CheckDuration, ReadClock, CompareOrder,
                BreakWhenQuiet, KeepListening, StoreAndSleep, Wake
  <2>2. QED
    BY <2>1
<1>4. CASE Arrive
  BY <1>4 DEF Arrive
<1>5. CASE Tick
  BY <1>5 DEF Tick
<1>6. CASE UNCHANGED vars
  BY <1>6 DEF vars
<1>7. QED
  BY <1>1, <1>2, <1>3, <1>4, <1>5, <1>6 DEF Next, Exited

LEMMA ThreadInvariant == Spec => []ThreadInv
<1>1. Init => TypeOK /\ ThreadInv
  BY InitTypeOK, InitThreadInv
<1>2. (TypeOK /\ ThreadInv) /\ [Next]_vars => (TypeOK /\ ThreadInv)'
  BY NextTypeOK, NextThreadInv
<1>3. QED
  BY <1>1, <1>2, PTL DEF Spec

\* The timer never calls pcap_breakloop on a handle that was closed.
THEOREM TimerHandleSafe == Spec => []TimerOwnsOpenHandle
<1>1. ThreadInv => TimerOwnsOpenHandle
  BY DEF ThreadInv, TimerOwnsOpenHandle
<1>2. QED
  BY <1>1, ThreadInvariant, PTL

\* No thread of a phase is alive once main has joined its sniffer.
THEOREM ThreadsJoined == Spec => []NoThreadOutlivesJoin
<1>1. ThreadInv => NoThreadOutlivesJoin
  BY DEF ThreadInv, NoThreadOutlivesJoin, CaptureOver
<1>2. QED
  BY <1>1, ThreadInvariant, PTL

-----------------------------------------------------------------------------
(* The end of a capture for quietness.                                     *)

LEMMA InitStampInv == Init => StampInv
  BY DEF Init, StampInv

LEMMA NextStampInv == TypeOK /\ ThreadInv /\ StampInv /\ [Next]_vars => StampInv'
<1> SUFFICES ASSUME TypeOK, ThreadInv, StampInv, [Next]_vars PROVE StampInv'
  OBVIOUS
<1> USE TimeAssumption
    DEF TypeOK, StateOK, StampInv, captureVars, timerVars, mainVars, history,
        clockVars
<1>1. CASE MainStep
  BY <1>1 DEF MainStep, Launch, SendRequest, SendsOver, Join, Finalize
<1>2. CASE CaptureStep
  <2>1. CASE StartTimer
    BY <2>1 DEF StartTimer, SetUpStamp, ThreadInv, TimerAlive, TimerPc
  <2>2. CASE OpenAdapter \/ TakePacket \/ HandleSilently \/ LeaveLoop
               \/ CloseAdapter
    BY <2>2
    DEF OpenAdapter, TakePacket, HandleSilently, LeaveLoop, CloseAdapter
  <2>3. CASE HandleNew \/ HandleUpdate \/ HandleLast
    BY <2>3 DEF HandleNew, HandleUpdate, HandleLast, Stamp
  <2>4. QED
    BY <1>2, <2>1, <2>2, <2>3 DEF CaptureStep, HandlerStep
<1>3. CASE TimerStep
  <2>1. CASE CheckDuration
    BY <2>1 DEF CheckDuration, Break
  <2>2. CASE ReadClock
    BY <2>2 DEF ReadClock
  <2>3. CASE CompareOrder
    BY <2>3 DEF CompareOrder
  <2>4. CASE BreakWhenQuiet \/ KeepListening
    BY <2>4 DEF BreakWhenQuiet, KeepListening, Break
  <2>5. CASE StoreAndSleep
    BY <2>5 DEF StoreAndSleep, SleepTime
  <2>6. CASE Wake
    BY <2>6 DEF Wake
  <2>7. QED
    BY <1>3, <2>1, <2>2, <2>3, <2>4, <2>5, <2>6 DEF TimerStep
<1>4. CASE Arrive
  BY <1>4 DEF Arrive
<1>5. CASE Tick
  BY <1>5 DEF Tick
<1>6. CASE UNCHANGED vars
  BY <1>6 DEF vars
<1>7. QED
  BY <1>1, <1>2, <1>3, <1>4, <1>5, <1>6 DEF Next, Exited

\* The unsigned difference of two readings in order is at most the difference.
LEMMA ElapsedAtMost ==
  ASSUME TypeOK, NEW from \in Nat, from <= t2
  PROVE  Elapsed(from) \in Nat /\ Elapsed(from) <= t2 - from
  BY TimeAssumption DEF TypeOK, StateOK, Elapsed

\* If no answer was stamped since the timer read the clock, timeDiff compared
\* one value of t1_G, and it was long ago.
LEMMA BreakCompares ==
  ASSUME TypeOK, StampInv, BreakWhenQuiet, answeredAt < t2
  PROVE  t1 <= t2 /\ t2 - t1 > Timeout4
<1>1. tpc = "second" /\ \E from \in Loads : Elapsed(from) > Timeout4
  BY DEF BreakWhenQuiet
<1>2. t2 > seen /\ seen = t1
  BY <1>1 DEF StampInv, TypeOK, StateOK
<1>3. Elapsed(t1) > Timeout4
  BY <1>1, <1>2 DEF Loads
<1>4. QED
  BY <1>2, <1>3, ElapsedAtMost, TimeAssumption DEF TypeOK, StateOK

\* Whatever timeDiff loads and stores, a capture that it ends has been quiet.
THEOREM QuietEnd == Spec => QuietBreakIsQuiet
<1>1. TypeOK /\ StampInv /\ [Next]_vars
        => [BreakWhenQuiet => answeredAt >= t2 \/ t2 - answeredAt > Timeout4]_vars
  <2> SUFFICES ASSUME TypeOK, StampInv, BreakWhenQuiet, answeredAt < t2
               PROVE  t2 - answeredAt > Timeout4
    BY DEF TypeOK, StateOK
  <2>1. t1 <= t2 /\ t2 - t1 > Timeout4 /\ tpc = "second"
    BY BreakCompares DEF BreakWhenQuiet
  <2>2. QED
    BY <2>1, TimeAssumption DEF TypeOK, StateOK, StampInv
<1>2. (TypeOK /\ ThreadInv /\ StampInv) /\ [Next]_vars
        => (TypeOK /\ ThreadInv /\ StampInv)'
  BY NextTypeOK, NextThreadInv, NextStampInv
<1>3. Init => TypeOK /\ ThreadInv /\ StampInv
  BY InitTypeOK, InitThreadInv, InitStampInv
<1>4. QED
  BY <1>1, <1>2, <1>3, PTL DEF Spec, QuietBreakIsQuiet

LEMMA NextRoundInv ==
  TypeOK /\ ThreadInv /\ StampInv /\ RoundInv /\ [Next]_vars => RoundInv'
<1> SUFFICES ASSUME TypeOK, ThreadInv, StampInv, RoundInv, [Next]_vars
             PROVE  RoundInv'
  OBVIOUS
<1> USE TimeAssumption
    DEF TypeOK, StateOK, RoundInv, TimerAlive, TimerPc, captureVars, timerVars,
        mainVars, history, clockVars
<1>1. CASE MainStep
  BY <1>1 DEF MainStep, Launch, SendRequest, SendsOver, Join, Finalize
<1>2. CASE CaptureStep
  <2>1. CASE StartTimer
    BY <2>1 DEF StartTimer, SetUpStamp, ThreadInv
  <2>2. CASE OpenAdapter \/ TakePacket \/ HandleSilently \/ LeaveLoop
               \/ CloseAdapter
    BY <2>2
    DEF OpenAdapter, TakePacket, HandleSilently, LeaveLoop, CloseAdapter
  <2>3. CASE HandleNew \/ HandleUpdate \/ HandleLast
    BY <2>3 DEF HandleNew, HandleUpdate, HandleLast, Stamp, StampInv
  <2>4. QED
    BY <1>2, <2>1, <2>2, <2>3 DEF CaptureStep, HandlerStep
<1>3. CASE TimerStep
  <2>1. CASE CheckDuration
    BY <2>1 DEF CheckDuration, Break
  <2>2. CASE ReadClock
    BY <2>2 DEF ReadClock, StampInv
  <2>3. CASE CompareOrder
    BY <2>3 DEF CompareOrder
  <2>4. CASE BreakWhenQuiet \/ KeepListening
    BY <2>4 DEF BreakWhenQuiet, KeepListening, Break
  <2>5. CASE StoreAndSleep
    BY <2>5 DEF StoreAndSleep, SleepTime, StampInv
  <2>6. CASE Wake
    BY <2>6 DEF Wake
  <2>7. QED
    BY <1>3, <2>1, <2>2, <2>3, <2>4, <2>5, <2>6 DEF TimerStep
<1>4. CASE Arrive
  BY <1>4 DEF Arrive
<1>5. CASE Tick
  BY <1>5 DEF Tick, Due, TimerDue
<1>6. CASE UNCHANGED vars
  BY <1>6 DEF vars
<1>7. QED
  BY <1>1, <1>2, <1>3, <1>4, <1>5, <1>6 DEF Next, Exited

LEMMA RoundInvariant == Spec => [](TypeOK /\ ThreadInv /\ StampInv /\ RoundInv)
<1>1. Init => TypeOK /\ ThreadInv /\ StampInv /\ RoundInv
  BY InitTypeOK, InitThreadInv, InitStampInv, TimeAssumption
  DEF Init, RoundInv, TimerAlive, TimerPc
<1>2. (TypeOK /\ ThreadInv /\ StampInv /\ RoundInv) /\ [Next]_vars
        => (TypeOK /\ ThreadInv /\ StampInv /\ RoundInv)'
  BY NextTypeOK, NextThreadInv, NextStampInv, NextRoundInv
<1>3. QED
  BY <1>1, <1>2, PTL DEF Spec

\* A capture that is ended for quietness, and not by a stamp that came between
\* two loads, has listened for one TIMEOUT.
THEOREM ListensLongEnough == Spec => ListensOneTimeout
<1>1. TypeOK /\ StampInv /\ RoundInv /\ [Next]_vars
        => [BreakWhenQuiet => now - openedAt >= Timeout \/ answeredAt >= t2]_vars
  <2> SUFFICES ASSUME TypeOK, StampInv, RoundInv, BreakWhenQuiet, answeredAt < t2
               PROVE  now - openedAt >= Timeout
    BY DEF TypeOK, StateOK
  <2>1. t1 <= t2 /\ t2 - t1 > Timeout4 /\ tpc = "second"
    BY BreakCompares DEF BreakWhenQuiet
  <2>2. openedAt <= t1 /\ t2 <= now
    BY <2>1 DEF RoundInv, StampInv, TimerAlive, TimerPc
  <2>3. ~(now <= openedAt + late)
    BY <2>1, <2>2, TimeAssumption DEF TypeOK, StateOK, RoundInv
  <2>4. QED
    BY <2>1, <2>3, TimeAssumption
    DEF TypeOK, StateOK, RoundInv, TimerAlive, TimerPc
<1>2. QED
  BY <1>1, RoundInvariant, PTL DEF Spec, ListensOneTimeout

-----------------------------------------------------------------------------
(* --duration.                                                             *)

LEMMA NextOverrunInv ==
  TypeOK /\ ThreadInv /\ RoundInv /\ OverrunInv /\ [Next]_vars => OverrunInv'
<1> SUFFICES ASSUME TypeOK, ThreadInv, RoundInv, OverrunInv, [Next]_vars
             PROVE  OverrunInv'
  OBVIOUS
<1> USE TimeAssumption
    DEF TypeOK, StateOK, OverrunInv, TimerAlive, TimerPc, captureVars,
        timerVars, mainVars, history, clockVars
<1>1. CASE MainStep
  BY <1>1 DEF MainStep, Launch, SendRequest, SendsOver, Join, Finalize
<1>2. CASE CaptureStep
  <2>1. CASE StartTimer
    BY <2>1 DEF StartTimer, SetUpStamp
  <2>2. CASE OpenAdapter
    BY <2>2 DEF OpenAdapter
  <2>3. CASE TakePacket \/ LeaveLoop \/ CloseAdapter
    BY <2>3 DEF TakePacket, LeaveLoop, CloseAdapter
  <2>4. CASE HandleSilently \/ HandleNew \/ HandleUpdate
    BY <2>4 DEF HandleSilently, HandleNew, HandleUpdate
  <2>5. CASE HandleLast
    BY <2>5 DEF HandleLast
  <2>6. QED
    BY <1>2, <2>1, <2>2, <2>3, <2>4, <2>5 DEF CaptureStep, HandlerStep
<1>3. CASE TimerStep
  <2>1. CASE CheckDuration
    <3>1. CASE DurationElapsed
      BY <2>1, <3>1 DEF CheckDuration, Break, ThreadInv
    <3>2. CASE ~DurationElapsed
      BY <2>1, <3>2 DEF CheckDuration, DurationElapsed
    <3>3. QED
      BY <3>1, <3>2
  <2>2. CASE ReadClock \/ CompareOrder \/ KeepListening
    BY <2>2 DEF ReadClock, CompareOrder, KeepListening
  <2>3. CASE BreakWhenQuiet
    BY <2>3 DEF BreakWhenQuiet, Break, ThreadInv
  <2>4. CASE StoreAndSleep
    BY <2>4 DEF StoreAndSleep, SleepTime, RoundInv
  <2>5. CASE Wake
    BY <2>5 DEF Wake, RoundInv
  <2>6. QED
    BY <1>3, <2>1, <2>2, <2>3, <2>4, <2>5 DEF TimerStep
<1>4. CASE Arrive
  BY <1>4 DEF Arrive
<1>5. CASE Tick
  BY <1>5 DEF Tick, Due, TimerDue
<1>6. CASE UNCHANGED vars
  BY <1>6 DEF vars
<1>7. QED
  BY <1>1, <1>2, <1>3, <1>4, <1>5, <1>6 DEF Next, Exited

\* How long after --duration a capture may still be running.
THEOREM OverrunIsBounded == Spec => []OverrunBounded
<1>1. Init => OverrunInv
  BY DEF Init, OverrunInv, TimerAlive, TimerPc
<1>2. TypeOK /\ RoundInv /\ OverrunInv => OverrunBounded
  BY TimeAssumption
  DEF TypeOK, StateOK, RoundInv, OverrunInv, OverrunBounded, TimerAlive, TimerPc
<1>3. QED
  BY <1>1, <1>2, NextOverrunInv, RoundInvariant, PTL DEF Spec

\* The clock never goes back, and only an elapsed --duration sets stop.
LEMMA StopStep ==
  ASSUME TypeOK, [Next]_vars
  PROVE  /\ now' \in Nat /\ now' >= now
         /\ stop' = stop \/ DurationElapsed
<1>1. now' = now \/ now' = now + 1
  <2>1. CASE MainStep
    BY <2>1 DEF MainStep, Launch, SendRequest, SendsOver, Join, Finalize,
                clockVars
  <2>2. CASE CaptureStep
    BY <2>2 DEF CaptureStep, HandlerStep, OpenAdapter, StartTimer, TakePacket,
                HandleSilently, HandleNew, HandleUpdate, HandleLast, LeaveLoop,
                CloseAdapter, clockVars
  <2>3. CASE TimerStep
    BY <2>3 DEF TimerStep, CheckDuration, ReadClock, CompareOrder,
                BreakWhenQuiet, KeepListening, StoreAndSleep, Wake, clockVars
  <2>4. CASE Arrive \/ Tick
    BY <2>4 DEF Arrive, Tick, clockVars
  <2>5. CASE UNCHANGED vars
    BY <2>5 DEF vars, clockVars
  <2>6. QED
    BY <2>1, <2>2, <2>3, <2>4, <2>5 DEF Next, Exited
<1>2. stop' = stop \/ DurationElapsed
  <2>1. CASE MainStep
    BY <2>1, Zenon DEF MainStep, Launch, SendRequest, SendsOver, Join, Finalize
  <2>2. CASE CaptureStep
    BY <2>2, Zenon DEF CaptureStep, HandlerStep, OpenAdapter, StartTimer,
                TakePacket, HandleSilently, HandleNew, HandleUpdate,
                HandleLast, LeaveLoop, CloseAdapter
  <2>3. CASE TimerStep
    BY <2>3, Zenon DEF TimerStep, CheckDuration, ReadClock, CompareOrder,
                BreakWhenQuiet, KeepListening, StoreAndSleep, Wake
  <2>4. CASE Arrive \/ Tick
    BY <2>4, Zenon DEF Arrive, Tick
  <2>5. CASE UNCHANGED vars
    BY <2>5, Zenon DEF vars
  <2>6. QED
    BY <2>1, <2>2, <2>3, <2>4, <2>5 DEF Next, Exited
<1>3. QED
  BY <1>1, <1>2 DEF TypeOK, StateOK

\* The scan is not stopped before its time.
THEOREM NotStoppedEarly == Spec => []StopsNotEarly
<1>1. Init => StopsNotEarly
  BY DEF Init, StopsNotEarly
<1>2. ASSUME TypeOK, StopsNotEarly, [Next]_vars
      PROVE  StopsNotEarly'
  <2>1. CASE DurationElapsed
    <3>1. now' \in Nat /\ now' >= now
      BY <1>2, StopStep
    <3>2. Duration > 0 /\ now' >= Duration
      BY <1>2, <2>1, <3>1, TimeAssumption DEF DurationElapsed, TypeOK, StateOK
    <3>3. QED
      BY <3>2 DEF StopsNotEarly
  <2>2. CASE stop' = stop /\ stop
    <3>1. Duration > 0 /\ now >= Duration
      BY <1>2, <2>2, Zenon DEF StopsNotEarly
    <3>2. now' \in Nat /\ now' >= now
      BY <1>2, StopStep
    <3>3. Duration > 0 /\ now' >= Duration
      BY <1>2, <3>1, <3>2, TimeAssumption DEF TypeOK, StateOK
    <3>4. QED
      BY <3>3 DEF StopsNotEarly
  <2>3. CASE stop' = stop /\ ~stop
    BY <2>3, Zenon DEF StopsNotEarly
  <2>4. QED
    BY <1>2, <2>1, <2>2, <2>3, StopStep
<1>3. QED
  BY <1>1, <1>2, TypeCorrect, PTL DEF Spec

\* A stop asked for by a running timer finds main inside a phase, and the join
\* that ends the phase sees it.
LEMMA NextStopInv ==
  TypeOK /\ ThreadInv /\ StopInv /\ [Next]_vars => StopInv'
<1> SUFFICES ASSUME TypeOK, ThreadInv, StopInv, [Next]_vars, stop'
             PROVE  mpc' # "launch"
  BY Zenon DEF StopInv
<1>1. CASE MainStep
  <2>1. stop' = stop
    BY <1>1, Zenon DEF MainStep, Launch, SendRequest, SendsOver, Join, Finalize
  <2>2. CASE Join
    <3>1. mpc' = AfterJoin /\ stop
      BY <2>1, <2>2 DEF Join
    <3>2. QED
      BY <3>1 DEF AfterJoin
  <2>3. CASE Launch \/ SendRequest \/ SendsOver \/ Finalize
    BY <2>3 DEF Launch, SendRequest, SendsOver, Finalize
  <2>4. QED
    BY <1>1, <2>2, <2>3 DEF MainStep
<1>2. CASE CheckDuration
  BY <1>2 DEF CheckDuration, ThreadInv, TimerAlive, TimerPc, CaptureOver,
              mainVars
<1>3. CASE (CaptureStep \/ (TimerStep /\ ~CheckDuration) \/ Arrive \/ Tick
              \/ UNCHANGED vars)
  <2>1. stop' = stop
    BY <1>3, Zenon
    DEF CaptureStep, HandlerStep, OpenAdapter, StartTimer, TakePacket,
        HandleSilently, HandleNew, HandleUpdate, HandleLast, LeaveLoop,
        CloseAdapter, TimerStep, ReadClock, CompareOrder, BreakWhenQuiet,
        KeepListening, StoreAndSleep, Wake, Arrive, Tick, vars
  <2>2. mpc' = mpc
    BY <1>3, Zenon
    DEF CaptureStep, HandlerStep, OpenAdapter, StartTimer, TakePacket,
        HandleSilently, HandleNew, HandleUpdate, HandleLast, LeaveLoop,
        CloseAdapter, TimerStep, ReadClock, CompareOrder, BreakWhenQuiet,
        KeepListening, StoreAndSleep, Wake, Arrive, Tick, vars, mainVars
  <2>3. QED
    BY <2>1, <2>2 DEF StopInv
<1>4. QED
  BY <1>1, <1>2, <1>3 DEF Next, Exited, TimerStep

\* Only Launch brings a sniffer to its opening.
LEMMA OpenedByLaunch ==
  ASSUME [Next]_vars, cpc' = "opening", cpc # "opening"
  PROVE  mpc = "launch"
<1>1. CASE MainStep
  BY <1>1 DEF MainStep, Launch, SendRequest, SendsOver, Join, Finalize,
              captureVars
<1>2. CASE CaptureStep
  BY <1>2 DEF CaptureStep, HandlerStep, OpenAdapter, StartTimer, TakePacket,
              HandleSilently, HandleNew, HandleUpdate, HandleLast, LeaveLoop,
              CloseAdapter
<1>3. CASE TimerStep
  BY <1>3 DEF TimerStep, CheckDuration, ReadClock, CompareOrder,
              BreakWhenQuiet, KeepListening, StoreAndSleep, Wake, captureVars
<1>4. CASE Arrive \/ Tick \/ UNCHANGED vars
  BY <1>4 DEF Arrive, Tick, vars, captureVars
<1>5. QED
  BY <1>1, <1>2, <1>3, <1>4 DEF Next, Exited

\* A stop is final: no later phase opens the adapter.
THEOREM StopStands == Spec => StopIsFinal
<1>1. Init => StopInv
  BY DEF Init, StopInv
<1>2. StopInv /\ [Next]_vars => (stop => (cpc' = "opening" => cpc = "opening"))
  BY OpenedByLaunch DEF StopInv
<1>3. QED
  BY <1>1, <1>2, NextStopInv, ThreadInvariant, TypeCorrect, PTL
  DEF Spec, StopIsFinal

=============================================================================
