----------------------------- MODULE ScanProofs -----------------------------
(***************************************************************************)
(* Scan keeps to both of its parts: what is proved of each holds of it.  With *)
(* that, what a device says in time reaches its node.                        *)
(***************************************************************************)
EXTENDS Scan, TLAPS

-----------------------------------------------------------------------------
(* The session.                                                            *)

LEMMA SessionInit == Init => S!Init
  BY DEF Init, Found

\* Only the first node's publication is a step of the list alone, and it is not
\* found before it is filled.
LEMMA FirstNotFound == LinkFirst => UNCHANGED <<sessionVars, Len(buffer), Found>>
<1> SUFFICES ASSUME LinkFirst PROVE UNCHANGED <<sessionVars, Len(buffer), Found>>
  OBVIOUS
<1>1. hpc' = "creating"
  BY DEF LinkFirst, L!ListSender, L!PublishFirst, L!Append1
<1>2. ~Found /\ ~Found'
  BY <1>1 DEF LinkFirst, Found
<1> QED
  BY <1>2 DEF LinkFirst, sessionVars, Found

\* Every step of the scan is one of the session, or leaves all of it alone.
LEMMA SessionStep == [Next]_vars => [S!Next]_(S!vars)
<1> SUFFICES ASSUME [Next]_vars PROVE [S!Next]_(S!vars)
  OBVIOUS
<1> DEFINE Same == UNCHANGED <<sessionVars, Len(buffer), Found>>
<1>0. Same => UNCHANGED S!vars
  BY DEF sessionVars, S!vars, S!clockVars, S!mainVars, S!captureVars,
         S!timerVars, S!netVars, S!history
<1>1. CASE UNCHANGED vars
  <2>1. Same
    BY <1>1 DEF vars, sessionVars, listVars, Found
  <2> QED
    BY <2>1, <1>0
<1>2. CASE Launch \/ SendRequest \/ SendsOver \/ Join
  BY <1>2 DEF Launch, SendRequest, SendsOver, Join, S!Next, S!MainStep
<1>3. CASE Answer
  <2>1. S!Arrive \/ Same
    BY <1>3 DEF Answer, sessionVars, listVars, Found
  <2> QED
    BY <2>1, <1>0 DEF S!Next
<1>4. CASE LinkFirst
  BY <1>4, FirstNotFound, <1>0
<1>5. CASE SetUp \/ TakePacket \/ LeaveLoop \/ CloseAdapter
  BY <1>5 DEF SetUp, TakePacket, LeaveLoop, CloseAdapter, S!Next, S!CaptureStep
<1>6. CASE FillFirst \/ HandleIdentify \/ HandleUnknown \/ HandleDescription
             \/ HandleSilently
  BY <1>6 DEF FillFirst, HandleIdentify, HandleUnknown, HandleDescription,
              HandleSilently, S!Next, S!CaptureStep, S!HandlerStep
<1>7. CASE TimerStep \/ Tick
  BY <1>7 DEF TimerStep, Tick, S!Next, S!TimerStep
<1>8. CASE Exited
  BY <1>8, <1>1 DEF Exited
<1> QED
  BY <1>1, <1>2, <1>3, <1>4, <1>5, <1>6, <1>7, <1>8 DEF Next

(***************************************************************************)
(* Every behaviour of the scan is one of the session's: the only step of a  *)
(* handler that the session does not see is that threadData->first is set   *)
(* before the node is filled (packetCapture.c:303-322), and an answer that  *)
(* finds adhandle closed or its buffer full is none of its packets.         *)
(***************************************************************************)
THEOREM ImplementsSession == Spec => S!Spec
<1> QED
  BY SessionInit, SessionStep, PTL DEF Spec, S!Spec

-----------------------------------------------------------------------------
(* The list.                                                               *)

\* The sniffer holds nothing but answers of the devices.
BufferInv ==
  /\ buffer \in Seq(L!Answers)
  /\ cpc = "handling" => packet \in L!Answers

LEMMA ListInit == Init => L!Init /\ BufferInv
  BY DEF Init, S!Init, BufferInv

\* What is captured, taken or given back keeps to that.
LEMMA BufferStep == BufferInv /\ [Next]_vars => BufferInv'
<1> SUFFICES ASSUME BufferInv, [Next]_vars PROVE BufferInv'
  OBVIOUS
<1> USE DEF BufferInv
<1>1. CASE UNCHANGED vars
  BY <1>1 DEF vars, sessionVars
<1>2. CASE Launch \/ SendRequest \/ SendsOver \/ Join
  BY <1>2 DEF Launch, SendRequest, SendsOver, Join, history, S!Launch,
              S!SendRequest, S!SendsOver, S!Join, S!captureVars
<1>3. CASE Answer
  BY <1>3 DEF Answer, S!Arrive, sessionVars
<1>4. CASE TakePacket
  BY <1>4 DEF TakePacket, S!TakePacket
<1>5. CASE LinkFirst
  BY <1>5 DEF LinkFirst, sessionVars
<1>6. CASE SetUp \/ LeaveLoop \/ CloseAdapter
  <2>1. buffer' = buffer \/ buffer' = <<>>
    BY <1>6 DEF SetUp, LeaveLoop, CloseAdapter
  <2>2. cpc' # "handling"
    BY <1>6 DEF SetUp, LeaveLoop, CloseAdapter, S!OpenAdapter, S!StartTimer,
                S!LeaveLoop, S!CloseAdapter
  <2>3. <<>> \in Seq(L!Answers)
    OBVIOUS
  <2> QED
    BY <2>1, <2>2, <2>3
<1>7. CASE FillFirst \/ HandleIdentify \/ HandleUnknown \/ HandleDescription
             \/ HandleSilently
  BY <1>7 DEF FillFirst, HandleIdentify, HandleUnknown, HandleDescription,
              HandleSilently, Handled, S!HandleNew, S!HandleUpdate, S!HandleLast,
              S!HandleSilently
<1>8. CASE TimerStep
  BY <1>8 DEF TimerStep, S!BreakWhenQuiet, S!CheckDuration, S!ReadClock,
              S!CompareOrder, S!KeepListening, S!StoreAndSleep, S!Wake,
              S!captureVars
<1>9. CASE Tick
  BY <1>9 DEF Tick, S!Tick, S!captureVars
<1>10. CASE Exited
  BY <1>10, <1>1 DEF Exited
<1> QED
  BY <1>1, <1>2, <1>3, <1>4, <1>5, <1>6, <1>7, <1>8, <1>9, <1>10 DEF Next

\* Every step of the scan is one of the list, or leaves all of it alone.
LEMMA ListStep == BufferInv /\ [Next]_vars => [L!Next]_(L!vars)
<1> SUFFICES ASSUME BufferInv, [Next]_vars PROVE [L!Next]_(L!vars)
  OBVIOUS
<1> DEFINE Same == UNCHANGED <<listVars, mpc, phase, sent>>
<1>0. Same => UNCHANGED L!vars
  BY DEF listVars, L!vars, L!mainVars, L!netVars
<1>1. CASE UNCHANGED vars
  <2>1. Same
    BY <1>1 DEF vars, sessionVars
  <2> QED
    BY <2>1, <1>0
<1>2. CASE Launch \/ SendRequest \/ SendsOver \/ Join
  BY <1>2 DEF Launch, SendRequest, SendsOver, Join, L!Next, L!MainStep
<1>3. CASE Answer
  <2>1. Same
    BY <1>3 DEF Answer, S!Arrive, S!mainVars, sessionVars
  <2> QED
    BY <2>1, <1>0
<1>4. CASE SetUp \/ TakePacket \/ CloseAdapter
  <2>1. Same
    BY <1>4 DEF SetUp, TakePacket, CloseAdapter, S!OpenAdapter, S!StartTimer,
                S!TakePacket, S!CloseAdapter, S!mainVars
  <2> QED
    BY <2>1, <1>0
<1>5. CASE LinkFirst \/ HandleIdentify \/ HandleUnknown \/ HandleDescription
  <2>1. packet \in L!Answers
    BY <1>5
    DEF LinkFirst, HandleIdentify, HandleUnknown, HandleDescription, BufferInv
  <2> QED
    BY <2>1, <1>5
    DEF LinkFirst, HandleIdentify, HandleUnknown, HandleDescription,
         L!HandleIdentify, L!HandleUnknown, L!HandleDescription, L!Next, L!HandlerStep
<1>6. CASE FillFirst
  BY <1>6 DEF FillFirst, L!Next, L!HandlerStep
<1>7. CASE HandleSilently
  <2>1. Same
    BY <1>7 DEF HandleSilently, S!HandleSilently, S!mainVars
  <2> QED
    BY <2>1, <1>0
<1>8. CASE LeaveLoop
  <2>1. L!EndCapture \/ Same
    BY <1>8 DEF LeaveLoop, S!LeaveLoop, S!mainVars
  <2> QED
    BY <2>1, <1>0 DEF L!Next
<1>9. CASE TimerStep \/ Tick
  <2>1. Same
    BY <1>9 DEF TimerStep, Tick, S!Tick, S!BreakWhenQuiet, S!CheckDuration,
         S!ReadClock, S!CompareOrder, S!KeepListening, S!StoreAndSleep, S!Wake,
         S!mainVars, listVars
  <2> QED
    BY <2>1, <1>0
<1>10. CASE Exited
  BY <1>10, <1>1 DEF Exited
<1> QED
  BY <1>1, <1>2, <1>3, <1>4, <1>5, <1>6, <1>7, <1>8, <1>9, <1>10 DEF Next

(***************************************************************************)
(* Every behaviour of the scan is one of the list's: what is captured waits  *)
(* in libpcap's buffer for the handler of a phase and is still an answer to  *)
(* a request that was sent, and pcap_loop returns, broken by the timer or by *)
(* a handler, where DeviceList lets a capture end (packetCapture.c:678, 768). *)
(***************************************************************************)
THEOREM ImplementsList == Spec => L!Spec
<1> QED
  BY ListInit, BufferStep, ListStep, PTL DEF Spec, L!Spec

-----------------------------------------------------------------------------
(* What is proved of the parts holds here.  S and SP are the same            *)
(* definitions, the latter with the theorems about them; so are L and LP.    *)

SP == INSTANCE CaptureSessionProofs WITH
        queue <- Len(buffer), found <- Found, Answers <- Budget,
        Duration <- 0, Endless <- FALSE, MayFail <- FALSE

LP == INSTANCE DeviceListProofs WITH k <- sent, Targets <- <<Junk>>

\* The session's steps are those that CaptureSessionProofs is about.
LEMMA SessionSame == S!Spec => SP!Spec
<1>1. S!Init => SP!Init
  BY DEF S!Init, SP!Init
<1>2. S!MainStep => SP!MainStep
  BY DEF S!MainStep, SP!MainStep, S!Launch, SP!Launch, S!SendRequest,
         SP!SendRequest, S!SendsOver, SP!SendsOver, S!Join, SP!Join,
         S!Finalize, SP!Finalize, S!NothingToSend, SP!NothingToSend,
         S!RequestLimit, SP!RequestLimit, S!Sniffer, SP!Sniffer, S!NoDevices,
         SP!NoDevices, S!AfterJoin, SP!AfterJoin, S!JoinReturns,
         SP!JoinReturns, S!CaptureOver, SP!CaptureOver, S!LastPhase,
         SP!LastPhase, S!clockVars, SP!clockVars, S!mainVars, SP!mainVars,
         S!captureVars, SP!captureVars, S!timerVars, SP!timerVars, S!netVars,
         SP!netVars, S!history, SP!history
<1>3. S!CaptureStep => SP!CaptureStep
  BY DEF S!CaptureStep, SP!CaptureStep, S!OpenAdapter, SP!OpenAdapter,
         S!StartTimer, SP!StartTimer, S!SetUpStamp, SP!SetUpStamp,
         S!TakePacket, SP!TakePacket, S!HandlerStep, SP!HandlerStep,
         S!HandleSilently, SP!HandleSilently, S!HandleNew, SP!HandleNew,
         S!HandleUpdate, SP!HandleUpdate, S!HandleLast, SP!HandleLast,
         S!Stamp, SP!Stamp, S!Sniffer, SP!Sniffer, S!LeaveLoop, SP!LeaveLoop,
         S!CloseAdapter, SP!CloseAdapter, S!TimerJoined, SP!TimerJoined,
         S!clockVars, SP!clockVars, S!mainVars, SP!mainVars, S!captureVars,
         SP!captureVars, S!timerVars, SP!timerVars, S!netVars, SP!netVars,
         S!history, SP!history
<1>4. S!TimerStep => SP!TimerStep
  BY DEF S!TimerStep, SP!TimerStep, S!CheckDuration, SP!CheckDuration,
         S!DurationElapsed, SP!DurationElapsed, S!Break, SP!Break,
         S!ReadClock, SP!ReadClock, S!CompareOrder, SP!CompareOrder,
         S!BreakWhenQuiet, SP!BreakWhenQuiet, S!Loads, SP!Loads, S!Elapsed,
         SP!Elapsed, S!KeepListening, SP!KeepListening, S!StoreAndSleep,
         SP!StoreAndSleep, S!SleepTime, SP!SleepTime, S!Wake, SP!Wake,
         S!clockVars, SP!clockVars, S!mainVars, SP!mainVars, S!captureVars,
         SP!captureVars, S!timerVars, SP!timerVars, S!netVars, SP!netVars,
         S!history, SP!history
<1>5. S!Arrive \/ S!Tick \/ S!Exited => SP!Arrive \/ SP!Tick \/ SP!Exited
  BY DEF S!Arrive, SP!Arrive, S!CaptureOver, SP!CaptureOver, S!Tick, SP!Tick,
         S!Due, SP!Due, S!CaptureDue, SP!CaptureDue, S!TimerDue, SP!TimerDue,
         S!TimerAlive, SP!TimerAlive, S!TimerPc, SP!TimerPc, S!MainDue,
         SP!MainDue, S!Exited, SP!Exited, S!Over, SP!Over, S!clockVars,
         SP!clockVars, S!mainVars, SP!mainVars, S!captureVars, SP!captureVars,
         S!timerVars, SP!timerVars, S!netVars, SP!netVars, S!history,
         SP!history, S!vars, SP!vars
<1>6. S!vars = SP!vars
  BY DEF S!clockVars, SP!clockVars, S!mainVars, SP!mainVars, S!captureVars,
         SP!captureVars, S!timerVars, SP!timerVars, S!netVars, SP!netVars,
         S!history, SP!history, S!vars, SP!vars
<1>7. [S!Next]_(S!vars) => [SP!Next]_(SP!vars)
  BY <1>2, <1>3, <1>4, <1>5, <1>6
  DEF S!Next, SP!Next, S!vars, SP!vars, S!clockVars, SP!clockVars, S!mainVars,
      SP!mainVars, S!captureVars, SP!captureVars, S!timerVars, SP!timerVars,
      S!netVars, SP!netVars, S!history, SP!history
<1> QED
  BY <1>1, <1>7, PTL DEF S!Spec, SP!Spec

\* The list's are those that DeviceListProofs is about.
LEMMA ListSame == L!Spec => LP!Spec
<1>1. L!Init => LP!Init
  BY DEF L!Init, LP!Init, L!Idle, LP!Idle
<1>2. L!MainStep => LP!MainStep
  BY DEF L!MainStep, LP!MainStep, L!Launch, LP!Launch, L!SendIdentify,
         LP!SendIdentify, L!SendLookup, LP!SendLookup, L!PickDevice,
         LP!PickDevice, L!SendResolved, LP!SendResolved, L!RemoteLookup,
         LP!RemoteLookup, L!ToListed, LP!ToListed, L!SendsOver, LP!SendsOver,
         L!Join, LP!Join, L!Requests, LP!Requests, L!Status, LP!Status,
         L!LastPhase, LP!LastPhase, L!mainVars, LP!mainVars, L!netVars,
         LP!netVars
<1>3. L!HandlerStep => LP!HandlerStep
  BY DEF L!HandlerStep, LP!HandlerStep, L!HandleIdentify, LP!HandleIdentify,
         L!ListSender, LP!ListSender, L!Handling, LP!Handling, L!MayCome,
         LP!MayCome, L!Reaches, LP!Reaches, L!Sniffer, LP!Sniffer, L!SameMac,
         LP!SameMac, L!SameIp, LP!SameIp, L!PublishFirst, LP!PublishFirst,
         L!Unset, LP!Unset, L!FillFirst, LP!FillFirst, L!NewNode, LP!NewNode,
         L!AddressIn, LP!AddressIn, L!Append1, LP!Append1, L!NextIndex,
         LP!NextIndex, L!HandleUnknown, LP!HandleUnknown, L!KeepHandle,
         LP!KeepHandle, L!IsFirst, LP!IsFirst, L!HandleDescription,
         LP!HandleDescription, L!KeepDescription, LP!KeepDescription,
         L!AllFinished, LP!AllFinished, L!HandleRemote, LP!HandleRemote,
         L!FillByAddress, LP!FillByAddress, L!Answers, LP!Answers, L!Idle,
         LP!Idle, L!Ips, LP!Ips, L!mainVars, LP!mainVars, L!netVars,
         LP!netVars
<1>4. L!EndCapture \/ L!Exited => LP!EndCapture \/ LP!Exited
  BY DEF L!EndCapture, LP!EndCapture, L!Exited, LP!Exited, L!vars, LP!vars,
         L!mainVars, LP!mainVars, L!netVars, LP!netVars
<1>5. L!vars = LP!vars
  BY DEF L!vars, LP!vars, L!mainVars, LP!mainVars, L!netVars, LP!netVars
<1>6. [L!Next]_(L!vars) => [LP!Next]_(LP!vars)
  BY <1>2, <1>3, <1>4, <1>5
  DEF L!Next, LP!Next, L!vars, LP!vars, L!mainVars, LP!mainVars, L!netVars,
      LP!netVars
<1> QED
  BY <1>1, <1>6, PTL DEF L!Spec, LP!Spec

-----------------------------------------------------------------------------
(* Timely answers.                                                          *)

\* What the invariants of the session give: the types of its times, what stands
\* open when, and how far the timer's round is.
SessionFacts ==
  /\ now \in Nat /\ late \in 0..Lag /\ openedAt \in Nat
  /\ t1 \in Nat /\ t2 \in Nat /\ seen \in Nat /\ cpc \in S!CapturePc
  /\ cpc \in {"starting", "looping", "handling", "joining"} => handle = "open"
  /\ mpc \in {"launch", "finalize", "exit"} =>
       cpc \in {"none", "absent", "done", "failed"}
  /\ tpc \notin {"none", "done"} => cpc \in {"looping", "handling", "joining"}
  /\ t2 <= now
  /\ tpc = "second" => t2 > seen /\ openedAt <= seen /\ openedAt <= t1
  /\ tpc \notin {"none", "done", "asleep"} =>
       now >= openedAt + Timeout \/ now <= openedAt + late

\* What those of the list give.
ListFacts ==
  /\ list \in Seq(L!Node) /\ phase \in 1..4
  /\ hpc \in {"ready", "creating"}
  /\ hpc = "creating" => Len(list) = 1 /\ phase = 1
  /\ L!LookupInv
  /\ capture = "broken" => \A i \in 2..Len(list) : list[i].about = "full"

Facts == SessionFacts /\ ListFacts /\ BufferInv

LEMMA SessionFactsHold ==
  SP!TypeOK /\ SP!ThreadInv /\ SP!StampInv /\ SP!RoundInv => SessionFacts
<1> SUFFICES ASSUME SP!TypeOK, SP!ThreadInv, SP!StampInv, SP!RoundInv
             PROVE  SessionFacts
  OBVIOUS
<1>0. Lag \in Nat
  BY PartsAssumption DEF S!TimeAssumption
<1>1. now \in Nat /\ late \in 0..Lag /\ openedAt \in Nat
        /\ t1 \in Nat /\ t2 \in Nat /\ seen \in Nat /\ cpc \in S!CapturePc
  BY <1>0 DEF SP!TypeOK, SP!StateOK, SP!RoundInv, SP!CapturePc, S!CapturePc
<1>2. tpc \in SP!TimerPc
  BY DEF SP!TypeOK, SP!StateOK
<1>3. tpc \notin {"none", "done"} => tpc \in SP!TimerAlive
  BY <1>2 DEF SP!TimerAlive
<1>4. t2 <= now /\ (tpc = "second" => t2 > seen)
  BY DEF SP!StampInv
<1>5. tpc = "second" => openedAt <= seen /\ openedAt <= t1
  BY <1>3 DEF SP!RoundInv
<1>6. tpc \notin {"none", "done", "asleep"} =>
        now >= openedAt + Timeout \/ now <= openedAt + late
  BY <1>3 DEF SP!RoundInv
<1>7. mpc \in {"launch", "finalize", "exit"} =>
        cpc \in {"none", "absent", "done", "failed"}
  BY DEF SP!ThreadInv, SP!CaptureOver
<1>8. tpc \notin {"none", "done"} => cpc \in {"looping", "handling", "joining"}
  BY <1>3 DEF SP!ThreadInv
<1>9. cpc \in {"starting", "looping", "handling", "joining"} => handle = "open"
  BY DEF SP!ThreadInv
<1> QED
  BY <1>1, <1>4, <1>5, <1>6, <1>7, <1>8, <1>9 DEF SessionFacts

LEMMA ListFactsHold ==
  LP!TypeInv /\ LP!LookupInv /\ LP!BreakSparesOnlyFirst => ListFacts
  BY DEF LP!TypeInv, LP!StateOK, LP!PhaseInv, LP!LookupInv, L!LookupInv,
         LP!BreakSparesOnlyFirst, LP!LastPhase, LP!Node, L!Node, LP!Macs, L!Macs,
         LP!Ips, L!Ips, LP!Handles, L!Handles, ListFacts, Mode

LEMMA FactsInvariant == Spec => []Facts
<1>1. SP!TimeAssumption /\ SP!SessionAssumption
  BY PartsAssumption DEF S!TimeAssumption, SP!TimeAssumption,
     S!SessionAssumption, SP!SessionAssumption, Mode
<1>2. LP!ListAssumption /\ LP!DistinctAssumption /\ LP!AddressAssumption
  BY PartsAssumption DEF L!ListAssumption, LP!ListAssumption,
     L!DistinctAssumption, LP!DistinctAssumption, L!AddressAssumption,
     LP!AddressAssumption, L!Macs, LP!Macs, L!Ips, LP!Ips
<1>3. SP!Spec => [](SP!TypeOK /\ SP!ThreadInv /\ SP!StampInv /\ SP!RoundInv)
  BY <1>1, SP!RoundInvariant
<1>4. LP!Spec => [](LP!TypeInv /\ LP!LookupInv /\ LP!FlagsOK)
  BY <1>2, LP!KeyInvariant
<1>5. LP!Spec => []LP!BreakSparesOnlyFirst
  BY <1>2, LP!OnlyFirstCutOff
<1>6. Spec => []BufferInv
  BY ListInit, BufferStep, PTL DEF Spec
<1> QED
  BY <1>3, <1>4, <1>5, <1>6, ImplementsSession, ImplementsList, SessionSame,
     ListSame, SessionFactsHold, ListFactsHold, PTL DEF Facts

-----------------------------------------------------------------------------
(* What each step does to all that timely answers depend on.                *)

\* The list and the handler that may be at its first node.
ListStill == UNCHANGED <<list, hpc, taken>>

\* The phase, the capture in it and the clock.
TimesStill == UNCHANGED <<now, late, openedAt, launchedAt>>
SessionStill == UNCHANGED <<mpc, phase, tpc, cut>> /\ TimesStill

LEMMA LaunchEffect ==
  ASSUME Launch
  PROVE  /\ mpc = "launch" /\ mpc' \in {"send", "join"}
         /\ cpc' = "opening" /\ capture' = "on" /\ launchedAt' = now
         /\ timely' = {} /\ cut' = FALSE
         /\ UNCHANGED <<phase, tpc, breakFlag, now, late, openedAt, buffer,
                        packet>>
         /\ ListStill
  BY DEF Launch, S!Launch, S!timerVars, S!clockVars, S!history, L!Launch,
         ListStill

LEMMA SendEffect ==
  ASSUME SendRequest \/ SendsOver
  PROVE  /\ mpc = "send" /\ mpc' \in {"send", "join"}
         /\ UNCHANGED <<phase, tpc, cut, cpc, breakFlag, capture, timely, buffer,
                        packet>>
         /\ ListStill /\ TimesStill
  BY DEF SendRequest, SendsOver, S!SendRequest, S!SendsOver, L!SendIdentify,
         L!SendLookup, L!SendsOver, S!captureVars, S!timerVars, S!clockVars,
         S!history, history, ListStill, TimesStill

LEMMA JoinEffect ==
  ASSUME Join
  PROVE  /\ mpc = "join" /\ mpc' \in {"launch", "finalize", "exit"}
         /\ cpc \in S!CaptureOver /\ capture' = "off"
         /\ UNCHANGED <<tpc, cut, cpc, breakFlag, timely, buffer, packet>>
         /\ ListStill /\ TimesStill
  BY DEF Join, S!Join, S!JoinReturns, S!AfterJoin, L!Join, S!captureVars,
         S!timerVars, S!clockVars, S!history, history, ListStill, TimesStill

LEMMA AnswerEffect ==
  ASSUME Answer
  PROVE  /\ SessionStill /\ ListStill
         /\ UNCHANGED <<cpc, handle, breakFlag, capture, packet>>
         /\ \E a \in L!Answers :
              /\ L!MayCome(a) /\ Passes(a)
              /\ timely' = IF Listening /\ Counts(a) THEN timely \cup {a.from}
                           ELSE timely
              /\ \/ buffer' = Append(buffer, a)
                 \/ buffer' = buffer /\ (handle # "open" \/ Len(buffer) = QueueLimit)
<1>1. PICK a \in L!Answers :
    /\ L!MayCome(a) /\ Passes(a)
    /\ timely' = IF Listening /\ Counts(a) THEN timely \cup {a.from} ELSE timely
    /\ UNCHANGED <<listVars, packet, launchedAt, cut>>
    /\ \/ buffer' = Append(buffer, a) /\ S!Arrive
       \/ /\ handle # "open" \/ Len(buffer) = QueueLimit
          /\ UNCHANGED <<buffer, sessionVars>>
  BY DEF Answer
<1>2. UNCHANGED <<mpc, phase, tpc, cpc, handle, breakFlag, now, late, openedAt>>
  <2>1. CASE S!Arrive
    BY <2>1 DEF S!Arrive, S!mainVars, S!timerVars, S!clockVars, S!history
  <2>2. CASE UNCHANGED sessionVars
    BY <2>2 DEF sessionVars
  <2> QED
    BY <1>1, <2>1, <2>2
<1>3. UNCHANGED <<list, hpc, taken, capture, packet, launchedAt, cut>>
  BY <1>1 DEF listVars
<1> QED
  BY <1>1, <1>2, <1>3 DEF SessionStill, TimesStill, ListStill

LEMMA SetUpEffect ==
  ASSUME SetUp
  PROVE  /\ UNCHANGED <<mpc, phase, cut, now, late, launchedAt, capture, packet,
                        timely>> /\ ListStill
         /\ \/ /\ cpc = "opening" /\ cpc' = "starting"
               /\ breakFlag' = FALSE /\ buffer' = <<>>
               /\ UNCHANGED <<tpc, openedAt>>
            \/ /\ cpc = "starting" /\ cpc' = "looping"
               /\ tpc' = "duration" /\ openedAt' = now
               /\ UNCHANGED <<breakFlag, buffer>>
  BY DEF SetUp, S!OpenAdapter, S!StartTimer, S!mainVars, S!timerVars,
         S!clockVars, S!history, listVars, history, ListStill

LEMMA TakeEffect ==
  ASSUME TakePacket
  PROVE  /\ SessionStill /\ ListStill
         /\ UNCHANGED <<breakFlag, capture, timely>>
         /\ cpc = "looping" /\ cpc' = "handling" /\ ~breakFlag
         /\ buffer # <<>> /\ buffer' = Tail(buffer) /\ packet' = Head(buffer)
  BY DEF TakePacket, S!TakePacket, S!mainVars, S!timerVars, S!clockVars,
         S!history, listVars, history, ListStill, SessionStill, TimesStill

LEMMA LinkEffect ==
  ASSUME LinkFirst
  PROVE  /\ SessionStill
         /\ UNCHANGED <<breakFlag, buffer, packet, timely, cpc, capture>>
         /\ cpc = "handling" /\ list = <<>> /\ hpc' = "creating" /\ taken' = packet
         /\ L!Handling(packet, "dcp")
  BY DEF LinkFirst, L!ListSender, L!PublishFirst, L!Append1, sessionVars,
         history, SessionStill, TimesStill

\* A handler has returned.
Handler ==
  FillFirst \/ HandleIdentify \/ HandleUnknown \/ HandleDescription
    \/ HandleSilently

LEMMA HandlerEffect ==
  ASSUME Handler
  PROVE  /\ SessionStill /\ UNCHANGED <<timely, buffer>>
         /\ cpc = "handling" /\ cpc' = "looping" /\ hpc' = "ready"
         /\ breakFlag' = breakFlag \/ capture' = "broken"
         /\ capture' = "broken" => capture = "broken" \/ phase # 1
         /\ capture = "broken" =>
              hpc = "creating" \/ UNCHANGED <<list, capture>>
<1> USE DEF Handled, SessionStill, TimesStill, S!HandleNew, S!HandleUpdate,
            S!HandleLast, S!HandleSilently, S!mainVars, S!timerVars,
            S!clockVars, S!netVars, S!history, history
<1>1. CASE FillFirst
  BY <1>1 DEF FillFirst, L!FillFirst
<1>2. CASE HandleIdentify
  BY <1>2
  DEF HandleIdentify, L!ListSender, L!Handling, L!PublishFirst, L!Append1
<1>3. CASE HandleUnknown
  <2>1. UNCHANGED <<hpc, capture>> /\ L!Handling(packet, "ip")
    BY <1>3 DEF HandleUnknown, L!KeepHandle
  <2>2. hpc = "ready" /\ capture = "on"
    BY <2>1 DEF L!Handling
  <2> QED
    BY <1>3, <2>1, <2>2 DEF HandleUnknown
<1>4. CASE HandleDescription
  <2>1. L!Handling(packet, "ip") /\ hpc' = hpc
    BY <1>4 DEF HandleDescription, L!KeepDescription
  <2>2. hpc = "ready" /\ phase # 1 /\ capture = "on"
    BY <2>1 DEF L!Handling, L!Sniffer, Mode
  <2>3. (capture' = "broken" /\ S!HandleLast) \/ S!HandleUpdate
    BY <1>4 DEF HandleDescription
  <2> QED
    BY <1>4, <2>1, <2>2, <2>3 DEF HandleDescription
<1>5. CASE HandleSilently
  BY <1>5 DEF HandleSilently, listVars
<1> QED
  BY <1>1, <1>2, <1>3, <1>4, <1>5, Zenon DEF Handler

LEMMA LeaveEffect ==
  ASSUME LeaveLoop
  PROVE  /\ SessionStill /\ ListStill /\ UNCHANGED <<timely, buffer, packet>>
         /\ cpc = "looping" /\ breakFlag /\ cpc' = "joining"
         /\ capture' = capture \/ (capture = "on" /\ capture' = "off")
  BY DEF LeaveLoop, S!LeaveLoop, S!mainVars, S!timerVars, S!clockVars,
         S!history, L!EndCapture, listVars, history, ListStill, SessionStill,
         TimesStill

LEMMA CloseEffect ==
  ASSUME CloseAdapter
  PROVE  /\ SessionStill /\ ListStill
         /\ UNCHANGED <<timely, packet, breakFlag, capture>>
         /\ cpc = "joining" /\ cpc' = "done"
  BY DEF CloseAdapter, S!CloseAdapter, S!mainVars, S!timerVars, S!clockVars,
         S!history, listVars, history, ListStill, SessionStill, TimesStill

LEMMA TimerEffect ==
  ASSUME TimerStep
  PROVE  /\ ListStill /\ TimesStill /\ tpc \notin {"none", "done"}
         /\ UNCHANGED <<mpc, phase, cpc, capture, timely, buffer, packet>>
         /\ \/ cut' = cut /\ breakFlag' = breakFlag /\ tpc' \notin {"none", "done"}
            \/ S!BreakWhenQuiet /\ cut' = (t1 > t2) /\ tpc' = "done"
<1> USE DEF TimerStep, S!mainVars, S!captureVars, S!clockVars, S!history,
            listVars, ListStill, TimesStill
<1>1. CASE S!BreakWhenQuiet /\ cut' = (t1 > t2)
  BY <1>1 DEF S!BreakWhenQuiet, S!Break
<1>2. CASE S!CheckDuration /\ cut' = cut
  BY <1>2 DEF S!CheckDuration, S!DurationElapsed
<1>3. CASE (S!ReadClock \/ S!CompareOrder \/ S!KeepListening \/ S!StoreAndSleep
              \/ S!Wake) /\ cut' = cut
  BY <1>3 DEF S!ReadClock, S!CompareOrder, S!KeepListening, S!StoreAndSleep,
              S!Wake
<1> QED
  BY <1>1, <1>2, <1>3

LEMMA TickEffect ==
  ASSUME Tick
  PROVE  /\ ListStill /\ now' = now + 1 /\ UNCHANGED <<openedAt, launchedAt>>
         /\ UNCHANGED <<mpc, phase, tpc, cut, cpc, breakFlag, capture, timely,
                        buffer, packet>>
         /\ late' = IF S!Due THEN late + 1 ELSE 0
  BY DEF Tick, S!Tick, S!captureVars, S!timerVars, S!history, listVars, history,
         ListStill

LEMMA SameEffect ==
  ASSUME UNCHANGED vars \/ Exited
  PROVE  /\ SessionStill /\ ListStill
         /\ UNCHANGED <<cpc, breakFlag, capture, timely, buffer, packet>>
  BY DEF Exited, vars, sessionVars, listVars, history, ListStill, SessionStill,
         TimesStill

-----------------------------------------------------------------------------
(* What the handlers do to the list.                                        *)

\* Nodes keep their MAC, and their description once they have one.
NodesKept ==
  \A i \in DOMAIN list :
    /\ i \in DOMAIN list' /\ list'[i].mac = list[i].mac
    /\ list[i].about = "full" => list'[i].about = "full"

LEMMA IdentifyKept ==
  ASSUME ListFacts, packet \in L!Answers, L!ListSender(packet), list # <<>>
  PROVE  /\ NodesKept /\ L!SameMac(packet.from) = {}
         /\ \E i \in DOMAIN list' : list'[i].mac = MacOf[packet.from]
<1>1. /\ L!SameMac(packet.from) = {}
      /\ \E ip \in L!AddressIn(packet) :
           list' = Append(list, L!NewNode(packet, L!NextIndex, ip, FALSE))
  BY DEF L!ListSender, L!PublishFirst, L!Append1
<1>2. PICK node : list' = Append(list, node) /\ node.mac = MacOf[packet.from]
  BY <1>1 DEF L!NewNode
<1>3. list \in Seq(L!Node)
  BY DEF ListFacts
<1>4. /\ DOMAIN list' = DOMAIN list \cup {Len(list) + 1}
      /\ list'[Len(list) + 1] = node /\ \A i \in DOMAIN list : list'[i] = list[i]
  BY <1>2, <1>3
<1> QED
  BY <1>1, <1>2, <1>4 DEF NodesKept

LEMMA UnknownKept ==
  ASSUME ListFacts, L!KeepHandle(packet)
  PROVE  NodesKept
<1>1. PICK i \in DOMAIN list : list' = [list EXCEPT ![i].handle = packet.handle]
  BY DEF L!KeepHandle
<1>2. list \in Seq(L!Node)
  BY DEF ListFacts
<1>3. /\ DOMAIN list' = DOMAIN list
      /\ list'[i] = [list[i] EXCEPT !.handle = packet.handle]
      /\ \A j \in DOMAIN list : j # i => list'[j] = list[j]
  BY <1>1, <1>2
<1>4. list[i] \in L!Node
  BY <1>2
<1>5. list'[i].mac = list[i].mac /\ list'[i].about = list[i].about
  BY <1>3, <1>4 DEF L!Node
<1> QED
  BY <1>3, <1>5 DEF NodesKept

LEMMA DescriptionKept ==
  ASSUME ListFacts, L!KeepDescription(packet)
  PROVE  /\ NodesKept
         /\ \E i \in DOMAIN list' :
              list'[i].mac = MacOf[packet.from] /\ list'[i].about = "full"
<1>1. PICK i \in DOMAIN list :
        /\ L!IsFirst(i, L!SameMac(packet.from))
        /\ list' = [list EXCEPT ![i].about = "full", ![i].by = packet.from,
                                ![i].handle = packet.handle, ![i].finished = TRUE]
  BY DEF L!KeepDescription
<1>2. list \in Seq(L!Node) /\ list[i].mac = MacOf[packet.from]
  BY <1>1 DEF ListFacts, L!IsFirst, L!SameMac
<1>3. /\ DOMAIN list' = DOMAIN list
      /\ list'[i] = [list[i] EXCEPT !.about = "full", !.by = packet.from,
                              !.handle = packet.handle, !.finished = TRUE]
      /\ \A j \in DOMAIN list : j # i => list'[j] = list[j]
  BY <1>1, <1>2
<1>4. list[i] \in L!Node
  BY <1>2
<1>5. list'[i].mac = list[i].mac /\ list'[i].about = "full"
  BY <1>3, <1>4 DEF L!Node
<1> QED
  BY <1>2, <1>3, <1>5 DEF NodesKept

LEMMA FillFills ==
  ASSUME ListFacts, PacketInv, FillFirst
  PROVE  /\ phase = 1 /\ list[1].mac = Junk /\ DOMAIN list = {1}
         /\ DOMAIN list' = {1} /\ list'[1].mac = MacOf[packet.from]
<1>1. hpc = "creating"
  BY DEF FillFirst, L!FillFirst
<1>2. phase = 1 /\ list[1].mac = Junk /\ taken = packet /\ Len(list) = 1
  BY <1>1 DEF ListFacts, PacketInv
<1>3. PICK ip, f : list' = <<L!NewNode(packet, 0, ip, f)>>
  BY <1>2 DEF FillFirst, L!FillFirst
<1>4. list'[1].mac = MacOf[packet.from] /\ DOMAIN list' = {1}
  BY <1>3 DEF L!NewNode
<1> QED
  BY <1>2, <1>4 DEF ListFacts

\* Only the handler that fills the first node changes a MAC.
LEMMA HandlerKeeps ==
  ASSUME ListFacts, BufferInv, Handler
  PROVE  FillFirst \/ NodesKept
<1>1. CASE HandleIdentify
  BY <1>1, IdentifyKept DEF HandleIdentify, BufferInv
<1>2. CASE HandleUnknown
  BY <1>2, UnknownKept DEF HandleUnknown
<1>3. CASE HandleDescription
  BY <1>3, DescriptionKept DEF HandleDescription
<1>4. CASE HandleSilently
  BY <1>4 DEF HandleSilently, listVars, NodesKept
<1> QED
  BY <1>1, <1>2, <1>3, <1>4 DEF Handler

\* What is learnt is not forgotten.
LEMMA LearntKept ==
  ASSUME ListFacts, BufferInv, PacketInv, Handler, NEW d \in Devices, Learnt(d)
  PROVE  Learnt(d)'
<1>1. phase' = phase
  BY HandlerEffect DEF SessionStill
<1>2. CASE NodesKept
  BY <1>1, <1>2 DEF NodesKept, Learnt
<1>3. CASE FillFirst
  <2>1. MacOf[d] = Junk
    BY <1>3, FillFills DEF Learnt
  <2> QED
    BY <2>1, PartsAssumption DEF L!DistinctAssumption, L!Macs
<1> QED
  BY <1>2, <1>3, HandlerKeeps

\* The handler of the phase works the answer the phase asks for into the list.
LEMMA HandledIsLearnt ==
  ASSUME ListFacts, BufferInv, PacketInv, Handler, Told(packet),
         NEW d, packet.from = d, phase > 1 => L!SameMac(d) # {}
  PROVE  Learnt(d)'
<1>0. phase' = phase
  BY HandlerEffect DEF SessionStill
<1>1. phase \in 1..4
  BY DEF ListFacts
<1>2. CASE FillFirst
  BY <1>0, <1>2, FillFills DEF Learnt
<1>3. CASE HandleIdentify
  <2>1. phase = 1
    BY <1>3 DEF HandleIdentify, L!ListSender, L!Handling, L!Sniffer, Mode
  <2> QED
    BY <1>0, <1>3, <2>1, IdentifyKept DEF HandleIdentify, BufferInv, Learnt
<1>4. CASE HandleUnknown
  <2>1. packet.kind = "unknown"
    BY <1>4 DEF HandleUnknown, L!KeepHandle
  <2> QED
    BY <2>1 DEF Told
<1>5. CASE HandleDescription
  BY <1>5, DescriptionKept DEF HandleDescription, Learnt
<1>6. CASE HandleSilently
  <2>1. (packet.kind = "identify") # (L!SameMac(d) = {}) /\ list' = list
    BY <1>6 DEF HandleSilently, listVars
  <2>2. CASE phase = 1
    <3>1. packet.kind = "identify"
      BY <2>2 DEF Told
    <3>2. L!SameMac(d) # {}
      BY <2>1, <3>1, Zenon
    <3> QED
      BY <1>0, <2>1, <2>2, <3>2 DEF L!SameMac, Learnt
  <2>3. CASE phase > 1
    <3>1. packet.kind # "identify" /\ L!SameMac(d) # {}
      BY <2>3 DEF Told
    <3> QED
      BY <2>1, <3>1, Zenon
  <2> QED
    BY <1>1, <2>2, <2>3
<1> QED
  BY <1>2, <1>3, <1>4, <1>5, <1>6 DEF Handler

\* When a handler ends the capture, who has a node behind the first has also
\* given its description.
LEMMA BrokenIsLearnt ==
  ASSUME ListFacts, capture = "broken", NEW d, L!SameMac(d) # {}
  PROVE  Learnt(d) \/ list[1].mac = MacOf[d]
<1>1. PICK i \in DOMAIN list : list[i].mac = MacOf[d]
  BY DEF L!SameMac
<1>2. i \in 1..Len(list)
  BY DEF ListFacts
<1> QED
  BY <1>1, <1>2 DEF ListFacts, Learnt

-----------------------------------------------------------------------------
(* The invariant, part by part.                                             *)

LEMMA Delays ==
  /\ Lag \in Nat /\ Timeout \in Nat /\ Timeout4 \in Nat /\ Lag <= Timeout4
  /\ ClockModulus \in Nat \ {0}
  BY PartsAssumption DEF S!TimeAssumption

LEMMA Steps ==
  ASSUME [Next]_vars
  PROVE  \/ Launch \/ SendRequest \/ SendsOver \/ Join \/ Answer \/ SetUp
         \/ TakePacket \/ LinkFirst \/ Handler \/ LeaveLoop \/ CloseAdapter
         \/ TimerStep \/ Tick \/ UNCHANGED vars \/ Exited
  BY DEF Next, Handler

LEMMA NextPacketInv ==
  Facts /\ TimelyInv /\ [Next]_vars => PacketInv'
<1> SUFFICES ASSUME Facts, PacketInv, [Next]_vars PROVE PacketInv'
  BY DEF TimelyInv
<1>1. ASSUME ListStill, cpc' = cpc, packet' = packet PROVE PacketInv'
  BY <1>1 DEF PacketInv, ListStill
<1>2. ASSUME ListStill, cpc # "handling" PROVE PacketInv'
  BY <1>2 DEF PacketInv, ListStill
<1>3. CASE Launch
  <2>1. cpc # "handling"
    BY <1>3, LaunchEffect DEF Facts, SessionFacts
  <2> QED
    BY <1>2, <1>3, <2>1, LaunchEffect
<1>4. CASE SendRequest \/ SendsOver
  BY <1>1, <1>4, SendEffect
<1>5. CASE Join
  BY <1>1, <1>5, JoinEffect
<1>6. CASE Answer
  BY <1>1, <1>6, AnswerEffect
<1>7. CASE SetUp
  BY <1>2, <1>7, SetUpEffect
<1>8. CASE TakePacket
  BY <1>2, <1>8, TakeEffect
<1>9. CASE LinkFirst
  <2>1. cpc' = "handling" /\ taken' = packet'
    BY <1>9, LinkEffect
  <2>2. list'[1].mac = Junk
    BY <1>9 DEF LinkFirst, L!ListSender, L!PublishFirst, L!Append1, L!Unset
  <2> QED
    BY <2>1, <2>2 DEF PacketInv
<1>10. CASE Handler
  BY <1>10, HandlerEffect DEF PacketInv
<1>11. CASE LeaveLoop
  BY <1>2, <1>11, LeaveEffect
<1>12. CASE CloseAdapter
  BY <1>2, <1>12, CloseEffect
<1>13. CASE TimerStep
  BY <1>1, <1>13, TimerEffect
<1>14. CASE Tick
  BY <1>1, <1>14, TickEffect
<1>15. CASE UNCHANGED vars \/ Exited
  BY <1>1, <1>15, SameEffect
<1> QED
  BY <1>3, <1>4, <1>5, <1>6, <1>7, <1>8, <1>9, <1>10, <1>11, <1>12, <1>13,
     <1>14, <1>15, Steps

LEMMA NextSetUpInv ==
  Facts /\ TimelyInv /\ [Next]_vars => SetUpInv'
<1> SUFFICES ASSUME Facts, SetUpInv, [Next]_vars PROVE SetUpInv'
  BY DEF TimelyInv
<1> USE DEF SetUpInv, InPhase, TimesStill, SessionStill
<1>0. now \in Nat /\ late \in Nat
  BY Delays DEF Facts, SessionFacts
<1>1. CASE Launch
  BY <1>0, <1>1, LaunchEffect
<1>2. CASE SendRequest \/ SendsOver
  BY <1>2, SendEffect
<1>3. CASE Join
  BY <1>3, JoinEffect
<1>4. CASE Answer
  BY <1>4, AnswerEffect
<1>5. CASE SetUp
  BY <1>5, SetUpEffect
<1>6. CASE TakePacket
  BY <1>6, TakeEffect
<1>7. CASE LinkFirst
  BY <1>7, LinkEffect
<1>8. CASE Handler
  BY <1>8, HandlerEffect
<1>9. CASE LeaveLoop
  BY <1>9, LeaveEffect
<1>10. CASE CloseAdapter
  BY <1>10, CloseEffect
<1>11. CASE TimerStep
  <2>1. cpc # "starting"
    BY <1>11, TimerEffect DEF Facts, SessionFacts
  <2> QED
    BY <1>11, <2>1, TimerEffect
<1>12. CASE Tick
  <2>1. cpc \in {"opening", "starting"} => late' = late + 1
    BY <1>12, TickEffect DEF S!Due, S!CaptureDue
  <2> QED
    BY <1>0, <1>12, <2>1, TickEffect
<1>13. CASE UNCHANGED vars \/ Exited
  BY <1>13, SameEffect
<1> QED
  BY <1>1, <1>2, <1>3, <1>4, <1>5, <1>6, <1>7, <1>8, <1>9, <1>10, <1>11,
     <1>12, <1>13, Steps

LEMMA NextCutInv ==
  Facts /\ TimelyInv /\ [Next]_vars => CutInv'
<1> SUFFICES ASSUME Facts, CutInv, [Next]_vars PROVE CutInv'
  BY DEF TimelyInv
<1> USE DEF CutInv, TimesStill, SessionStill
<1>1. CASE Launch
  BY <1>1, LaunchEffect
<1>2. CASE SendRequest \/ SendsOver
  BY <1>2, SendEffect
<1>3. CASE Join
  BY <1>3, JoinEffect
<1>4. CASE Answer
  BY <1>4, AnswerEffect
<1>5. CASE SetUp
  BY <1>5, SetUpEffect
<1>6. CASE TakePacket
  BY <1>6, TakeEffect
<1>7. CASE LinkFirst
  BY <1>7, LinkEffect
<1>8. CASE Handler
  BY <1>8, HandlerEffect
<1>9. CASE LeaveLoop
  BY <1>9, LeaveEffect
<1>10. CASE CloseAdapter
  BY <1>10, CloseEffect
<1>11. CASE TimerStep
  <2>1. cpc \notin {"opening", "starting"}
    BY <1>11, TimerEffect DEF Facts, SessionFacts
  <2> QED
    BY <1>11, <2>1, TimerEffect
<1>12. CASE Tick
  BY <1>12, TickEffect
<1>13. CASE UNCHANGED vars \/ Exited
  BY <1>13, SameEffect
<1> QED
  BY <1>1, <1>2, <1>3, <1>4, <1>5, <1>6, <1>7, <1>8, <1>9, <1>10, <1>11,
     <1>12, <1>13, Steps

\* The timer that breaks the loop for quietness, and not for a subtraction that
\* wrapped, has slept.
LEMMA QuietIsLate ==
  ASSUME SessionFacts, S!BreakWhenQuiet, t1 <= t2
  PROVE  now >= openedAt + Timeout
<1>1. PICK from \in S!Loads : S!Elapsed(from) > Timeout4
  BY DEF S!BreakWhenQuiet
<1>2. tpc = "second"
  BY DEF S!BreakWhenQuiet
<1>3. from \in Nat /\ openedAt <= from /\ from <= t2 /\ t2 \in Nat
  BY <1>1, <1>2 DEF SessionFacts, S!Loads
<1>4. (t2 - from) % ClockModulus <= t2 - from
  BY <1>3, Delays
<1>5. t2 - from > Timeout4
  BY <1>1, <1>3, <1>4, Delays DEF S!Elapsed
<1>6. now > openedAt + Lag
  BY <1>3, <1>5, Delays DEF SessionFacts
<1> QED
  BY <1>2, <1>6, Delays DEF SessionFacts

LEMMA NextEndInv ==
  Facts /\ TimelyInv /\ [Next]_vars => EndInv'
<1> SUFFICES ASSUME Facts, EndInv, SetUpInv, CutInv, [Next]_vars PROVE EndInv'
  BY DEF TimelyInv
<1> USE DEF EndInv, InPhase, Ended, TimesStill, SessionStill
<1>0. now \in Nat /\ openedAt \in Nat /\ phase \in 1..4 /\ Timeout \in Nat
  BY Delays DEF Facts, SessionFacts, ListFacts
<1>1. CASE Launch
  BY <1>1, LaunchEffect
<1>2. CASE SendRequest \/ SendsOver
  BY <1>2, SendEffect
<1>3. CASE Join
  BY <1>3, JoinEffect
<1>4. CASE Answer
  BY <1>4, AnswerEffect
<1>5. CASE SetUp
  <2>1. UNCHANGED <<capture, phase>>
    BY <1>5, SetUpEffect
  <2>2. CASE cpc = "opening"
    <3>1. cpc' = "starting"
      BY <1>5, <2>2, SetUpEffect
    <3> QED
      BY <2>1, <3>1
  <2>3. CASE cpc = "starting"
    <3>1. cpc' = "looping" /\ breakFlag' = breakFlag
      BY <1>5, <2>3, SetUpEffect
    <3>2. ~breakFlag'
      BY <2>3, <3>1 DEF SetUpInv
    <3> QED
      BY <2>1, <3>1, <3>2
  <2> QED
    BY <1>5, <2>2, <2>3, SetUpEffect
<1>6. CASE TakePacket
  BY <1>6, TakeEffect
<1>7. CASE LinkFirst
  BY <1>7, LinkEffect
<1>8. CASE Handler
  <2>1. capture' = "broken" => phase' > 1
    BY <1>0, <1>8, HandlerEffect
  <2>2. capture = "broken" => capture' = "broken"
    BY <1>8, HandlerEffect DEF Facts, ListFacts
  <2> QED
    BY <1>8, <2>1, <2>2, HandlerEffect
<1>9. CASE LeaveLoop
  BY <1>9, LeaveEffect
<1>10. CASE CloseAdapter
  BY <1>10, CloseEffect
<1>11. CASE TimerStep
  <2>1. CASE cut' = cut /\ breakFlag' = breakFlag
    BY <1>11, <2>1, TimerEffect
  <2>2. CASE S!BreakWhenQuiet /\ cut' = (t1 > t2)
    <3>1. t1 <= t2 => now >= openedAt + Timeout
      BY <2>2, QuietIsLate DEF Facts
    <3>2. t1 <= t2 \/ t1 > t2
      BY DEF Facts, SessionFacts
    <3>3. cut' \/ now >= openedAt + Timeout
      BY <2>2, <3>1, <3>2
    <3> QED
      BY <1>11, <3>3, TimerEffect
  <2> QED
    BY <1>11, <2>1, <2>2, TimerEffect
<1>12. CASE Tick
  BY <1>0, <1>12, TickEffect
<1>13. CASE UNCHANGED vars \/ Exited
  BY <1>13, SameEffect
<1> QED
  BY <1>1, <1>2, <1>3, <1>4, <1>5, <1>6, <1>7, <1>8, <1>9, <1>10, <1>11,
     <1>12, <1>13, Steps

\* A description is asked for at the MAC of a node.
LEMMA AskedIsListed ==
  ASSUME ListFacts, NEW a \in L!Answers, L!MayCome(a), Passes(a), phase > 1
  PROVE  L!SameMac(a.from) # {}
<1>1. a.kind # "identify"
  BY DEF Passes, S!Sniffer, Mode, ListFacts
<1>2. PICK r \in lookups : L!Reaches(r, a.from)
  BY <1>1 DEF L!MayCome
<1>3. PICK i \in DOMAIN list : list[i].mac = r.mac
  BY DEF ListFacts, L!LookupInv, Mode
<1> QED
  BY <1>2, <1>3 DEF L!Reaches, L!SameMac, Mode

LEMMA NextKnownInv ==
  Facts /\ TimelyInv /\ [Next]_vars => KnownInv'
<1> SUFFICES ASSUME Facts, KnownInv, [Next]_vars PROVE KnownInv'
  BY DEF TimelyInv
<1>0. phase \in 1..4 /\ ListFacts /\ BufferInv
  BY DEF Facts, ListFacts
<1>1. ASSUME timely' = timely, phase' = phase, InPhase' => InPhase,
             \A i \in DOMAIN list :
               i \in DOMAIN list' /\ list'[i].mac = list[i].mac
      PROVE  KnownInv'
  BY <1>1 DEF KnownInv, L!SameMac
<1>2. ASSUME timely' = timely, phase' = phase, InPhase' => InPhase, ListStill
      PROVE  KnownInv'
  BY <1>1, <1>2 DEF ListStill
<1>3. CASE Launch
  BY <1>3, LaunchEffect DEF KnownInv
<1>4. CASE SendRequest \/ SendsOver
  BY <1>2, <1>4, SendEffect DEF InPhase
<1>5. CASE Join
  BY <1>5, JoinEffect DEF KnownInv, InPhase
<1>6. CASE Answer
  <2>1. SessionStill /\ ListStill
    BY <1>6, AnswerEffect
  <2>2. PICK a \in L!Answers :
          /\ L!MayCome(a) /\ Passes(a)
          /\ timely' = timely \cup {a.from} \/ timely' = timely
    BY <1>6, AnswerEffect
  <2>3. a.from \in Devices
    BY DEF L!Answers
  <2>4. phase > 1 => L!SameMac(a.from) # {}
    BY <1>0, <2>2, AskedIsListed
  <2> QED
    BY <2>1, <2>2, <2>3, <2>4
    DEF KnownInv, L!SameMac, ListStill, SessionStill, InPhase
<1>7. CASE SetUp
  BY <1>2, <1>7, SetUpEffect DEF InPhase
<1>8. CASE TakePacket
  BY <1>2, <1>8, TakeEffect DEF SessionStill, InPhase
<1>9. CASE LinkFirst
  <2>1. DOMAIN list = {}
    BY <1>9, LinkEffect
  <2> QED
    BY <1>1, <1>9, <2>1, LinkEffect DEF SessionStill, InPhase
<1>10. CASE Handler
  <2>1. UNCHANGED <<timely, phase, mpc>>
    BY <1>10, HandlerEffect DEF SessionStill
  <2>2. CASE NodesKept
    BY <1>1, <2>1, <2>2 DEF NodesKept, InPhase
  <2>3. CASE FillFirst
    <3>1. phase = 1
      BY <1>0, <2>3 DEF FillFirst, L!FillFirst, ListFacts
    <3> QED
      BY <2>1, <3>1 DEF KnownInv
  <2> QED
    BY <1>0, <1>10, <2>2, <2>3, HandlerKeeps
<1>11. CASE LeaveLoop
  BY <1>2, <1>11, LeaveEffect DEF SessionStill, InPhase
<1>12. CASE CloseAdapter
  BY <1>2, <1>12, CloseEffect DEF SessionStill, InPhase
<1>13. CASE TimerStep
  BY <1>2, <1>13, TimerEffect DEF InPhase
<1>14. CASE Tick
  BY <1>2, <1>14, TickEffect DEF InPhase
<1>15. CASE UNCHANGED vars \/ Exited
  BY <1>2, <1>15, SameEffect DEF SessionStill, InPhase
<1> QED
  BY <1>3, <1>4, <1>5, <1>6, <1>7, <1>8, <1>9, <1>10, <1>11, <1>12, <1>13,
     <1>14, <1>15, Steps

\* What neither looks at the list nor at the buffer leaves it counted.
LEMMA CountedKept ==
  ASSUME NEW d, Counted(d), ListStill, TimesStill,
         UNCHANGED <<phase, cpc, capture, buffer, packet>>
  PROVE  Counted(d)'
<1>1. Learnt(d) => Learnt(d)'
  BY DEF Learnt, ListStill
<1>2. Pending(d) => Pending(d)'
  BY DEF Pending, Told
<1> QED
  BY <1>1, <1>2 DEF Counted, ListStill, TimesStill

\* What is in the buffer or with the handler is due.
LEMMA PendingIsDue ==
  ASSUME NEW d, BufferInv, Pending(d), cpc \in {"looping", "handling"}
  PROVE  S!Due
<1>1. CASE cpc = "handling"
  BY <1>1 DEF S!Due, S!CaptureDue
<1>2. CASE cpc = "looping"
  <2>1. Len(buffer) > 0
    BY <1>2 DEF Pending, BufferInv
  <2> QED
    BY <1>2, <2>1 DEF S!Due, S!CaptureDue
<1> QED
  BY <1>1, <1>2

\* The answer at the head of the buffer goes to the handler.
LEMMA TakeKeepsPending ==
  ASSUME NEW d, BufferInv, Pending(d), TakePacket
  PROVE  Pending(d)'
<1>1. /\ cpc = "looping" /\ cpc' = "handling" /\ phase' = phase
      /\ buffer # <<>> /\ buffer' = Tail(buffer) /\ packet' = Head(buffer)
  BY TakeEffect DEF SessionStill
<1>2. PICK i \in DOMAIN buffer : buffer[i].from = d /\ Told(buffer[i])
  BY <1>1 DEF Pending
<1>3. buffer \in Seq(L!Answers) /\ i \in 1..Len(buffer)
  BY DEF BufferInv
<1>4. CASE i = 1
  BY <1>1, <1>2, <1>3, <1>4 DEF Pending, Told
<1>5. CASE i > 1
  <2>1. i - 1 \in DOMAIN buffer' /\ buffer'[i - 1] = buffer[i]
    BY <1>1, <1>3, <1>5
  <2> QED
    BY <1>1, <1>2, <2>1 DEF Pending, Told
<1> QED
  BY <1>3, <1>4, <1>5

LEMMA NextAnswerInv ==
  Facts /\ TimelyInv /\ [Next]_vars => AnswerInv'
<1> SUFFICES ASSUME Facts, TimelyInv, [Next]_vars, InPhase', ~cut',
                    NEW d \in timely'
             PROVE  Counted(d)'
  BY DEF AnswerInv
<1>0. /\ now \in Nat /\ late \in 0..Lag /\ openedAt \in Nat /\ phase \in 1..4
      /\ ListFacts /\ BufferInv /\ SessionFacts
      /\ PacketInv /\ SetUpInv /\ EndInv /\ KnownInv /\ CutInv /\ AnswerInv
  BY DEF Facts, SessionFacts, ListFacts, TimelyInv
<1>1. ASSUME InPhase, ~cut, d \in timely
      PROVE  Counted(d) /\ d \in Devices /\ (phase > 1 => L!SameMac(d) # {})
  BY <1>0, <1>1 DEF AnswerInv, KnownInv
<1>2. CASE Launch
  BY <1>2, LaunchEffect
<1>3. CASE SendRequest \/ SendsOver
  BY <1>1, <1>3, SendEffect, CountedKept DEF InPhase
<1>4. CASE Join
  BY <1>4, JoinEffect DEF InPhase
<1>5. CASE Answer
  <2>1. /\ InPhase /\ ~cut /\ SessionStill /\ ListStill /\ TimesStill
        /\ UNCHANGED <<cpc, handle, breakFlag, capture, packet>>
    BY <1>5, AnswerEffect DEF SessionStill, InPhase
  <2>2. PICK a \in L!Answers :
          /\ L!MayCome(a) /\ Passes(a)
          /\ timely' = IF Listening /\ Counts(a) THEN timely \cup {a.from}
                       ELSE timely
          /\ \/ buffer' = Append(buffer, a)
             \/ buffer' = buffer /\ (handle # "open" \/ Len(buffer) = QueueLimit)
    BY <1>5, AnswerEffect
  <2>3. buffer \in Seq(L!Answers)
    BY <1>0 DEF BufferInv
  <2>4. Learnt(d) => Learnt(d)'
    BY <2>1 DEF Learnt, ListStill, SessionStill
  <2>5. CASE d \in timely
    <3>1. Counted(d)
      BY <1>1, <2>1, <2>5
    <3>2. Pending(d) => Pending(d)'
      <4>1. \A i \in DOMAIN buffer : i \in DOMAIN buffer' /\ buffer'[i] = buffer[i]
        BY <2>2, <2>3
      <4> QED
        BY <2>1, <4>1 DEF Pending, Told, SessionStill
    <3> QED
      BY <2>1, <2>4, <3>1, <3>2 DEF Counted, ListStill, TimesStill
  <2>6. CASE d \notin timely
    <3>1. Listening /\ Counts(a) /\ a.from = d
      BY <2>2, <2>6
    <3>2. now > launchedAt + Lag /\ now + Lag < openedAt + Timeout
            /\ Len(buffer) < QueueLimit
      BY <3>1 DEF Listening
    <3>3. cpc \in {"looping", "handling", "joining", "done"}
      <4>1. cpc \in S!CapturePc
        BY <1>0 DEF SessionFacts
      <4>2. cpc \notin {"opening", "starting"}
        BY <1>0, <3>2, Delays DEF SetUpInv
      <4> QED
        BY <1>0, <2>1, <4>1, <4>2 DEF S!CapturePc, SetUpInv
    <3>4. CASE cpc \in {"looping", "handling"}
      <4>1. buffer' = Append(buffer, a)
        <5>1. handle = "open" /\ Len(buffer) # QueueLimit
          BY <1>0, <2>3, <3>2, <3>4, PartsAssumption
          DEF SessionFacts, S!SessionAssumption
        <5> QED
          BY <2>2, <5>1
      <4>2. Told(a)
        BY <1>0, <2>2, <3>1 DEF Passes, Counts, Told, S!Sniffer, Mode
      <4>3. Pending(d)'
        BY <2>1, <2>3, <3>1, <4>1, <4>2 DEF Pending, Told, SessionStill
      <4> QED
        BY <1>0, <2>1, <3>2, <3>4, <4>3, Delays DEF Counted, TimesStill
    <3>5. CASE cpc \in {"joining", "done"}
      <4>1. capture = "broken" /\ phase > 1
        BY <1>0, <2>1, <3>2, <3>5, Delays DEF EndInv, Ended
      <4>2. L!SameMac(d) # {}
        BY <1>0, <2>2, <3>1, <4>1, AskedIsListed
      <4>3. Learnt(d) \/ list[1].mac = MacOf[d]
        BY <1>0, <4>1, <4>2, BrokenIsLearnt
      <4> QED
        BY <2>1, <2>4, <4>1, <4>3 DEF Counted, ListStill
    <3> QED
      BY <3>3, <3>4, <3>5
  <2> QED
    BY <2>5, <2>6
<1>6. CASE SetUp
  <2>1. UNCHANGED <<mpc, cut, timely, phase, capture>> /\ ListStill
    BY <1>6, SetUpEffect
  <2>2. cpc \notin {"looping", "handling"}
    BY <1>6, SetUpEffect
  <2>3. InPhase /\ ~cut /\ d \in timely
    BY <2>1 DEF InPhase
  <2>4. Learnt(d) => Learnt(d)'
    BY <2>1 DEF Learnt, ListStill
  <2> QED
    BY <1>1, <2>1, <2>2, <2>3, <2>4 DEF Counted, ListStill
<1>7. CASE TakePacket
  <2>1. /\ InPhase /\ ~cut /\ d \in timely /\ phase' = phase
        /\ capture' = capture /\ ListStill /\ TimesStill /\ cpc' = "handling"
    BY <1>7, TakeEffect DEF SessionStill, InPhase
  <2>2. Learnt(d) => Learnt(d)'
    BY <2>1 DEF Learnt, ListStill
  <2>3. Pending(d) => Pending(d)'
    BY <1>0, <1>7, TakeKeepsPending
  <2> QED
    BY <1>1, <2>1, <2>2, <2>3 DEF Counted, ListStill, TimesStill
<1>8. CASE LinkFirst
  <2>1. /\ InPhase /\ ~cut /\ d \in timely /\ list = <<>> /\ capture = "on"
        /\ UNCHANGED <<phase, cpc, buffer, packet>> /\ TimesStill
    BY <1>8, LinkEffect DEF SessionStill, InPhase, L!Handling
  <2>2. ~Learnt(d)
    BY <2>1 DEF Learnt
  <2>3. Pending(d) => Pending(d)'
    BY <2>1 DEF Pending, Told
  <2> QED
    BY <1>1, <2>1, <2>2, <2>3 DEF Counted, TimesStill
<1>9. CASE Handler
  <2>1. /\ InPhase /\ ~cut /\ d \in timely /\ phase' = phase /\ TimesStill
        /\ cpc' = "looping" /\ buffer' = buffer
    BY <1>9, HandlerEffect DEF SessionStill, InPhase
  <2>2. /\ Counted(d) /\ d \in Devices /\ (phase > 1 => L!SameMac(d) # {})
    BY <1>1, <2>1
  <2>3. CASE Learnt(d)
    BY <1>0, <1>9, <2>2, <2>3, LearntKept DEF Counted
  <2>4. CASE capture = "broken" /\ list[1].mac = MacOf[d]
    <3>1. hpc # "creating"
      BY <1>0, <2>4 DEF ListFacts, EndInv
    <3>2. UNCHANGED <<list, capture>>
      BY <1>9, <2>4, <3>1, HandlerEffect
    <3> QED
      BY <2>4, <3>2 DEF Counted
  <2>5. CASE Pending(d) /\ now + Lag < openedAt + Timeout + late
    <3>1. CASE packet.from = d /\ Told(packet)
      BY <1>0, <1>9, <2>2, <3>1, HandledIsLearnt DEF Counted
    <3>2. CASE \E i \in DOMAIN buffer : buffer[i].from = d /\ Told(buffer[i])
      <4>1. Pending(d)'
        BY <2>1, <3>2 DEF Pending, Told
      <4> QED
        BY <2>1, <2>5, <4>1 DEF Counted, TimesStill
    <3> QED
      BY <2>5, <3>1, <3>2 DEF Pending
  <2> QED
    BY <2>2, <2>3, <2>4, <2>5 DEF Counted
<1>10. CASE LeaveLoop
  <2>1. /\ InPhase /\ ~cut /\ d \in timely /\ phase' = phase /\ ListStill
        /\ cpc = "looping" /\ breakFlag
        /\ capture = "broken" => capture' = "broken"
    BY <1>10, LeaveEffect DEF SessionStill, InPhase
  <2>2. Learnt(d) => Learnt(d)'
    BY <2>1 DEF Learnt, ListStill
  <2>3. Learnt(d) \/ (capture = "broken" /\ list[1].mac = MacOf[d])
    <3>1. capture = "broken" \/ now >= openedAt + Timeout
      BY <1>0, <2>1 DEF EndInv, Ended
    <3>2. CASE capture = "broken"
      <4>1. L!SameMac(d) # {}
        BY <1>0, <1>1, <2>1, <3>2 DEF EndInv
      <4> QED
        BY <1>0, <3>2, <4>1, BrokenIsLearnt
    <3>3. CASE now >= openedAt + Timeout
      <4>1. ~(now + Lag < openedAt + Timeout + late)
        BY <1>0, <3>3, Delays
      <4> QED
        BY <1>1, <2>1, <4>1 DEF Counted
    <3> QED
      BY <3>1, <3>2, <3>3
  <2> QED
    BY <2>1, <2>2, <2>3 DEF Counted, ListStill
<1>11. CASE CloseAdapter
  <2>1. /\ InPhase /\ ~cut /\ d \in timely /\ phase' = phase /\ ListStill
        /\ cpc = "joining" /\ capture' = capture
    BY <1>11, CloseEffect DEF SessionStill, InPhase
  <2>2. Learnt(d) => Learnt(d)'
    BY <2>1 DEF Learnt, ListStill
  <2> QED
    BY <1>1, <2>1, <2>2 DEF Counted, ListStill
<1>12. CASE TimerStep
  <2>1. ~cut
    BY <1>0, <1>12, TimerEffect DEF CutInv
  <2> QED
    BY <1>1, <1>12, <2>1, TimerEffect, CountedKept DEF InPhase
<1>13. CASE Tick
  <2>1. /\ InPhase /\ ~cut /\ d \in timely
        /\ UNCHANGED <<phase, cpc, capture, buffer, packet, openedAt>>
        /\ ListStill /\ now' = now + 1
        /\ late' = IF S!Due THEN late + 1 ELSE 0
    BY <1>13, TickEffect DEF InPhase
  <2>2. Learnt(d) => Learnt(d)'
    BY <2>1 DEF Learnt, ListStill
  <2>3. ASSUME Pending(d), cpc \in {"looping", "handling"},
               now + Lag < openedAt + Timeout + late
        PROVE  Pending(d)' /\ now' + Lag < openedAt' + Timeout + late'
    <3>1. late' = late + 1
      BY <1>0, <2>1, <2>3, PendingIsDue
    <3>2. Pending(d)'
      BY <2>1, <2>3 DEF Pending, Told
    <3> QED
      BY <1>0, <2>1, <2>3, <3>1, <3>2, Delays
  <2> QED
    BY <1>1, <2>1, <2>2, <2>3 DEF Counted, ListStill
<1>14. CASE UNCHANGED vars \/ Exited
  BY <1>1, <1>14, SameEffect, CountedKept DEF SessionStill, InPhase
<1> QED
  BY <1>2, <1>3, <1>4, <1>5, <1>6, <1>7, <1>8, <1>9, <1>10, <1>11, <1>12,
     <1>13, <1>14, Steps

LEMMA TimelyInvariant == Spec => []TimelyInv
<1>1. Init => TimelyInv
  BY DEF Init, S!Init, L!Init, TimelyInv, PacketInv, SetUpInv, EndInv, KnownInv,
         CutInv, AnswerInv, InPhase
<1>2. Facts /\ TimelyInv /\ [Next]_vars => TimelyInv'
  BY NextPacketInv, NextSetUpInv, NextEndInv, NextKnownInv, NextCutInv,
     NextAnswerInv DEF TimelyInv
<1> QED
  BY <1>1, <1>2, FactsInvariant, PTL DEF Spec

(***************************************************************************)
(* What a device says in time reaches its node, for any number of devices   *)
(* and any interleaving of main's sends, the sniffer, its timer and the     *)
(* clock: from the time the sniffer was due at the adapter until a delay    *)
(* before its timer first wakes, an answer that finds room is in the buffer  *)
(* or with the handler for a delay at most, and is then in the list          *)
(* (packetCapture.c:631-683, 719-770, 1384-1420).                            *)
(***************************************************************************)
THEOREM TimelyAnswersReach == Spec => []TimelyAnswersCount
<1>1. TimelyInv => TimelyAnswersCount
  BY DEF TimelyInv, AnswerInv, InPhase, Counted, TimelyAnswersCount
<1> QED
  BY <1>1, TimelyInvariant, PTL

=============================================================================
