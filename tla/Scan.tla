-------------------------------- MODULE Scan --------------------------------
(***************************************************************************)
(* The discovery phases of a local scan: CaptureSession's three threads and *)
(* DeviceList's requests, handlers and nodes in one state machine.  There   *)
(* an answer is a packet without content; here it is what a device says,    *)
(* captured while adhandle is open, taken from the buffer in its order and  *)
(* worked into the list by the handler of the phase it is taken in.         *)
(***************************************************************************)
EXTENDS Integers, Sequences

CONSTANTS
  \* CaptureSession's
  Timeout, Timeout4, ClockModulus, Lag, SendTime, MaxRequests,
  Horizon, QueueLimit,
  Budget,        \* bound: answers that are captured
  \* DeviceList's
  Devices, MacOf, IpOf, NoIpBlock, NoHandle, JunkHandle, Junk,
  Phases         \* bound: the phases that are followed

Mode == "local"

ASSUME ScanAssumption == Phases \in 1..3

VARIABLES
  \* CaptureSession's
  now, late, mpc, phase, sent, age, cpc, handle, breakFlag, tpc, t2, seen,
  wakeAt, t1, stop, budget, arrived, openedAt, answeredAt, reason,
  \* DeviceList's
  list, hpc, taken, count, current, capture, lookups, asked,
  \* what joins them
  buffer,      \* the answers captured and not yet given to the handler
  packet,      \* the answer the handler has been given
  \* history
  launchedAt,  \* when this phase's sniffer was created
  timely,      \* who has answered in this phase while it was to listen
  cut          \* this capture's loop was broken by a wrapped subtraction

\* threadData->first is not NULL and its handler is done with it.
Found == list # <<>> /\ hpc = "ready"

S == INSTANCE CaptureSession WITH
       queue <- Len(buffer), found <- Found, Answers <- Budget,
       Duration <- 0, Endless <- FALSE, MayFail <- FALSE

L == INSTANCE DeviceList WITH k <- sent, Targets <- <<Junk>>

ASSUME PartsAssumption ==
  /\ S!TimeAssumption /\ S!SessionAssumption
  /\ L!ListAssumption /\ L!DistinctAssumption /\ L!AddressAssumption

sessionVars ==
  <<now, late, mpc, phase, sent, age, cpc, handle, breakFlag, tpc, t2, seen,
    wakeAt, t1, stop, budget, arrived, openedAt, answeredAt, reason>>
listVars == <<list, hpc, taken, count, current, capture, lookups, asked>>
history  == <<launchedAt, timely, cut>>
vars     == <<sessionVars, listVars, buffer, packet, history>>

Init ==
  /\ buffer = <<>> /\ list = <<>> /\ hpc = "ready"
  /\ S!Init /\ L!Init
  /\ packet = L!Idle
  /\ launchedAt = 0 /\ timely = {} /\ cut = FALSE

-----------------------------------------------------------------------------
(* The main thread.                                                        *)

Launch ==
  /\ phase <= Phases
  /\ buffer' = buffer /\ UNCHANGED <<list, hpc>>
  /\ S!Launch /\ L!Launch
  /\ launchedAt' = now /\ timely' = {} /\ cut' = FALSE
  /\ UNCHANGED packet

\* sendPacket_DCP, or sendPacket_RPC to the next node.
SendRequest ==
  /\ buffer' = buffer /\ UNCHANGED <<list, hpc>>
  /\ S!SendRequest /\ (L!SendIdentify \/ L!SendLookup)
  /\ UNCHANGED <<packet, history>>

SendsOver ==
  /\ buffer' = buffer /\ UNCHANGED <<list, hpc>>
  /\ S!SendsOver /\ L!SendsOver
  /\ UNCHANGED <<packet, history>>

Join ==
  /\ buffer' = buffer /\ UNCHANGED <<list, hpc>>
  /\ S!Join /\ L!Join
  /\ UNCHANGED <<packet, history>>

-----------------------------------------------------------------------------
(* The devices.                                                            *)

\* The filter of the phase's sniffer.
Passes(a) == (S!Sniffer(phase) = "dcp") = (a.kind = "identify")

\* The sniffer was due at the adapter a delay ago, the handler has a delay left
\* before the timer wakes for the first time, and libpcap's buffer has room.
Listening ==
  /\ now > launchedAt + Lag /\ now + Lag < openedAt + Timeout
  /\ Len(buffer) < QueueLimit

\* Who answers with what the phase asks for.
Counts(a) == a.kind \in {"identify", "full"}

\* An answer reaches the adapter: it is captured, or lost when adhandle is not
\* open or its buffer is full.
Answer ==
  \E a \in L!Answers :
    /\ L!MayCome(a) /\ Passes(a)
    /\ timely' = IF Listening /\ Counts(a) THEN timely \cup {a.from} ELSE timely
    /\ UNCHANGED <<listVars, packet, launchedAt, cut>>
    /\ \/ buffer' = Append(buffer, a) /\ S!Arrive
       \/ /\ handle # "open" \/ Len(buffer) = QueueLimit
          /\ UNCHANGED <<buffer, sessionVars>>

-----------------------------------------------------------------------------
(* The sniffer.                                                            *)

SetUp ==
  /\ UNCHANGED <<listVars, packet, history>>
  /\ \/ buffer' = <<>> /\ S!OpenAdapter
     \/ buffer' = buffer /\ S!StartTimer

TakePacket ==
  /\ buffer # <<>> /\ buffer' = Tail(buffer)
  /\ UNCHANGED <<listVars, history>>
  /\ S!TakePacket
  /\ packet' = Head(buffer)

Handled == UNCHANGED <<buffer, history>> /\ packet' = L!Idle

\* packet_handler_dcp has linked the first node and has still to fill it.
LinkFirst ==
  /\ cpc = "handling" /\ list = <<>> /\ L!ListSender(packet)
  /\ UNCHANGED <<sessionVars, buffer, packet, history>>

FillFirst == Handled /\ L!FillFirst /\ S!HandleNew

HandleIdentify ==
  /\ cpc = "handling" /\ list # <<>> /\ Handled
  /\ L!ListSender(packet) /\ S!HandleNew

HandleUnknown ==
  /\ cpc = "handling" /\ Handled
  /\ L!KeepHandle(packet) /\ S!HandleSilently

HandleDescription ==
  /\ cpc = "handling" /\ Handled
  /\ L!KeepDescription(packet)
  /\ IF capture' = "broken" THEN S!HandleLast ELSE S!HandleUpdate

\* A device that is listed identifies itself again, or one that is not has
\* given its description.
HandleSilently ==
  /\ cpc = "handling" /\ hpc = "ready" /\ list # <<>>
  /\ (packet.kind = "identify") # (L!SameMac(packet.from) = {})
  /\ Handled /\ UNCHANGED listVars
  /\ S!HandleSilently

\* pcap_loop returns; what is left in the buffer goes with the handle.
LeaveLoop ==
  /\ buffer' = buffer
  /\ IF capture = "on" THEN L!EndCapture ELSE UNCHANGED listVars
  /\ S!LeaveLoop
  /\ UNCHANGED <<packet, history>>

CloseAdapter ==
  /\ buffer' = <<>>
  /\ UNCHANGED <<listVars, packet, history>>
  /\ S!CloseAdapter

-----------------------------------------------------------------------------
(* The timer and the clock, which do not look at the list.                 *)

TimerStep ==
  /\ buffer' = buffer /\ UNCHANGED <<listVars, packet, launchedAt, timely>>
  /\ \/ S!BreakWhenQuiet /\ cut' = (t1 > t2)
     \/ S!CheckDuration /\ cut' = cut
     \/ S!ReadClock /\ cut' = cut
     \/ S!CompareOrder /\ cut' = cut
     \/ S!KeepListening /\ cut' = cut
     \/ S!StoreAndSleep /\ cut' = cut
     \/ S!Wake /\ cut' = cut

Tick ==
  /\ buffer' = buffer /\ UNCHANGED <<listVars, packet, history>>
  /\ S!Tick

\* The scan is over, or the phases that are followed are.
Over == S!Over \/ (mpc = "launch" /\ phase > Phases)

Exited == Over /\ UNCHANGED vars

Next ==
  \/ Launch \/ SendRequest \/ SendsOver \/ Join
  \/ Answer
  \/ SetUp \/ TakePacket \/ LinkFirst \/ FillFirst \/ HandleIdentify
  \/ HandleUnknown \/ HandleDescription \/ HandleSilently
  \/ LeaveLoop \/ CloseAdapter
  \/ TimerStep \/ Tick \/ Exited

Spec == Init /\ [][Next]_vars

-----------------------------------------------------------------------------
(* Properties.                                                             *)

\* What a phase is to find out about a device: the list has it, or its node has
\* its description.
Learnt(d) ==
  \E i \in DOMAIN list :
    /\ list[i].mac = MacOf[d]
    /\ phase > 1 => list[i].about = "full"

(***************************************************************************)
(* A device that answers once the sniffer was due at the adapter, and a     *)
(* delay before its timer first wakes, counts: when main goes on from the   *)
(* DCP phase the list has it, and so it will be asked, and when main goes   *)
(* on from a lookup phase its node has the description it gave.  Neither    *)
(* that main sends before the adapter is open (main.c:957), nor the stamp   *)
(* the timer compares with, nor the answers of others may cost it that; two *)
(* things may: a subtraction of timeDiff that wrapped, and, for the first   *)
(* node alone, whose finished is not initialised, a handler's own end of    *)
(* the capture.                                                             *)
(***************************************************************************)
TimelyAnswersCount ==
  mpc = "join" /\ cpc = "done" /\ ~cut =>
    \A d \in timely :
      Learnt(d) \/ (capture = "broken" /\ list[1].mac = MacOf[d])

-----------------------------------------------------------------------------
(* The inductive invariants behind TimelyAnswersCount in ScanProofs.        *)

InPhase == mpc \in {"send", "join"}

\* What the devices are asked for in this phase.
Told(a) == a.kind = IF phase = 1 THEN "identify" ELSE "full"

\* What d says is captured and not yet worked into the list.
Pending(d) ==
  \/ \E i \in DOMAIN buffer : buffer[i].from = d /\ Told(buffer[i])
  \/ cpc = "handling" /\ packet.from = d /\ Told(packet)

\* The handler that creates the first node is still at its packet, and the node
\* is nobody's.
PacketInv ==
  hpc = "creating" =>
    cpc = "handling" /\ taken = packet /\ list[1].mac = Junk

\* A sniffer that has not set up its capture was created a delay ago at most.
SetUpInv ==
  /\ cpc \notin {"absent", "failed"} /\ launchedAt \in Nat
  /\ InPhase => cpc # "none"
  /\ cpc \in {"opening", "starting"} => now <= launchedAt + late
  /\ cpc = "starting" => ~breakFlag

\* The loop is over or will be.
Ended ==
  \/ cpc \in {"joining", "done"}
  \/ cpc \in {"looping", "handling"} /\ breakFlag

\* What may have ended the capture of the phase.
EndInv ==
  /\ InPhase /\ Ended => cut \/ capture = "broken" \/ now >= openedAt + Timeout
  /\ capture = "broken" => phase > 1

\* Who is asked for a description has a node.
KnownInv ==
  /\ timely \subseteq Devices
  /\ InPhase /\ phase > 1 => \A d \in timely : L!SameMac(d) # {}

\* A loop that a wrapped subtraction has broken has no timer any more.
CutInv == cut => cpc \notin {"opening", "starting"} /\ tpc \in {"none", "done"}

\* Where a timely answer is: in its node, or on its way there, which takes no
\* longer than a delay.
Counted(d) ==
  \/ Learnt(d)
  \/ capture = "broken" /\ list[1].mac = MacOf[d]
  \/ /\ cpc \in {"looping", "handling"} /\ Pending(d)
     /\ now + Lag < openedAt + Timeout + late

AnswerInv == InPhase /\ ~cut => \A d \in timely : Counted(d)

TimelyInv ==
  PacketInv /\ SetUpInv /\ EndInv /\ KnownInv /\ CutInv /\ AnswerInv

=============================================================================
