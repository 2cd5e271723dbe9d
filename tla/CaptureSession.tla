--------------------------- MODULE CaptureSession ---------------------------
(***************************************************************************)
(* The scan as its three threads run it.                                    *)
(*                                                                         *)
(*   main     launches a sniffer, sends the requests of the phase, joins    *)
(*            the sniffer, looks at g_scanStopRequested, goes on to the     *)
(*            next phase (main.c);                                          *)
(*   sniffer  opens adhandle, stamps t1_G, creates the timer thread, runs   *)
(*            pcap_loop, joins the timer, closes adhandle (packetCapture.c, *)
(*            remoteScan.c);                                                *)
(*   timer    loopTimerThread: checks --duration, then timeDiff(TIMEOUT4),  *)
(*            breaks the loop or sleeps TIMEOUT (packetCapture.c).          *)
(*                                                                         *)
(* t1_G, adhandle and g_scanStopRequested are shared without a lock, so     *)
(* timeDiff is split into its clock reading, its two loads of t1_G and its  *)
(* store.  What an answer says is abstracted to what its handler does to    *)
(* the session: nothing, a new list node, an update, or an update that      *)
(* completes the list and breaks the loop.                                  *)
(***************************************************************************)
EXTENDS Integers, Sequences

CONSTANTS
  Mode,          \* "local" (and topology) or "remote": which phases main runs
  Timeout,       \* TIMEOUT, the timer's sleep, in clock ticks
  Timeout4,      \* TIMEOUT4, the quiet time that ends a capture
  Duration,      \* --duration, 0 when the option is absent
  ClockModulus,  \* 2^64: the clock readings are uint64_t and so wrap
  Lag,           \* the ticks by which the scheduler may delay a ready thread
  SendTime,      \* the ticks main may spend on one request
  MaxRequests,   \* bound: requests of a phase
  Answers,       \* bound: packets that pass the filter, when not Endless
  Horizon,       \* bound: the clock's last tick, later than any scan ends
  QueueLimit,    \* bound: packets of the capture buffer; what finds it full is lost
  Endless,       \* TRUE: packets keep coming, at most one per tick
  MayFail        \* TRUE: threads and captures may fail to start

ASSUME TimeAssumption ==
  /\ Timeout \in Nat /\ Timeout4 \in Nat \ {0} /\ Lag \in Nat
  /\ Lag <= Timeout4 /\ Timeout4 < Timeout
  /\ Duration \in Nat /\ SendTime \in Nat \ {0}
  /\ ClockModulus \in Nat \ {0}

ASSUME SessionAssumption ==
  /\ Mode \in {"local", "remote"}
  /\ MaxRequests \in Nat \ {0} /\ Answers \in Nat /\ Horizon \in Nat
  /\ QueueLimit \in Nat \ {0}
  /\ Endless \in BOOLEAN /\ MayFail \in BOOLEAN

VARIABLES
  now,        \* get_monotonic_ms()
  late,       \* ticks since some ready thread has been waiting for the processor
  mpc,        \* main: where it is in the phase
  phase,      \* main: the phase, 1..LastPhase
  sent,       \* main: requests sent in this phase
  age,        \* main: ticks spent on the current request
  cpc,        \* sniffer: where it is in its capture function
  handle,     \* adhandle: "none", "open" or "closed"
  breakFlag,  \* libpcap's break_loop of adhandle
  queue,      \* packets captured and not yet given to the handler
  tpc,        \* timer: where it is in loopTimerThread
  t2,         \* timer: timeDiff's local clock reading
  seen,       \* timer: what timeDiff's first load of t1_G returned
  wakeAt,     \* timer: when its Sleep(TIMEOUT) is over
  t1,         \* t1_G
  stop,       \* g_scanStopRequested
  found,      \* threadData->first is not NULL
  budget,     \* packets the network may still produce
  arrived,    \* packets of this tick
  openedAt,   \* history: when this capture's loop was set up
  answeredAt, \* history: the last stamp of t1_G by a handler of this capture
  reason      \* history: why this capture's loop was first broken

mainVars    == <<mpc, phase, sent, age>>
captureVars == <<cpc, handle, queue>>
timerVars   == <<tpc, t2, seen, wakeAt>>
clockVars   == <<now, late>>
netVars     == <<budget, arrived>>
history     == <<openedAt, answeredAt, reason>>
vars == <<clockVars, mainVars, captureVars, breakFlag, timerVars, t1, stop,
          found, netVars, history>>

MainPc    == {"launch", "send", "join", "finalize", "exit"}
CapturePc == {"none", "absent", "opening", "starting", "looping", "handling",
              "joining", "done", "failed"}
TimerPc   == {"none", "duration", "clock", "first", "second", "store",
              "asleep", "done"}

\* The sniffer threads that main's WaitForSingleObject does not wait for.
CaptureOver == {"absent", "done", "failed"}
TimerAlive  == TimerPc \ {"none", "done"}

LastPhase == 6

(***************************************************************************)
(* main() starts one sniffer per phase: DCP, twice the local endpoint       *)
(* mapper and three implicit reads, or six phases of the remote sniffer.    *)
(***************************************************************************)
Sniffer(p) ==
  IF Mode = "remote" \/ p > 3 THEN "rem" ELSE IF p = 1 THEN "dcp" ELSE "ip"

Init ==
  /\ now = 0 /\ late = 0
  /\ mpc = "launch" /\ phase = 1 /\ sent = 0 /\ age = 0
  /\ cpc = "none" /\ handle = "none" /\ breakFlag = FALSE /\ queue = 0
  /\ tpc = "none" /\ t2 = 0 /\ seen = 0 /\ wakeAt = 0
  /\ t1 = 0 /\ stop = FALSE /\ found = FALSE
  /\ budget = Answers /\ arrived = 0
  /\ openedAt = 0 /\ answeredAt = 0 /\ reason = "none"

-----------------------------------------------------------------------------
(* The main thread.                                                        *)

\* The phase that main begins with an empty list is not sent: main.c:974.
NothingToSend == Mode = "local" /\ phase = 2 /\ ~found

(***************************************************************************)
(* CreateThread(sniffer).  A NULL handle is not looked at: main sends all   *)
(* the same, and the WaitForSingleObject(NULL) at the end returns at once.  *)
(***************************************************************************)
Launch ==
  /\ mpc = "launch"
  /\ \/ cpc' = "opening"
     \/ MayFail /\ cpc' = "absent"
  /\ mpc' = IF NothingToSend THEN "join" ELSE "send"
  /\ sent' = 0 /\ age' = 0
  /\ UNCHANGED <<phase, handle, breakFlag, queue, timerVars, t1, stop, found,
                 clockVars, netVars, history>>

\* sendPacket_DCP is called once; the other phases send a request per target,
\* device, subslot or slot.
RequestLimit == IF Sniffer(phase) = "dcp" THEN 1 ELSE MaxRequests

\* One iteration of the send loop; nothing in it looks at the capture.
SendRequest ==
  /\ mpc = "send" /\ sent < RequestLimit
  /\ sent' = sent + 1 /\ age' = 0
  /\ UNCHANGED <<mpc, phase, captureVars, breakFlag, timerVars, t1, stop,
                 found, clockVars, netVars, history>>

\* The loop ends: the DCP phase sends exactly one request, a list or slot walk
\* ends where the list does.
SendsOver ==
  /\ mpc = "send"
  /\ Sniffer(phase) = "dcp" => sent = RequestLimit
  /\ mpc' = "join" /\ age' = 0
  /\ UNCHANGED <<phase, sent, captureVars, breakFlag, timerVars, t1, stop,
                 found, clockVars, netVars, history>>

\* linkedlist_status(first) = -1 ends the program: remote after the first
\* phase, local after the second sniffer was joined.
NoDevices ==
  /\ ~found
  /\ \/ Mode = "remote" /\ phase = 1 /\ ~stop
     \/ Mode = "local" /\ phase = 2

\* Mutant of AfterJoin: the stop request is not looked at.
AfterJoinIgnoringStop ==
  IF NoDevices THEN "exit"
  ELSE IF phase = LastPhase THEN "finalize" ELSE "launch"

\* Mutant of AfterJoin: one phase too many.
AfterJoinOneMore ==
  IF NoDevices THEN "exit"
  ELSE IF stop \/ phase > LastPhase THEN "finalize" ELSE "launch"

\* WaitForSingleObject(sniffer) returned: what main does next.
AfterJoin ==
  IF NoDevices THEN "exit"
  ELSE IF stop \/ phase = LastPhase THEN "finalize" ELSE "launch"

\* Mutant of JoinReturns: main goes on while the sniffer runs.
JoinReturnsAtOnce == cpc # "none"

\* pthread_join returns when the sniffer has; WaitForSingleObject(NULL) at once.
JoinReturns == cpc \in CaptureOver

Join ==
  /\ mpc = "join" /\ JoinReturns
  /\ mpc' = AfterJoin
  /\ phase' = IF mpc' = "launch" THEN phase + 1 ELSE phase
  /\ UNCHANGED <<sent, age, captureVars, breakFlag, timerVars, t1, stop,
                 found, clockVars, netVars, history>>

\* Print the results, empty_list, free(threadData), return.
Finalize ==
  /\ mpc = "finalize"
  /\ mpc' = "exit"
  /\ UNCHANGED <<phase, sent, age, captureVars, breakFlag, timerVars, t1,
                 stop, found, clockVars, netVars, history>>

-----------------------------------------------------------------------------
(* The sniffer thread.                                                     *)

(***************************************************************************)
(* pcap_open_live, pcap_datalink, pcap_compile, pcap_setfilter.  Only the   *)
(* first failure leaves no handle open; none of the others closes it.       *)
(***************************************************************************)
OpenAdapter ==
  /\ cpc = "opening"
  /\ \/ /\ cpc' = "starting" /\ handle' = "open"
     \/ /\ MayFail /\ cpc' = "failed"
        /\ handle' \in {"none", "open"}
  /\ breakFlag' = FALSE /\ queue' = 0
  /\ UNCHANGED <<mainVars, timerVars, t1, stop, found, clockVars, netVars,
                 history>>

\* Mutant of SetUpStamp: the previous capture's stamp is kept.
SetUpWithoutStamp == t1' = t1

SetUpStamp == t1' = now

\* t1_G = get_monotonic_ms(); CreateThread(loopTimerThread).
StartTimer ==
  /\ cpc = "starting"
  /\ SetUpStamp
  /\ \/ cpc' = "looping" /\ tpc' = "duration"
     \/ MayFail /\ cpc' = "failed" /\ UNCHANGED tpc
  /\ openedAt' = now /\ answeredAt' = now /\ reason' = "none"
  /\ UNCHANGED <<mainVars, handle, breakFlag, queue, t2, seen, wakeAt, stop,
                 found, clockVars, netVars>>

\* pcap_loop gives the next packet to the handler.
TakePacket ==
  /\ cpc = "looping" /\ ~breakFlag /\ queue > 0
  /\ queue' = queue - 1 /\ cpc' = "handling"
  /\ UNCHANGED <<mainVars, handle, breakFlag, timerVars, t1, stop, found,
                 clockVars, netVars, history>>

Stamp == t1' = now /\ answeredAt' = now

\* A packet the handler returns from early: a request, an empty entry, a
\* duplicate, an "Unknown" endpoint, an answer of a device not in the list.
HandleSilently ==
  /\ cpc = "handling" /\ cpc' = "looping"
  /\ UNCHANGED <<mainVars, handle, breakFlag, queue, timerVars, t1, stop,
                 found, clockVars, netVars, history>>

\* packet_handler_dcp and packet_handler_IP_rem add a node and stamp t1_G.
HandleNew ==
  /\ cpc = "handling" /\ Sniffer(phase) \in {"dcp", "rem"}
  /\ cpc' = "looping" /\ found' = TRUE
  /\ Stamp
  /\ UNCHANGED <<mainVars, handle, breakFlag, queue, timerVars, stop,
                 clockVars, netVars, openedAt, reason>>

\* packet_handler_IP and getSubmodulPDRealData fill a node and stamp t1_G.
HandleUpdate ==
  /\ cpc = "handling" /\ Sniffer(phase) \in {"ip", "rem"} /\ found
  /\ cpc' = "looping"
  /\ Stamp
  /\ UNCHANGED <<mainVars, handle, breakFlag, queue, timerVars, stop, found,
                 clockVars, netVars, openedAt, reason>>

\* The same answer of packet_handler_IP, with every node finished now.
HandleLast ==
  /\ cpc = "handling" /\ Sniffer(phase) = "ip" /\ found
  /\ cpc' = "looping" /\ breakFlag' = TRUE
  /\ reason' = IF reason = "none" THEN "finished" ELSE reason
  /\ Stamp
  /\ UNCHANGED <<mainVars, handle, queue, timerVars, stop, found, clockVars,
                 netVars, openedAt>>

\* pcap_loop returns, clearing the flag it was broken by.
LeaveLoop ==
  /\ cpc = "looping" /\ breakFlag
  /\ breakFlag' = FALSE /\ cpc' = "joining"
  /\ UNCHANGED <<mainVars, handle, queue, timerVars, t1, stop, found,
                 clockVars, netVars, history>>

\* Mutant of TimerJoined: the timer is not waited for.
TimerNotJoined == TRUE

TimerJoined == tpc = "done"

\* WaitForSingleObject(loopBreakThread); pcap_close(adhandle).
CloseAdapter ==
  /\ cpc = "joining" /\ TimerJoined
  /\ handle' = "closed" /\ queue' = 0 /\ cpc' = "done"
  /\ UNCHANGED <<mainVars, breakFlag, timerVars, t1, stop, found, clockVars,
                 netVars, history>>

-----------------------------------------------------------------------------
(* The timer thread.                                                       *)

\* Mutant of Break: the timer returns and leaves the loop to the handlers.
ReturnOnly(why) ==
  /\ breakFlag' = breakFlag
  /\ reason' = IF reason = "none" THEN why ELSE reason
  /\ tpc' = "done"

Break(why) ==
  /\ breakFlag' = TRUE
  /\ reason' = IF reason = "none" THEN why ELSE reason
  /\ tpc' = "done"

\* Mutant of DurationElapsed: it counts from the start of the capture.
DurationElapsedHere == Duration > 0 /\ now - openedAt >= Duration

\* Mutant of DurationElapsed: --duration is compared with TIMEOUT less.
DurationElapsedEarly == Duration > 0 /\ now + Timeout >= Duration

\* g_scanStartMs is 0 on the model's clock.
DurationElapsed == Duration > 0 /\ now > 0 /\ now >= Duration

CheckDuration ==
  /\ tpc = "duration"
  /\ \/ /\ DurationElapsed
        /\ stop' = TRUE
        /\ Break("duration")
     \/ /\ ~DurationElapsed
        /\ tpc' = "clock"
        /\ UNCHANGED <<stop, breakFlag, reason>>
  /\ UNCHANGED <<mainVars, captureVars, t2, seen, wakeAt, t1, found,
                 clockVars, netVars, openedAt, answeredAt>>

\* timeDiff: t2 = get_monotonic_ms().
ReadClock ==
  /\ tpc = "clock"
  /\ t2' = now /\ tpc' = "first"
  /\ UNCHANGED <<mainVars, captureVars, breakFlag, seen, wakeAt, t1, stop,
                 found, clockVars, netVars, history>>

\* timeDiff: t2 > t1_G.
CompareOrder ==
  /\ tpc = "first"
  /\ seen' = t1
  /\ tpc' = IF t2 > t1 THEN "second" ELSE "store"
  /\ UNCHANGED <<mainVars, captureVars, breakFlag, t2, wakeAt, t1, stop,
                 found, clockVars, netVars, history>>

(***************************************************************************)
(* timeDiff: (t2 - t1_G) > TIMEOUT4, in unsigned arithmetic.  t1_G is a     *)
(* plain global: the unoptimised build loads it again, an optimising one    *)
(* may use the value it compared before.                                    *)
(***************************************************************************)
Loads == {seen, t1}

\* Mutant of Elapsed: time since the last sleep began, not since the stamp.
ElapsedSinceWake(from) == (t2 - (wakeAt - Timeout)) % ClockModulus

Elapsed(from) == (t2 - from) % ClockModulus

BreakWhenQuiet ==
  /\ tpc = "second"
  /\ \E from \in Loads : Elapsed(from) > Timeout4
  /\ Break("quiet")
  /\ UNCHANGED <<mainVars, captureVars, t2, seen, wakeAt, t1, stop, found,
                 clockVars, netVars, openedAt, answeredAt>>

KeepListening ==
  /\ tpc = "second"
  /\ \E from \in Loads : Elapsed(from) <= Timeout4
  /\ tpc' = "store"
  /\ UNCHANGED <<mainVars, captureVars, breakFlag, t2, seen, wakeAt, t1,
                 stop, found, clockVars, netVars, history>>

SleepTime == Timeout

\* timeDiff: t1_G = t2, which may undo a stamp; then Sleep(TIMEOUT).
StoreAndSleep ==
  /\ tpc = "store"
  /\ t1' = t2
  /\ tpc' = "asleep" /\ wakeAt' = now + SleepTime
  /\ UNCHANGED <<mainVars, captureVars, breakFlag, t2, seen, stop, found,
                 clockVars, netVars, history>>

\* Mutant of Wake: --duration is looked at before the loop only.
WakeBehindCheck ==
  /\ tpc = "asleep" /\ now >= wakeAt
  /\ tpc' = "clock"
  /\ UNCHANGED <<mainVars, captureVars, breakFlag, t2, seen, wakeAt, t1,
                 stop, found, clockVars, netVars, history>>

Wake ==
  /\ tpc = "asleep" /\ now >= wakeAt
  /\ tpc' = "duration"
  /\ UNCHANGED <<mainVars, captureVars, breakFlag, t2, seen, wakeAt, t1,
                 stop, found, clockVars, netVars, history>>

-----------------------------------------------------------------------------
(* The network and the clock.                                              *)

\* A packet that passes the filter while adhandle is open: an answer to any
\* request of this scan, early, late or twice, or another scanner's.
Arrive ==
  /\ handle = "open" /\ cpc \notin CaptureOver
  /\ queue < QueueLimit /\ arrived = 0
  /\ Endless \/ budget > 0
  /\ budget' = IF Endless THEN budget ELSE budget - 1
  /\ queue' = queue + 1 /\ arrived' = 1
  /\ UNCHANGED <<mainVars, cpc, handle, breakFlag, timerVars, t1, stop, found,
                 clockVars, history>>

CaptureDue ==
  \/ cpc \in {"opening", "starting", "handling"}
  \/ cpc = "looping" /\ (breakFlag \/ queue > 0)
  \/ cpc = "joining" /\ tpc = "done"
TimerDue ==
  \/ tpc \in TimerAlive \ {"asleep"}
  \/ tpc = "asleep" /\ now >= wakeAt
MainDue ==
  \/ mpc \in {"launch", "finalize"}
  \/ mpc = "join" /\ cpc \in CaptureOver
Due == CaptureDue \/ TimerDue \/ MainDue

(***************************************************************************)
(* Time passes; a thread that can run does so within Lag ticks, and main    *)
(* spends at most SendTime ticks on a request (Sleep(200), a ping).         *)
(***************************************************************************)
Tick ==
  /\ mpc # "exit" /\ now < Horizon
  /\ Due => late < Lag
  /\ mpc = "send" => age < SendTime
  /\ now' = now + 1
  /\ late' = IF Due THEN late + 1 ELSE 0
  /\ age' = IF mpc = "send" THEN age + 1 ELSE age
  /\ arrived' = 0
  /\ UNCHANGED <<mpc, phase, sent, captureVars, breakFlag, timerVars, t1,
                 stop, found, budget, history>>

\* The program has returned.  A scan that has not by Horizon never does: only
\* the model's clock ends there, and Terminates tells.
Over == mpc = "exit" \/ now = Horizon

Exited == Over /\ UNCHANGED vars

MainStep == Launch \/ SendRequest \/ SendsOver \/ Join \/ Finalize

HandlerStep == HandleSilently \/ HandleNew \/ HandleUpdate \/ HandleLast

CaptureStep ==
  OpenAdapter \/ StartTimer \/ TakePacket \/ HandlerStep \/ LeaveLoop
    \/ CloseAdapter

TimerStep ==
  CheckDuration \/ ReadClock \/ CompareOrder \/ BreakWhenQuiet
    \/ KeepListening \/ StoreAndSleep \/ Wake

Next == MainStep \/ CaptureStep \/ TimerStep \/ Arrive \/ Tick \/ Exited

Spec == Init /\ [][Next]_vars

\* Every thread is scheduled and the clock does not stand still.  Nothing is
\* assumed of the network.
Fairness ==
  /\ WF_vars(MainStep) /\ WF_vars(CaptureStep) /\ WF_vars(TimerStep)
  /\ WF_vars(Tick)

FairSpec == Spec /\ Fairness

-----------------------------------------------------------------------------
(* Properties.                                                             *)

FlagsOK == breakFlag \in BOOLEAN /\ stop \in BOOLEAN /\ found \in BOOLEAN

StateOK ==
  /\ now \in Nat /\ late \in Nat
  /\ mpc \in MainPc /\ phase \in 1..LastPhase
  /\ sent \in 0..MaxRequests /\ age \in 0..SendTime
  /\ cpc \in CapturePc /\ handle \in {"none", "open", "closed"}
  /\ queue \in Nat
  /\ tpc \in TimerPc
  /\ t2 \in Nat /\ seen \in Nat /\ wakeAt \in Nat /\ t1 \in Nat
  /\ budget \in 0..Answers /\ arrived \in 0..1
  /\ openedAt \in Nat /\ answeredAt \in Nat
  /\ reason \in {"none", "quiet", "duration", "finished"}

\* The type invariant: every variable of the three threads has its type.
TypeOK == StateOK /\ FlagsOK

(***************************************************************************)
(* pcap_breakloop(adhandle) is called by the timer on the handle of the     *)
(* capture that started it: as long as the timer runs, adhandle is open     *)
(* and its sniffer has not returned.  packetCapture.c:680-682 closes the    *)
(* handle only after joining the timer, however the loop was left.          *)
(***************************************************************************)
TimerOwnsOpenHandle ==
  tpc \in TimerAlive =>
    handle = "open" /\ cpc \in {"looping", "handling", "joining"}

(***************************************************************************)
(* When main walks, prints or frees threadData outside a phase, no sniffer  *)
(* and no timer of any phase is left that could touch it (main.c:801,       *)
(* 1096-1127), and a sniffer that ran its loop has closed its handle.       *)
(***************************************************************************)
NoThreadOutlivesJoin ==
  mpc \in {"launch", "finalize", "exit"} =>
    /\ cpc \in CaptureOver \cup {"none"}
    /\ tpc \notin TimerAlive
    /\ cpc = "done" => handle = "closed"

(***************************************************************************)
(* A capture is ended for quietness only if every answer its handlers       *)
(* stamped before the timer read the clock is more than TIMEOUT4 old, even  *)
(* when timeDiff's store undid such a stamp, or its subtraction wrapped     *)
(* because a stamp came between its two loads (packetCapture.c:1384-1388).  *)
(***************************************************************************)
QuietBreakIsQuiet ==
  [][BreakWhenQuiet => answeredAt >= t2 \/ t2 - answeredAt > Timeout4]_vars

(***************************************************************************)
(* A capture that is ended for quietness has listened for one TIMEOUT at    *)
(* least: the stamp of its set-up is what the first check compares with,    *)
(* not the one of the phase before (packetCapture.c:670, 759).  The only    *)
(* exception is an answer stamped after the timer read the clock, which     *)
(* makes the subtraction wrap: see NoBreakAfterStamp.                       *)
(***************************************************************************)
ListensOneTimeout ==
  [][BreakWhenQuiet => now - openedAt >= Timeout \/ answeredAt >= t2]_vars

(***************************************************************************)
(* Once a timer has asked for the scan to stop, no later phase opens the    *)
(* adapter: the request is visible to main's check after the join, whoever  *)
(* broke that loop (main.c:802-805 and after each phase).                   *)
(***************************************************************************)
StopIsFinal ==
  [][stop => (cpc' = "opening" => cpc = "opening")]_vars

(***************************************************************************)
(* The scan is never stopped before --duration is over, counted from the    *)
(* start of the scan and not of the phase (packetCapture.c:1400-1405).      *)
(***************************************************************************)
StopsNotEarly ==
  stop => Duration > 0 /\ now >= Duration

(***************************************************************************)
(* How far a capture may run over --duration: the timer looks only every    *)
(* TIMEOUT, so up to TIMEOUT and the scheduler's delays; a capture launched *)
(* later than that is broken by its timer's first look.                     *)
(***************************************************************************)
OverrunBounded ==
  Duration > 0 /\ cpc = "looping" /\ ~breakFlag =>
    \/ now <= Duration + Timeout + 2 * Lag
    \/ now <= openedAt + Lag

(***************************************************************************)
(* The scan ends: each capture falls quiet when the answers stop, or is     *)
(* stopped by --duration however many packets keep coming, and main goes    *)
(* through its phases.                                                      *)
(***************************************************************************)
Terminates == <>(mpc = "exit")

(***************************************************************************)
(* README.md:98, "Stop the scan after the given number of seconds": no      *)
(* capture loop goes on, not even by the scheduler's delay, later than      *)
(* --duration.  The code does not keep it.                                  *)
(***************************************************************************)
DurationHonoured ==
  Duration > 0 /\ cpc = "looping" /\ ~breakFlag => now <= Duration + Lag

(***************************************************************************)
(* packetCapture.c:1393, "check every timeout if the time was set back if   *)
(* not, every packet should be here": the timer does not break the loop     *)
(* when an answer has set t1_G to a time later than the clock it read.  The *)
(* code does not keep it: a stamp between its two loads of t1_G makes       *)
(* t2 - t1_G wrap to a huge unsigned number.                                *)
(***************************************************************************)
NoBreakAfterStamp == [][BreakWhenQuiet => t1 <= t2]_vars

-----------------------------------------------------------------------------
(* The inductive invariants behind the theorems of CaptureSessionProofs.   *)

\* Who may be alive when, and who holds adhandle open.
ThreadInv ==
  /\ tpc \in TimerAlive => cpc \in {"looping", "handling", "joining"}
  /\ cpc \in {"starting", "looping", "handling", "joining"} => handle = "open"
  /\ mpc \in {"launch", "finalize", "exit"} => cpc \in CaptureOver \cup {"none"}
  /\ cpc = "done" => handle = "closed"

\* Where in its round the timer still knows of a stamp that t1_G has lost: its
\* store undid the stamp TIMEOUT before it wakes, so the stamp is old by then.
StampInv ==
  /\ answeredAt <= now /\ t1 <= now /\ t2 <= now
  /\ answeredAt > t1 =>
       /\ tpc = "asleep" => wakeAt >= answeredAt + Timeout
       /\ tpc \in {"duration", "clock"} => now >= answeredAt + Timeout
       /\ tpc \in {"first", "second", "store"} => t2 >= answeredAt + Timeout
  /\ tpc = "second" => t2 > seen /\ (seen = t1 \/ answeredAt >= t2)

\* A round that has not slept is at most Lag ticks from the set-up.
RoundInv ==
  /\ late <= Lag
  /\ tpc \in TimerAlive => openedAt <= t1
  /\ tpc \in {"first", "second", "store"} => openedAt <= t2
  /\ tpc = "second" => openedAt <= seen
  /\ tpc = "asleep" => wakeAt >= openedAt + Timeout
  /\ tpc \in TimerAlive \ {"asleep"} =>
       now >= openedAt + Timeout \/ now <= openedAt + late

\* main does not start a phase when a stop is asked for.
StopInv == stop => mpc # "launch"

\* How late after --duration each point of the timer's round can be reached.
OverrunInv ==
  /\ cpc = "starting" => ~breakFlag
  /\ cpc \in {"looping", "handling"} /\ ~breakFlag => tpc \in TimerAlive
  /\ Duration > 0 =>
       /\ tpc \in {"clock", "first", "second", "store"} =>
            now < Duration + late
       /\ tpc = "asleep" =>
            wakeAt < Duration + Lag + Timeout /\ now <= wakeAt + late
       /\ tpc = "duration" =>
            \/ now < Duration + Lag + Timeout + late
            \/ now <= openedAt + late

=============================================================================
