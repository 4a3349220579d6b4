----------------------------- MODULE ServiceProofs -----------------------------
(***************************************************************************)
(* Proofs about the service for every set of interfaces and every setting  *)
(* of the unit's times and limits; TLC checks one scaled down instance.    *)
(***************************************************************************)
EXTENDS Service, TLAPS

\* What the runs of a window that have ended cost: q of s - 1 restarted runs
\* lasted as long as a detection.
Spent(q, s) == q * DetectTimeout + (s - 1) * RestartSec

LEMMA SpentType ==
    ASSUME NEW q \in Nat, NEW s \in Nat \ {0} PROVE Spent(q, s) \in Nat
    <1>1. q * DetectTimeout \in Nat /\ (s - 1) * RestartSec \in Nat
        BY TimesAssumption
    <1> QED
        BY <1>1 DEF Spent

LEMMA SpentFirst == Spent(0, 1) = 0
    BY TimesAssumption DEF Spent

LEMMA SpentQuiet ==
    ASSUME NEW q \in Nat, NEW s \in Nat \ {0}
    PROVE  Spent(q + 1, s) = Spent(q, s) + DetectTimeout
    <1>1. (q + 1) * DetectTimeout = q * DetectTimeout + DetectTimeout
        BY TimesAssumption
    <1>2. q * DetectTimeout \in Nat /\ (s - 1) * RestartSec \in Nat
        BY TimesAssumption
    <1> QED
        BY <1>1, <1>2, TimesAssumption DEF Spent

LEMMA SpentRestart ==
    ASSUME NEW q \in Nat, NEW s \in Nat \ {0}
    PROVE  Spent(q, s + 1) = Spent(q, s) + RestartSec
    <1>1. ((s + 1) - 1) * RestartSec = (s - 1) * RestartSec + RestartSec
        BY TimesAssumption
    <1>2. q * DetectTimeout \in Nat /\ (s - 1) * RestartSec \in Nat
        BY TimesAssumption
    <1> QED
        BY <1>1, <1>2, TimesAssumption DEF Spent

\* The window is over, or it has lasted for all that was spent in it, and for
\* the time the unit has waited, or the process has detected, by now.
Waited == IF phase \in {"waiting", "detecting"} THEN timer ELSE 0
Clock == age > StartLimitInterval \/ age >= Spent(quiet, starts) + Waited

\* The run that is going on is not one that ended.
QuietEnded == phase \notin {"waiting", "failed"} => quiet < starts

\* There is an interface to open, or that is open.
Chosen == phase \in {"opening", "binding", "capturing"} => iface \in Names

IInv ==
    /\ TypeOK
    /\ Chosen
    /\ QuietEnded
    /\ phase # "failed" => Clock
    /\ QuietAloneNeverFails
    /\ CapturesAlive

LEMMA IInvInit == Init => IInv
    <1> SUFFICES ASSUME Init PROVE IInv
        OBVIOUS
    <1>1. TypeOK
        <2>1. WorldTypeOK /\ ProcessTypeOK
            BY TimesAssumption DEF Init, TypeOK, WorldTypeOK, ProcessTypeOK, Phases
        <2>2. UnitTypeOK
            BY TimesAssumption DEF Init, TypeOK, UnitTypeOK
        <2>3. (others \in BOOLEAN /\ disturbed \in BOOLEAN)
            BY TimesAssumption DEF Init, TypeOK
        <2> QED
            BY <2>1, <2>2, <2>3 DEF TypeOK
    <1>3. QuietEnded /\ Chosen /\ QuietAloneNeverFails /\ CapturesAlive
        BY DEF Init, QuietEnded, Chosen, QuietAloneNeverFails, CapturesAlive
    <1>2. Clock
        BY SpentFirst DEF Init, Clock, Waited
    <1> QED
        BY <1>1, <1>2, <1>3 DEF IInv

-----------------------------------------------------------------------------
(* The world leaves the unit and the timer of the process alone. *)

LEMMA WorldStep ==
    ASSUME IInv,
           \/ BrokerChanges
           \/ \E n \in Names : PathChanges(n) \/ \E to \in {"up", "down", "gone"} : LinkChanges(n, to)
    PROVE  IInv'
    <1> USE DEF IInv
    <1>1. TypeOK'
        BY DEF TypeOK, WorldTypeOK, ProcessTypeOK, UnitTypeOK, BrokerChanges, PathChanges,
               LinkChanges, unit, process
    <1>2. /\ UNCHANGED unit /\ UNCHANGED <<phase, timer>>
        BY DEF BrokerChanges, PathChanges, LinkChanges, process
    <1>3. QuietEnded' /\ (phase # "failed" => Clock)' /\ QuietAloneNeverFails'
        BY <1>2 DEF unit, QuietEnded, Clock, Waited, QuietAloneNeverFails, Spent
    <1>5. Chosen'
        BY DEF BrokerChanges, PathChanges, LinkChanges, process, Chosen
    <1>4. CapturesAlive'
        <2>1. CASE BrokerChanges \/ \E n \in Names : PathChanges(n)
            BY <2>1 DEF BrokerChanges, PathChanges, process, CapturesAlive
        <2>2. ASSUME NEW n \in Names, NEW to \in {"up", "down", "gone"}, LinkChanges(n, to)
              PROVE  CapturesAlive'
            BY <2>2 DEF LinkChanges, CapturesAlive, Chosen, TypeOK, WorldTypeOK, ProcessTypeOK
        <2> QED
            BY <2>1, <2>2
    <1> QED
        BY <1>1, <1>3, <1>4, <1>5

(* The process ends. *)

\* A run that ends for any reason but a detection without traffic.
LEMMA FailStep ==
    ASSUME IInv, FailAlone \/ FailByBroker, phase # "failed" PROVE IInv'
    <1> USE DEF IInv
    <1>1. TypeOK'
        <2>1. WorldTypeOK'
            BY DEF FailAlone, FailByBroker, Fail, world, TypeOK, WorldTypeOK
        <2>4. ProcessTypeOK'
            <3>1. Fail
                BY DEF FailAlone, FailByBroker
            <3> QED
                BY <3>1 DEF Fail, ProcessTypeOK, Phases
        <2>2. UnitTypeOK'
            BY DEF FailAlone, FailByBroker, Fail, world, TypeOK, UnitTypeOK
        <2>3. (others \in BOOLEAN /\ disturbed \in BOOLEAN)'
            BY DEF FailAlone, FailByBroker, Fail, world, TypeOK
        <2> QED
            BY <2>1, <2>2, <2>3, <2>4 DEF TypeOK
    <1>2. (phase # "failed" => Clock)'
        <2>1. Spent(quiet, starts) \in Nat
            BY SpentType DEF TypeOK, UnitTypeOK
        <2>2. Waited \in Nat /\ Waited' = 0 /\ UNCHANGED <<age, quiet, starts>>
            BY DEF FailAlone, FailByBroker, Fail, Waited, TypeOK, ProcessTypeOK
        <2>3. age \in Nat /\ StartLimitInterval \in Nat
            BY TimesAssumption DEF TypeOK, UnitTypeOK
        <2>4. Clock
            OBVIOUS
        <2> QED
            BY <2>1, <2>2, <2>3, <2>4 DEF Clock
    <1>3. QuietEnded' /\ QuietAloneNeverFails' /\ Chosen' /\ CapturesAlive'
        BY DEF Chosen, FailAlone, FailByBroker, Fail, QuietEnded, QuietAloneNeverFails, CapturesAlive
    <1> QED
        BY <1>1, <1>2, <1>3

\* A detection without traffic: its time is spent.
LEMMA QuietStep == ASSUME IInv, DetectTimesOut PROVE IInv'
    <1> USE DEF IInv
    <1> USE DEF DetectTimesOut, FailQuiet, Fail
    <1>1. quiet \in Nat /\ starts \in Nat \ {0} /\ age \in Nat /\ quiet < starts
        BY TimesAssumption DEF TypeOK, UnitTypeOK, QuietEnded
    <1>2. TypeOK'
        <2>1. WorldTypeOK' /\ ProcessTypeOK'
            BY <1>1 DEF world, TypeOK, WorldTypeOK, ProcessTypeOK, Phases
        <2>2. UnitTypeOK'
            BY <1>1 DEF world, TypeOK, UnitTypeOK
        <2>3. (others \in BOOLEAN /\ disturbed \in BOOLEAN)'
            BY <1>1 DEF world, TypeOK
        <2> QED
            BY <2>1, <2>2, <2>3 DEF TypeOK
    <1>3. (phase # "failed" => Clock)'
        <2>1. Clock /\ Waited = DetectTimeout
            BY DEF Waited
        <2>2. Waited' = 0 /\ UNCHANGED <<age, starts>> /\ quiet' = quiet + 1
            BY DEF Waited
        <2>3. Spent(quiet + 1, starts) = Spent(quiet, starts) + DetectTimeout
            BY <1>1, SpentQuiet
        <2>4. Spent(quiet', starts') + Waited' = Spent(quiet, starts) + Waited
            BY <1>1, <2>1, <2>2, <2>3, SpentType, TimesAssumption
        <2> QED
            BY <2>1, <2>2, <2>4 DEF Clock
    <1>4. QuietEnded' /\ QuietAloneNeverFails' /\ Chosen' /\ CapturesAlive'
        BY DEF Chosen, QuietEnded, QuietAloneNeverFails, CapturesAlive
    <1> QED
        BY <1>2, <1>3, <1>4

-----------------------------------------------------------------------------
(* The unit starts the process again, or gives it up. *)

LEMMA RestartStep == ASSUME IInv, Restart PROVE IInv'
    <1> USE DEF IInv
    <1>1. /\ phase = "waiting" /\ timer = RestartSec /\ Waited = RestartSec
          /\ Clock
        BY DEF Restart, Waited
    <1>2. /\ quiet \in Nat /\ starts \in Nat \ {0} /\ age \in Nat /\ quiet <= starts
          /\ Spent(quiet, starts) \in Nat
        BY SpentType DEF TypeOK, UnitTypeOK
    <1>3. TypeOK'
        <2>1. WorldTypeOK' /\ ProcessTypeOK'
            BY <1>2, TimesAssumption DEF Restart, NewWindow, world, unit, TypeOK, WorldTypeOK, ProcessTypeOK, Phases
        <2>2. UnitTypeOK'
            BY <1>2, TimesAssumption DEF Restart, NewWindow, world, unit, TypeOK, UnitTypeOK
        <2>3. (others \in BOOLEAN /\ disturbed \in BOOLEAN)'
            BY <1>2, TimesAssumption DEF Restart, NewWindow, world, unit, TypeOK
        <2> QED
            BY <2>1, <2>2, <2>3 DEF TypeOK
    <1>4. Chosen' /\ CapturesAlive'
        BY DEF Restart, Chosen, CapturesAlive
    <1>5. CASE phase' = "connecting" /\ NewWindow
        <2>1. QuietEnded' /\ QuietAloneNeverFails'
            BY <1>5 DEF NewWindow, QuietEnded, QuietAloneNeverFails
        <2>2. Clock'
            BY <1>5, SpentFirst DEF NewWindow, Clock, Waited
        <2> QED
            BY <1>3, <1>4, <2>1, <2>2
    <1>6. CASE phase' = "connecting" /\ starts' = starts + 1 /\ UNCHANGED <<age, quiet, others>>
        <2>1. QuietEnded' /\ QuietAloneNeverFails'
            BY <1>2, <1>6 DEF QuietEnded, QuietAloneNeverFails
        <2>2. Spent(quiet', starts') + Waited' = Spent(quiet, starts) + RestartSec
            BY <1>2, <1>6, SpentRestart, TimesAssumption DEF Waited
        <2>3. Clock'
            BY <1>1, <1>6, <2>2 DEF Clock
        <2> QED
            BY <1>3, <1>4, <2>1, <2>3
    <1>7. CASE /\ phase' = "failed" /\ UNCHANGED <<timer, unit>>
               /\ age <= StartLimitInterval /\ starts = StartLimitBurst
        <2>1. Spent(quiet, starts) + RestartSec <= StartLimitInterval
            BY <1>1, <1>2, <1>7, TimesAssumption DEF Clock
        <2>2. Spent(quiet, starts) + RestartSec = Spent(quiet, starts + 1)
            BY <1>2, SpentRestart
        <2>3. Spent(quiet, starts + 1) = quiet * DetectTimeout + starts * RestartSec
            BY <1>2, TimesAssumption DEF Spent
        <2>4. QuietAloneNeverFails'
            BY <1>7, <2>1, <2>2, <2>3 DEF unit, QuietAloneNeverFails
        <2>5. QuietEnded'
            BY <1>7 DEF QuietEnded
        <2> QED
            BY <1>3, <1>4, <1>7, <2>4, <2>5
    <1> QED
        BY <1>5, <1>6, <1>7 DEF Restart

-----------------------------------------------------------------------------
(* The process goes on, and no time with it. *)

LEMMA ForwardStep ==
    ASSUME IInv,
           phase \in {"connecting", "detecting", "opening", "binding"},
           phase' \in {"detecting", "opening", "binding", "capturing"},
           UNCHANGED unit, TypeOK', phase' = "detecting" => timer' = 0, Chosen', CapturesAlive'
    PROVE  IInv'
    <1> USE DEF IInv
    <1>1. QuietEnded' /\ QuietAloneNeverFails'
        BY DEF QuietEnded, QuietAloneNeverFails, unit
    <1>2. Waited \in Nat /\ Waited' = 0 /\ Spent(quiet, starts) \in Nat
        BY SpentType DEF Waited, TypeOK, ProcessTypeOK, UnitTypeOK
    <1>3. age \in Nat /\ StartLimitInterval \in Nat
        BY TimesAssumption DEF TypeOK, UnitTypeOK
    <1>4. Clock'
        BY <1>2, <1>3 DEF Clock, unit
    <1> QED
        BY <1>1, <1>4

LEMMA DetectOrFailStep ==
    ASSUME IInv, NEW second \in BOOLEAN, DetectOrFail(second), phase \in {"connecting", "opening"}
    PROVE  IInv'
    <1>1. CASE Up = {}
        BY <1>1, FailStep DEF DetectOrFail
    <1>2. CASE Up # {}
        <2> USE <1>2 DEF DetectOrFail, IInv
        <2>1. TypeOK'
            BY DEF TypeOK, WorldTypeOK, ProcessTypeOK, UnitTypeOK, Phases, Up, world, unit
        <2>2. Chosen' /\ CapturesAlive'
            BY DEF Chosen, CapturesAlive
        <2> QED
            BY <2>1, <2>2, ForwardStep
    <1> QED
        BY <1>1, <1>2

LEMMA ConnectStep == ASSUME IInv, Connect PROVE IInv'
    <1>1. CASE configured = AutoName
        BY <1>1, DetectOrFailStep DEF Connect
    <1>2. CASE configured # AutoName
        <2> USE <1>2 DEF Connect, IInv
        <2>1. TypeOK'
            BY DEF TypeOK, WorldTypeOK, ProcessTypeOK, UnitTypeOK, Phases, world, unit
        <2>2. Chosen' /\ CapturesAlive'
            BY DEF Chosen, CapturesAlive, TypeOK, WorldTypeOK
        <2> QED
            BY <2>1, <2>2, ForwardStep
    <1> QED
        BY <1>1, <1>2

LEMMA DetectStep == ASSUME IInv, Detect PROVE IInv'
    <1> USE DEF Detect, IInv
    <1>1. TypeOK'
        BY DEF TypeOK, WorldTypeOK, ProcessTypeOK, UnitTypeOK, Phases, world, unit
    <1>2. Chosen' /\ CapturesAlive'
        BY DEF Chosen, CapturesAlive, TypeOK, WorldTypeOK
    <1> QED
        BY <1>1, <1>2, ForwardStep

LEMMA OpenStep == ASSUME IInv, Lookup \/ Bind PROVE IInv'
    <1> USE DEF IInv
    <1>1. CASE Lookup
        <2>1. TypeOK'
            BY <1>1 DEF Lookup, TypeOK, WorldTypeOK, ProcessTypeOK, UnitTypeOK, Phases, world, unit
        <2>2. Chosen' /\ CapturesAlive'
            BY <1>1 DEF Lookup, Chosen, CapturesAlive
        <2> QED
            BY <1>1, <2>1, <2>2, ForwardStep DEF Lookup
    <1>2. CASE Bind
        <2>1. TypeOK'
            BY <1>2 DEF Bind, TypeOK, WorldTypeOK, ProcessTypeOK, UnitTypeOK, Phases, world, unit
        <2>2. Chosen' /\ CapturesAlive'
            BY <1>2 DEF Bind, Chosen, CapturesAlive, world
        <2> QED
            BY <1>2, <2>1, <2>2, ForwardStep DEF Bind
    <1> QED
        BY <1>1, <1>2

\* Time passes: for the window as for whoever waits.
LEMMA TickStep == ASSUME IInv, Tick PROVE IInv'
    <1> USE DEF Tick, IInv
    <1>1. /\ age \in Nat /\ StartLimitInterval \in Nat /\ timer \in Nat
          /\ Spent(quiet, starts) \in Nat
        BY SpentType, TimesAssumption DEF TypeOK, ProcessTypeOK, UnitTypeOK
    <1>2. TypeOK'
        BY <1>1 DEF TypeOK, WorldTypeOK, ProcessTypeOK, UnitTypeOK, world
    <1>3. QuietEnded' /\ QuietAloneNeverFails' /\ Chosen' /\ CapturesAlive'
        BY DEF Chosen, QuietEnded, QuietAloneNeverFails, CapturesAlive, world
    <1>4. Clock'
        <2>1. Waited \in Nat /\ Waited' \in Nat /\ Waited' <= Waited + 1
            BY <1>1 DEF Waited
        <2>2. Clock /\ UNCHANGED <<quiet, starts>>
            OBVIOUS
        <2> QED
            BY <1>1, <2>1, <2>2 DEF Clock
    <1> QED
        BY <1>2, <1>3, <1>4

LEMMA IInvStep == IInv /\ [Next]_vars => IInv'
    <1> SUFFICES ASSUME IInv, [Next]_vars PROVE IInv'
        OBVIOUS
    <1>1. CASE UNCHANGED vars
        BY <1>1 DEF vars, world, unit, process, IInv, TypeOK, WorldTypeOK, ProcessTypeOK, UnitTypeOK, Chosen, QuietEnded, Clock,
                    Waited, Spent,
                    QuietAloneNeverFails, CapturesAlive
    <1>2. CASE \/ BrokerChanges
               \/ \E n \in Names : PathChanges(n) \/ \E to \in {"up", "down", "gone"} : LinkChanges(n, to)
        BY <1>2, WorldStep
    <1>3. CASE Restart
        BY <1>3, RestartStep
    <1>4. CASE ConnectFails \/ BindFails \/ CaptureFails \/ PublishFails
        BY <1>4, FailStep DEF ConnectFails, BindFails, CaptureFails, PublishFails
    <1>5. CASE DetectTimesOut
        BY <1>5, QuietStep
    <1>6. CASE OpenGone
        BY <1>6, FailStep, DetectOrFailStep DEF OpenGone
    <1>7. CASE Connect \/ Detect \/ Lookup \/ Bind \/ Tick
        BY <1>7, ConnectStep, DetectStep, OpenStep, TickStep
    <1> QED
        BY <1>1, <1>2, <1>3, <1>4, <1>5, <1>6, <1>7 DEF Next, Program

LEMMA IInvHolds == Spec => []IInv
    BY IInvInit, IInvStep, PTL DEF Spec

\* Every variable stays in its set.
THEOREM TypeCorrect == Spec => []TypeOK
    <1>1. IInv => TypeOK
        BY DEF IInv
    <1> QED
        BY <1>1, IInvHolds, PTL

\* Whatever the times and the limits of the unit are, systemd gives it up only if
\* the window had the time for all its restarts and for the detections that saw
\* no traffic: with 15 s, 120 s, six starts and ten minutes, quiet runs alone
\* never do it.
THEOREM QuietCorrect == Spec => []QuietAloneNeverFails
    <1>1. IInv => QuietAloneNeverFails
        BY DEF IInv
    <1> QED
        BY <1>1, IInvHolds, PTL

\* On any number of interfaces that come and go at any moment, the process does
\* not go on capturing on one that is not up: there is an error to be read.
THEOREM AliveCorrect == Spec => []CapturesAlive
    <1>1. IInv => CapturesAlive
        BY DEF IInv
    <1> QED
        BY <1>1, IInvHolds, PTL
=============================================================================
