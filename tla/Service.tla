-------------------------------- MODULE Service --------------------------------
(***************************************************************************)
(* The installed service over days: systemd restarts a process that failed *)
(* (configs/passive-solar-mqtt.service.example), the process connects to   *)
(* the broker, finds its capture interface and captures                    *)
(* (src/internal/capture/live_linux.go), while the broker and the network  *)
(* interfaces come and go and the dongle is quiet or not.                  *)
(*                                                                         *)
(* Time passes in ticks.  A tick waits for every step whose time has come; *)
(* the steps of the program take no time.  What happens on a connection is *)
(* Bridge's subject, and so are SIGTERM and a broker that accepts a        *)
(* connection and never answers.                                           *)
(***************************************************************************)
EXTENDS Integers

CONSTANTS
    Names,          \* network interface names
    AutoName,       \* the configured name "auto"
    None,           \* no interface
    RestartSec, StartLimitBurst, StartLimitInterval,  \* the unit's settings
    DetectTimeout,  \* detectOptions.Timeout
    DialTimeout     \* the longest the system tries to connect to a silent host

ASSUME TimesAssumption ==
    /\ RestartSec \in Nat \ {0} /\ StartLimitBurst \in Nat \ {0} /\ StartLimitInterval \in Nat
    /\ DetectTimeout \in Nat \ {0} /\ DialTimeout \in Nat

VARIABLES
    configured,  \* input.interface
    broker,      \* the broker accepts connections
    link,        \* per name: "up", "down" or "gone"
    path,        \* the interface that carries the dongle's connection
    phase,       \* of the unit: "waiting" for its restart, "failed" for good;
                 \* of the process: "connecting", "detecting", "opening", "binding",
                 \* "capturing"
    timer,       \* ticks since the phase began, as far as it has a limit
    candidates,  \* candidateInterfaceNames, taken when the detection began
    fallback,    \* the detection is the second one of ReadLive
    iface,       \* the interface to open, or the one the socket is bound to
    linkError,   \* no interface has the index looked up any more, or the kernel
                 \* has an error for the bound socket
    age,         \* ticks since the start limit window began, up to one beyond it
    starts,      \* starts in this window
    quiet,       \* history: runs of the window that ended without having seen traffic
    others,      \* history: a run of the window ended for another reason than the broker
    disturbed    \* history: the world has changed since the first start

world == <<configured, broker, link, path>>
unit == <<age, starts, quiet, others>>
process == <<phase, timer, candidates, fallback, iface, linkError>>
vars == <<world, unit, process, disturbed>>

Phases == {"waiting", "failed", "connecting", "detecting", "opening", "binding", "capturing"}

WorldTypeOK ==
    /\ configured \in Names \cup {AutoName}
    /\ broker \in BOOLEAN
    /\ link \in [Names -> {"up", "down", "gone"}]
    /\ path \in Names

ProcessTypeOK ==
    /\ phase \in Phases
    /\ timer \in Nat
    /\ candidates \subseteq Names
    /\ fallback \in BOOLEAN
    /\ iface \in Names \cup {None}
    /\ linkError \in BOOLEAN

UnitTypeOK ==
    /\ age \in 0 .. StartLimitInterval + 1
    /\ starts \in 1 .. StartLimitBurst
    /\ quiet \in 0 .. starts

TypeOK ==
    /\ WorldTypeOK /\ ProcessTypeOK /\ UnitTypeOK
    /\ others \in BOOLEAN /\ disturbed \in BOOLEAN

\* The first start of the unit.
Init ==
    /\ configured \in Names \cup {AutoName}
    /\ broker \in BOOLEAN
    /\ link \in [Names -> {"up", "down", "gone"}]
    /\ path \in Names
    /\ phase = "connecting" /\ timer = 0
    /\ candidates = {} /\ fallback = FALSE /\ iface = None /\ linkError = FALSE
    /\ age = 0 /\ starts = 1 /\ quiet = 0 /\ others = FALSE
    /\ disturbed = FALSE

-----------------------------------------------------------------------------
(* The world. *)

BrokerChanges ==
    /\ broker' = ~broker
    /\ disturbed' = TRUE
    /\ UNCHANGED <<configured, link, path, unit, process>>

\* An interface changes; a bound socket gets ENETDOWN when its own goes.  One
\* that is gone never returns under the index the detection knows.
LinkChanges(n, to) ==
    /\ link[n] # to
    /\ disturbed' = TRUE
    /\ link' = [link EXCEPT ![n] = to]
    /\ candidates' = IF to = "gone" THEN candidates \ {n} ELSE candidates
    /\ linkError' = \/ linkError
                    \/ phase = "binding" /\ iface = n /\ to = "gone"
                    \/ phase = "capturing" /\ iface = n /\ to # "up"
    /\ UNCHANGED <<configured, broker, path, unit, phase, timer, fallback, iface>>

\* The dongle is plugged in elsewhere.
PathChanges(n) ==
    /\ path # n
    /\ path' = n
    /\ disturbed' = TRUE
    /\ UNCHANGED <<configured, broker, link, unit, process>>

-----------------------------------------------------------------------------
(* The unit. *)

\* The process exits with an error: Restart=on-failure.
Fail ==
    /\ phase' = "waiting" /\ timer' = 0
    /\ candidates' = {} /\ fallback' = FALSE /\ iface' = None /\ linkError' = FALSE
    /\ UNCHANGED <<world, disturbed, age, starts>>

FailAlone == Fail /\ others' = TRUE /\ UNCHANGED quiet
FailQuiet == Fail /\ others' = TRUE /\ quiet' = quiet + 1
FailByBroker == Fail /\ UNCHANGED <<quiet, others>>

NewWindow == age' = 0 /\ starts' = 1 /\ quiet' = 0 /\ others' = FALSE

\* Mutant: there is no limit.
RestartUnlimited ==
    /\ phase = "waiting" /\ timer = RestartSec
    /\ phase' = "connecting" /\ timer' = 0
    /\ starts' = starts + 1
    /\ UNCHANGED <<world, disturbed, age, quiet, others, candidates, fallback, iface, linkError>>

\* Mutant: the window begins with the last start.
RestartSliding ==
    /\ phase = "waiting" /\ timer = RestartSec
    /\ \/ /\ age > StartLimitInterval /\ NewWindow
          /\ phase' = "connecting" /\ timer' = 0
       \/ /\ age <= StartLimitInterval /\ starts < StartLimitBurst
          /\ age' = 0 /\ starts' = starts + 1 /\ UNCHANGED <<quiet, others>>
          /\ phase' = "connecting" /\ timer' = 0
       \/ /\ age <= StartLimitInterval /\ starts = StartLimitBurst
          /\ phase' = "failed" /\ UNCHANGED <<timer, unit>>
    /\ UNCHANGED <<world, disturbed, candidates, fallback, iface, linkError>>

\* RestartSec is over: systemd starts the process, unless the window has had
\* all its starts.
Restart ==
    /\ phase = "waiting" /\ timer = RestartSec
    /\ \/ /\ age > StartLimitInterval /\ NewWindow
          /\ phase' = "connecting" /\ timer' = 0
       \/ /\ age <= StartLimitInterval /\ starts < StartLimitBurst
          /\ starts' = starts + 1 /\ UNCHANGED <<age, quiet, others>>
          /\ phase' = "connecting" /\ timer' = 0
       \/ /\ age <= StartLimitInterval /\ starts = StartLimitBurst
          /\ phase' = "failed" /\ UNCHANGED <<timer, unit>>
    /\ UNCHANGED <<world, disturbed, candidates, fallback, iface, linkError>>

-----------------------------------------------------------------------------
(* The process: main.run and ReadLive. *)

Up == {n \in Names : link[n] = "up"}

\* The first detection, or the one after a name that no interface has; without
\* an active interface it fails at once.
DetectOrFail(second) ==
    IF Up = {} THEN FailAlone
    ELSE /\ phase' = "detecting" /\ timer' = 0
         /\ candidates' = Up
         /\ fallback' = second
         /\ iface' = None
         /\ UNCHANGED <<world, disturbed, unit, linkError>>

Connect ==
    /\ phase = "connecting" /\ broker
    /\ IF configured = AutoName THEN DetectOrFail(FALSE)
       ELSE /\ phase' = "opening" /\ iface' = configured /\ timer' = 0
            /\ UNCHANGED <<world, disturbed, unit, candidates, fallback, linkError>>

\* The connection is refused, or the system gives up on a silent host.
ConnectFails ==
    /\ phase = "connecting" /\ ~broker
    /\ FailByBroker

\* detectLiveInterface: a frame of the dongle's connection on a candidate.
Detect ==
    /\ phase = "detecting"
    /\ link[path] = "up" /\ path \in candidates
    /\ phase' = "opening" /\ iface' = path /\ timer' = 0
    /\ candidates' = {}
    /\ UNCHANGED <<world, disturbed, unit, fallback, linkError>>

DetectTimesOut ==
    /\ phase = "detecting" /\ timer = DetectTimeout
    /\ FailQuiet

\* Mutant: a name that no interface has any more is the end.
OpenNoFallback ==
    /\ phase = "opening" /\ link[iface] = "gone"
    /\ FailAlone

\* InterfaceByName finds nothing: detect, once.
OpenGone ==
    /\ phase = "opening" /\ link[iface] = "gone"
    /\ IF fallback THEN FailAlone ELSE DetectOrFail(TRUE)

\* InterfaceByName finds the index.
Lookup ==
    /\ phase = "opening" /\ link[iface] # "gone"
    /\ phase' = "binding"
    /\ fallback' = FALSE
    /\ UNCHANGED <<world, disturbed, unit, timer, candidates, iface, linkError>>

\* Mutant: the error of bind is ignored.
BindUnchecked ==
    /\ phase = "binding"
    /\ phase' = "capturing"
    /\ linkError' = (link[iface] = "down")
    /\ UNCHANGED <<world, disturbed, unit, timer, candidates, fallback, iface>>

\* An interface that is down lets bind pass, with an error for later; then online
\* and the sensors are published.
Bind ==
    /\ phase = "binding" /\ ~linkError
    /\ phase' = "capturing"
    /\ linkError' = (link[iface] # "up")
    /\ UNCHANGED <<world, disturbed, unit, timer, candidates, fallback, iface>>

\* The interface went between the lookup and bind: no fallback any more.
BindFails ==
    /\ phase = "binding" /\ linkError
    /\ FailAlone

\* Recvfrom returns the error.
CaptureFails ==
    /\ phase = "capturing" /\ linkError
    /\ FailAlone

\* A publish fails and the reconnection as well.
PublishFails ==
    /\ phase = "capturing" /\ ~broker
    /\ FailByBroker

\* A step whose time has come.
Due ==
    \/ phase = "waiting" /\ timer = RestartSec
    \/ phase = "connecting" /\ (broker \/ timer = DialTimeout)
    \/ phase = "detecting" /\ timer = DetectTimeout
    \/ phase \in {"opening", "binding"}
    \/ phase = "capturing" /\ linkError

Tick ==
    /\ phase # "failed" /\ ~Due
    /\ timer' = IF phase = "capturing" THEN 0 ELSE timer + 1
    /\ age' = IF age > StartLimitInterval THEN age ELSE age + 1
    /\ UNCHANGED <<world, disturbed, starts, quiet, others, phase, candidates, fallback, iface, linkError>>

Program ==
    \/ Restart \/ Connect \/ ConnectFails \/ DetectTimesOut
    \/ OpenGone \/ Lookup \/ Bind \/ BindFails \/ CaptureFails

Next ==
    \/ BrokerChanges
    \/ \E n \in Names : PathChanges(n) \/ \E to \in {"up", "down", "gone"} : LinkChanges(n, to)
    \/ Program \/ Detect \/ PublishFails \/ Tick

\* Time passes, the program runs, and a dongle whose connection is visible is
\* not quiet for ever: it reports every few seconds, and reconnects if it must.
Spec ==
    /\ Init /\ [][Next]_vars
    /\ WF_vars(Program) /\ WF_vars(Tick) /\ SF_vars(Detect)

-----------------------------------------------------------------------------
\* Property: systemd gives the unit up only if the runs of the window left the
\* time for it: each failed run costs RestartSec and one without traffic
\* DetectTimeout as well.  With the unit's numbers a dongle that is quiet, over
\* night or for weeks, never costs the service: of the six failed runs at least
\* two have another reason.
QuietAloneNeverFails ==
    phase = "failed" =>
        quiet * DetectTimeout + StartLimitBurst * RestartSec <= StartLimitInterval

\* Property: a process that has opened its interface, and no error is pending
\* for it, has one that is up: none goes on capturing where nothing can come.
CapturesAlive == phase = "capturing" /\ ~linkError => link[iface] = "up"

\* Property: if in the end the world is stable, with the broker there and the
\* dongle's connection on an active interface, the service ends up capturing,
\* whatever it went through; candidates gathered too early, an interface name
\* that is gone and a dongle that is often quiet included.  Only a world that
\* has changed before can have made systemd give it up.  (A configured interface
\* that is there and down is opened, fails, and is opened again.)
Stable ==
    /\ <>[][UNCHANGED world]_vars
    /\ <>[](broker /\ link[path] = "up" /\ (configured # AutoName => link[configured] # "down"))
EndsUpCapturing ==
    Stable => <>[](phase = "capturing" \/ (phase = "failed" /\ disturbed))

\* Property: "If reconnecting also fails, the process exits with an error; the
\* example systemd unit restarts it" (README.md): the broker alone, gone for a
\* while, does not cost the service.
BrokerAloneNeverFails == phase = "failed" => others
=============================================================================
