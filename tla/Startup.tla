-------------------------------- MODULE Startup --------------------------------
(***************************************************************************)
(* From the command line to run: main, its flags and its interactive setup *)
(* in cmd/passive-solar-mqtt/main.go, and the configuration files of       *)
(* internal/config/config.go, over several starts of the program, with     *)
(* answers that do not come, writes that fail and a crash at any point.    *)
(*                                                                         *)
(* Values are few: an interface name, capture files by where they lie, a   *)
(* value of nothing but quotes, and for a required setting whether it is   *)
(* there.  A file that was truncated is the configuration with no settings.*)
(***************************************************************************)
EXTENDS Naturals, Sequences

CONSTANTS
    Homes,       \* directories HOME may be; also the files below them
    ConfigHomes, \* what XDG_CONFIG_HOME may be, "" if it is not set
    Required,    \* the settings asked for one by one, in order
    DiskConfigs, \* configurations written by hand
    FlagSets,    \* command lines
    Answers,     \* what a user types for an input source
    MaxStarts,   \* bound: starts of the program
    None

ASSUME StartupAssumption ==
    /\ Homes \cap {"", "blank", "eth0", "rel", "var", "etc"} = {}
    /\ MaxStarts \in Nat
    /\ DOMAIN Required = 1 .. Len(Required) /\ Len(Required) \in Nat

\* Paths and names: "var" is ${HOME}/..., "rel" a file outside of HOME,
\* "blank" a pair of quotes.
CaptureFiles == Homes \cup {"rel", "var"}
Sources == CaptureFiles \cup {"", "blank", "eth0"}
RequiredSet == {Required[i] : i \in DOMAIN Required}
Modes == {"", "interface", "file", "other"}
Config == [mode : Modes, iface : Sources, file : Sources, capIface : Sources,
           realtime : BOOLEAN, mqtt : BOOLEAN, has : SUBSET RequiredSet]
Empty == [mode |-> "", iface |-> "", file |-> "", capIface |-> "",
          realtime |-> FALSE, mqtt |-> FALSE, has |-> {}]

\* The places of configuration files: below XDG_CONFIG_HOME, if it is set, below
\* HOME, and /etc.
Paths == Homes \cup (ConfigHomes \ {""}) \cup {"etc"}
Candidates(x, h) == IF x = "" THEN <<h, "etc">> ELSE <<x, h, "etc">>

\* parseFlags refuses --file with --interface.
ASSUME InputsAssumption ==
    /\ DiskConfigs \subseteq Config
    /\ Answers \subseteq Sources
    /\ FlagSets \subseteq [path : Paths \cup {""}, file : Sources, iface : Sources,
                          realtime : {"", "on", "off"}, mqtt : {"", "on", "off"}]
    /\ \A f \in FlagSets : f.file = "" \/ f.iface = ""
Saves == [start : 1 .. MaxStarts, path : Paths, home : Homes, used : Config]
ASSUME NoneAssumption == None \notin Config \cup Homes \cup Paths \cup Saves

VARIABLES
    disk,      \* the configuration file at a path, or None
    starts,    \* starts so far
    pc,        \* down, mode, input, again, required, save, writing,
               \* finish, run
    exit,      \* none, ok, aborted, config (exit status 2), killed
    flags, home, attended,  \* how this start was made; attended: stdin answers
    path,      \* configPath
    cfg, changed,
    saved      \* history: the last save: start, path, home, and settings it came to

vars == <<disk, starts, pc, exit, flags, home, attended, path, cfg, changed, saved>>
startVars == <<flags, home, attended, path>>

-----------------------------------------------------------------------------
(* config.go *)

Clean(v) == IF v = "blank" THEN "" ELSE v
Expand(v, h) == IF Clean(v) = "var" THEN h ELSE Clean(v)
LooksLikeCaptureFile(v) == Clean(v) \in CaptureFiles

\* Mutant: a path below any home directory is taken for one below this HOME.
ForSaveAnyHome(c, h) == [c EXCEPT !.file = IF Clean(@) \in Homes THEN "var" ELSE Clean(@)]

\* forSave: a path below HOME is written with ${HOME}.
ForSave(c, h) == [c EXCEPT !.file = IF Clean(@) = h THEN "var" ELSE Clean(@)]

\* Mutant: a mode that there is not.
MoveCaptureFileToPcap(c) ==
    IF LooksLikeCaptureFile(c.iface)
    THEN [c EXCEPT !.mode = "pcap", !.file = c.iface, !.iface = ""] ELSE c

\* Normalize, on a mode it supports.
MoveCaptureFile(c) ==
    IF LooksLikeCaptureFile(c.iface)
    THEN [c EXCEPT !.mode = "file", !.file = c.iface, !.iface = ""] ELSE c
DefaultMode(c) == [c EXCEPT !.mode = IF @ = "" THEN "interface" ELSE @]
ShareInterface(c) ==
    IF c.mode # "interface" THEN c
    ELSE [c EXCEPT !.iface = IF @ = "" THEN c.capIface ELSE @,
                   !.capIface = IF @ = "" THEN c.iface ELSE @]
Normalize(c, h) ==
    ShareInterface(DefaultMode(MoveCaptureFile(
        [c EXCEPT !.iface = Clean(@), !.capIface = Clean(@), !.file = Expand(@, h)])))

Valid(c) ==
    /\ \/ c.mode = "interface" /\ c.iface # "" /\ ~c.realtime
       \/ c.mode = "file" /\ c.file # ""
    /\ c.has = RequiredSet

\* Resolve: the file named by --config or the environment, or the first candidate there is, or the first one.
Resolve(f, x, h) ==
    IF f.path # "" THEN f.path
    ELSE LET candidates == Candidates(x, h)
             there == {i \in DOMAIN candidates : disk[candidates[i]] # None}
         IN  IF there = {} THEN candidates[1]
             ELSE candidates[CHOOSE i \in there : \A j \in there : i <= j]

\* Mutant: --file leaves the configured interface.
OverrideKeepsInterface(c, f) ==
    [c EXCEPT !.mode = IF f.file # "" THEN "file" ELSE IF f.iface # "" THEN "interface" ELSE @,
              !.file = IF f.file # "" THEN f.file ELSE @,
              !.iface = IF f.iface # "" THEN f.iface ELSE @,
              !.capIface = IF f.iface # "" THEN f.iface ELSE @,
              !.realtime = IF f.realtime = "on" THEN TRUE ELSE IF f.realtime = "off" THEN FALSE ELSE @,
              !.mqtt = IF f.mqtt = "on" THEN TRUE ELSE IF f.mqtt = "off" THEN FALSE ELSE @]

\* Mutant: --interface leaves the interface to capture from.
OverrideInputOnly(c, f) ==
    [OverrideKeepsInterface(c, f) EXCEPT !.capIface = c.capIface]

\* applyInputOverrides
Override(c, f) ==
    [c EXCEPT !.mode = IF f.file # "" THEN "file" ELSE IF f.iface # "" THEN "interface" ELSE @,
              !.file = IF f.file # "" THEN f.file ELSE @,
              !.iface = IF f.file # "" THEN "" ELSE IF f.iface # "" THEN f.iface ELSE @,
              !.capIface = IF f.iface # "" THEN f.iface ELSE @,
              !.realtime = IF f.realtime = "on" THEN TRUE ELSE IF f.realtime = "off" THEN FALSE ELSE @,
              !.mqtt = IF f.mqtt = "on" THEN TRUE ELSE IF f.mqtt = "off" THEN FALSE ELSE @]

-----------------------------------------------------------------------------
NoFlags == [path |-> "", file |-> "", iface |-> "", realtime |-> "", mqtt |-> ""]

Init ==
    /\ disk \in {[p \in Paths |-> None]}
            \cup {[p \in Paths |-> IF p = q THEN c ELSE None] : q \in Paths, c \in DiskConfigs}
    /\ starts = 0 /\ pc = "down" /\ exit = "none"
    /\ flags = NoFlags /\ home = None /\ attended = FALSE /\ path = None
    /\ cfg = Empty /\ changed = FALSE
    /\ saved = None

\* main up to the setup: flags, Resolve, LoadPartial, overrides.
Begin(f, x, h, a) ==
    /\ pc = "down" /\ starts < MaxStarts
    /\ starts' = starts + 1
    /\ flags' = f /\ home' = h /\ attended' = a
    /\ path' = Resolve(f, x, h)
    /\ cfg' = Override(IF disk[path'] = None THEN Empty ELSE disk[path'], f)
    /\ changed' = FALSE
    /\ pc' = "mode" /\ exit' = "none"
    /\ UNCHANGED <<disk, saved>>

\* A file that cannot be looked up or read, or is not YAML, or bad flags.
BeginFails ==
    /\ pc = "down" /\ starts < MaxStarts
    /\ starts' = starts + 1 /\ exit' = "config"
    /\ UNCHANGED <<disk, pc, startVars, cfg, changed, saved>>

\* main ends, and what is left of the start is the exit status.
Stop(e) ==
    /\ pc' = "down" /\ exit' = e
    /\ flags' = NoFlags /\ home' = None /\ attended' = FALSE /\ path' = None
    /\ cfg' = Empty /\ changed' = FALSE
    /\ UNCHANGED <<disk, starts, saved>>

Set(c, next) ==
    /\ cfg' = c /\ changed' = TRUE /\ pc' = next
    /\ UNCHANGED <<disk, starts, exit, startVars, saved>>

Goto(next) ==
    /\ pc' = next
    /\ UNCHANGED <<disk, starts, exit, startVars, cfg, changed, saved>>

\* applyInputSource
WithSource(c, v) ==
    IF LooksLikeCaptureFile(v)
    THEN [c EXCEPT !.mode = "file", !.file = Clean(v), !.iface = ""]
    ELSE [c EXCEPT !.mode = "interface", !.iface = Clean(v), !.capIface = Clean(v)]

\* The places, in the order asked for, of the settings still missing.
Missing == {i \in DOMAIN Required : Required[i] \notin cfg.has}

\* Whether the setup reads an answer now.
Asks ==
    \/ pc = "mode" /\ cfg.mode = "" /\ cfg.file = "" /\ cfg.iface = "" /\ cfg.capIface = ""
    \/ pc = "input" /\ cfg.mode = "interface" /\ cfg.iface = "" /\ cfg.capIface = ""
    \/ pc = "input" /\ cfg.mode = "file" /\ cfg.file = ""
    \/ pc = "again"
    \/ pc = "required" /\ Missing # {}
    \/ pc = "save"

(* completeConfigInteractive: the source of input. *)

KnowMode == pc = "mode" /\ cfg.mode # "" /\ Goto("input")

DeriveMode ==
    /\ pc = "mode" /\ cfg.mode = "" /\ ~Asks
    /\ Set([cfg EXCEPT !.mode = IF cfg.file # "" THEN "file" ELSE "interface"], "input")

AskMode(v) == pc = "mode" /\ Asks /\ attended /\ Set(WithSource(cfg, v), "input")

RejectMode == pc = "input" /\ cfg.mode = "other" /\ Stop("config")

KnowInput ==
    /\ pc = "input"
    /\ \/ cfg.mode = "interface" /\ cfg.iface # ""
       \/ cfg.mode = "file" /\ cfg.file # ""
    /\ Goto("required")

TakeCaptureInterface ==
    /\ pc = "input" /\ cfg.mode = "interface" /\ cfg.iface = "" /\ cfg.capIface # ""
    /\ Set([cfg EXCEPT !.iface = cfg.capIface], "required")

\* A value of nothing but quotes leaves the interface empty: it is asked again.
AskInterface(v) ==
    /\ pc = "input" /\ cfg.mode = "interface" /\ Asks /\ attended
    /\ Set(WithSource(cfg, v), IF Clean(v) = "" THEN "again" ELSE "required")

AskAgain(v) == pc = "again" /\ attended /\ Set(WithSource(cfg, v), "required")

AskFile(v) ==
    /\ pc = "input" /\ cfg.mode = "file" /\ Asks /\ attended
    /\ Set([cfg EXCEPT !.file = v], "required")

(* completeConfigInteractive: the other settings, and what becomes of them. *)

\* Mutant: the capture interface is left out.
CompleteNothing(c) == c

Complete(c) ==
    IF c.mode = "interface" /\ c.capIface = "" THEN [c EXCEPT !.capIface = c.iface] ELSE c

AskRequired ==
    /\ pc = "required" /\ Missing # {} /\ attended
    /\ LET next == CHOOSE i \in Missing : \A j \in Missing : i <= j
       IN  Set([Complete(cfg) EXCEPT !.has = @ \cup {Required[next]}], "required")

\* Nothing is missing; the answer decides only if anything was changed.
SettingsKnown ==
    /\ pc = "required" /\ Missing = {}
    /\ cfg' = Complete(cfg)
    /\ changed' = (changed \/ (cfg.mode = "interface" /\ cfg.capIface = ""))
    /\ pc' = IF changed' THEN "save" ELSE "finish"
    /\ UNCHANGED <<disk, starts, exit, startVars, saved>>

\* "nein": continue without saving.
Decline == pc = "save" /\ attended /\ Goto("finish")

\* "abbrechen".
Abort == pc = "save" /\ attended /\ Stop("aborted")

\* "ja": os.WriteFile truncates the file, then writes it.
Accept ==
    /\ pc = "save" /\ attended
    /\ disk' = [disk EXCEPT ![path] = Empty]
    /\ saved' = None
    /\ pc' = "writing"
    /\ UNCHANGED <<starts, exit, startVars, cfg, changed>>

Write ==
    /\ pc = "writing"
    /\ disk' = [disk EXCEPT ![path] = ForSave(cfg, home)]
    /\ saved' = [start |-> starts, path |-> path, home |-> home, used |-> Normalize(cfg, home)]
    /\ pc' = "finish"
    /\ UNCHANGED <<starts, exit, startVars, cfg, changed>>

\* The directory or the file cannot be made, or the disk is full.
SaveFails == ((pc = "save" /\ attended) \/ pc = "writing") /\ Stop("config")

\* Mutant: without an answer, the setup is saved.
EndOfInputSaves ==
    /\ Asks
    /\ IF pc = "save" THEN Goto("writing") ELSE Stop("config")

\* The input ends: at once under systemd, where stdin is /dev/null.
EndOfInput == Asks /\ Stop("config")

(* main, after the setup. *)

\* Normalize, Validate and loadSensorMapping.
Run ==
    /\ pc = "finish" /\ Valid(Normalize(cfg, home))
    /\ cfg' = Normalize(cfg, home)
    /\ pc' = "run"
    /\ UNCHANGED <<disk, starts, exit, startVars, changed, saved>>

Refuse == pc = "finish" /\ ~Valid(Normalize(cfg, home)) /\ Stop("config")

\* The mapping file is missing or wrong.
MappingFails == pc = "finish" /\ Valid(Normalize(cfg, home)) /\ Stop("config")

\* run is what Bridge models; here it only ends.
RunEnds == pc = "run" /\ Stop("ok")

Kill == pc # "down" /\ Stop("killed")

Next ==
    \/ \E f \in FlagSets, x \in ConfigHomes, h \in Homes, a \in BOOLEAN : Begin(f, x, h, a)
    \/ BeginFails
    \/ \E v \in Answers : AskMode(v) \/ AskInterface(v) \/ AskAgain(v) \/ AskFile(v)
    \/ KnowMode \/ DeriveMode \/ RejectMode \/ KnowInput \/ TakeCaptureInterface
    \/ AskRequired \/ SettingsKnown \/ Decline \/ Abort \/ Accept \/ Write \/ SaveFails
    \/ EndOfInput \/ Run \/ Refuse \/ MappingFails \/ RunEnds \/ Kill

Spec == Init /\ [][Next]_vars
-----------------------------------------------------------------------------
TypeOK ==
    /\ disk \in [Paths -> Config \cup {None}]
    /\ starts \in 0 .. MaxStarts
    /\ pc \in {"down", "mode", "input", "again", "required", "save", "writing", "finish", "run"}
    /\ exit \in {"none", "ok", "aborted", "config", "killed"}
    /\ flags \in FlagSets \cup {NoFlags}
    /\ home \in Homes \cup {None} /\ attended \in BOOLEAN /\ path \in Paths \cup {None}
    /\ cfg \in Config /\ changed \in BOOLEAN
    /\ saved \in Saves \cup {None}

\* A start without options, in the environment of the last save.
AsSaved == saved # None /\ flags = NoFlags /\ path = saved.path /\ Valid(saved.used)

\* Property: what was saved is what the next start uses: writing a path with
\* ${HOME}, moving a capture file out of the interface and sharing the
\* interface name come to the same settings when they are read back.
SavedIsUsedAgain == pc = "run" /\ AsSaved /\ home = saved.home => cfg = saved.used

\* Property: a setup that was saved and was good for running is not gone through
\* again: the next start without options asks nothing.  (A capture file left in
\* the interface is settled by Normalize only, after the setup.)
NotAskedAgain ==
    AsSaved /\ saved.start < starts /\ ~LooksLikeCaptureFile(disk[path].iface)
        => ~changed /\ ~Asks

\* Property: a start without a user never touches a configuration file.
UnattendedNeverWrites == [][disk' # disk => attended]_vars

\* Property: the command line wins over the file and the answers: run reads the
\* file or the interface it names, with the timing and the publishing it says.
FlagsWin ==
    pc = "run" =>
        /\ flags.file # "" => cfg.mode = "file" /\ cfg.file = Expand(flags.file, home)
        /\ flags.iface = "eth0" => cfg.mode = "interface" /\ cfg.iface = "eth0"
        /\ flags.iface \in CaptureFiles => cfg.mode = "file" /\ cfg.file = flags.iface
        /\ flags.realtime # "" => cfg.realtime = (flags.realtime = "on")
        /\ flags.mqtt # "" => cfg.mqtt = (flags.mqtt = "on")

\* Property: a start whose input is named in full, by an option or by a mode and
\* its source in the file (both interfaces, for a live capture), asks nothing
\* if no other setting is missing: it goes on to run without a user.
NamedInput(c) ==
    \/ c.mode = "file" /\ c.file # ""
    \/ c.mode = "interface" /\ c.iface # "" /\ c.capIface # ""
NamedInputAsksNothing ==
    /\ pc # "down" /\ disk[path] # None /\ disk[path].has = RequiredSet
    /\ flags.file # "" \/ flags.iface # "" \/ NamedInput(disk[path])
    => ~Asks
=============================================================================
