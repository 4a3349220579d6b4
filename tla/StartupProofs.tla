----------------------------- MODULE StartupProofs -----------------------------
(***************************************************************************)
(* Proofs about the setup, for every set of home directories, files,       *)
(* command lines and answers, and any number of starts.                    *)
(***************************************************************************)
EXTENDS Startup, Arithmetic

-----------------------------------------------------------------------------
(* The inductive invariant, part by part. *)

\* A start has a home and a path, which no state between two starts has.
Started ==
    /\ pc # "down" => starts \in 1 .. MaxStarts /\ home \in Homes /\ path \in Paths
    /\ pc = "down" => path = None

\* What the setup has settled by the time it asks for the other settings, and
\* by the time it offers to save.
SourceSettled(c) ==
    /\ c.mode \in {"interface", "file"}
    /\ c.mode = "interface" /\ c.iface = "" => c.capIface = ""
SetupSettled(c) ==
    SourceSettled(c) /\ (c.mode = "interface" /\ c.capIface = "" => c.iface = "")
Settled ==
    /\ pc = "required" => SourceSettled(cfg)
    /\ pc \in {"save", "writing"} => SetupSettled(cfg)

\* The last save: the file holds a configuration that the setup went through,
\* and it came to what the save says.
SaveStands ==
    saved # None =>
        /\ saved.start \in 1 .. starts
        /\ disk[saved.path] # None /\ SetupSettled(disk[saved.path])
        /\ saved.used = Normalize(disk[saved.path], saved.home)

\* The last save is an earlier start's until this start has written; a write
\* under way leaves none.
SavedBefore ==
    saved # None =>
        /\ pc \in {"mode", "input", "again", "required", "save"} => saved.start < starts
        /\ pc # "writing"

\* Nothing was written in this start.
Unwritten ==
    \/ pc \in {"mode", "input", "again", "required", "save"}
    \/ pc \in {"finish", "run"} /\ (saved = None \/ saved.start < starts)

\* A command line and a file that leave no question open.
InputKnown(d, f) ==
    d # None /\ d.has = RequiredSet /\ (f.file # "" \/ f.iface # "" \/ NamedInput(d))

NothingAsked ==
    Unwritten /\ pc # "down" /\ InputKnown(disk[path], flags) =>
        /\ ~changed /\ pc \notin {"again", "save"}
        /\ pc # "run" => cfg = Override(disk[path], flags)

\* The command line in the settings, until they are normalised.
FlagsHold ==
    pc \notin {"down", "run"} =>
        /\ flags.file # "" => cfg.mode = "file" /\ cfg.file = flags.file /\ cfg.iface = "" 
        /\ flags.iface # "" => /\ cfg.mode = "interface" /\ cfg.iface = flags.iface
                               /\ cfg.capIface = flags.iface
        /\ flags.file # "" \/ flags.iface # "" => pc # "again"
        /\ flags.realtime # "" => cfg.realtime = (flags.realtime = "on")
        /\ flags.mqtt # "" => cfg.mqtt = (flags.mqtt = "on")

\* The file d asks again for a capture file it does not use.
OnlyFileAsked(d, c) ==
    d.mode = "file" /\ LooksLikeCaptureFile(d.iface) /\ c = [d EXCEPT !.file = c.file]
ReadAgain ==
    AsSaved /\ Unwritten /\ saved.start < starts =>
        /\ pc # "again"
        /\ pc # "run" => cfg = disk[path] \/ OnlyFileAsked(disk[path], cfg)
SavedThisStart ==
    pc \in {"finish", "run"} /\ saved # None /\ saved.start = starts =>
        /\ home = saved.home /\ path = saved.path
        /\ pc = "finish" => Normalize(cfg, home) = saved.used
SetupInv ==
    /\ TypeOK /\ Started /\ Settled /\ SaveStands /\ SavedBefore
    /\ NothingAsked /\ FlagsHold /\ FlagsWin
    /\ ReadAgain /\ SavedThisStart /\ SavedIsUsedAgain

-----------------------------------------------------------------------------
(* The operators on configurations. *)

\* The places and names are all different.
LEMMA SourceFacts ==
    /\ \A v \in {"", "blank", "eth0"} : ~(v \in CaptureFiles)
    /\ CaptureFiles \subseteq Sources /\ Homes \subseteq CaptureFiles
    /\ "etc" \notin Homes /\ "" \notin Homes /\ "var" \notin Homes /\ "blank" \notin Homes
    /\ {"", "blank", "eth0", "var", "rel"} \subseteq Sources
    BY StartupAssumption DEF CaptureFiles, Sources

LEMMA CleanFacts ==
    ASSUME NEW v \in Sources
    PROVE  /\ Clean(v) \in Sources /\ Clean(Clean(v)) = Clean(v)
           /\ v \in CaptureFiles => Clean(v) = v
           /\ LooksLikeCaptureFile(v) <=> v \in CaptureFiles
           /\ LooksLikeCaptureFile(Clean(v)) <=> LooksLikeCaptureFile(v)
           /\ LooksLikeCaptureFile(v) => v # "" /\ Clean(v) # ""
    BY SourceFacts DEF Clean, LooksLikeCaptureFile

LEMMA ExpandFacts ==
    ASSUME NEW v \in Sources, NEW h \in Homes
    PROVE  Expand(v, h) \in Sources /\ (Expand(v, h) = "" <=> Clean(v) = "")
    BY CleanFacts, SourceFacts DEF Expand

\* The command lines, the empty one with them.
LEMMA FlagsType ==
    ASSUME NEW f \in FlagSets \cup {NoFlags}
    PROVE  /\ f.file \in Sources /\ f.iface \in Sources /\ (f.file = "" \/ f.iface = "")
           /\ f.path \in Paths \cup {""}
           /\ f.realtime \in {"", "on", "off"} /\ f.mqtt \in {"", "on", "off"}
    <1>1. CASE f = NoFlags
        BY <1>1, SourceFacts DEF NoFlags
    <1>2. CASE f \in FlagSets
        <2>1. f \in [path : Paths \cup {""}, file : Sources, iface : Sources,
                     realtime : {"", "on", "off"}, mqtt : {"", "on", "off"}]
            BY <1>2, InputsAssumption
        <2> QED
            BY <1>2, <2>1, InputsAssumption
    <1> QED
        BY <1>1, <1>2

LEMMA ConfigFields ==
    ASSUME NEW c \in Config
    PROVE  /\ c.mode \in Modes /\ c.iface \in Sources /\ c.file \in Sources
           /\ c.capIface \in Sources /\ c.realtime \in BOOLEAN /\ c.mqtt \in BOOLEAN
           /\ c.has \in SUBSET RequiredSet /\ c # None
    BY NoneAssumption DEF Config

LEMMA EmptyType == Empty \in Config
    BY SourceFacts DEF Empty, Config, Modes

LEMMA OverrideType ==
    ASSUME NEW c \in Config, NEW f \in FlagSets \cup {NoFlags}
    PROVE  /\ Override(c, f) \in Config
           /\ f.file # "" => /\ Override(c, f).mode = "file" /\ Override(c, f).file = f.file
                             /\ Override(c, f).iface = ""
           /\ f.iface # "" => /\ Override(c, f).mode = "interface"
                              /\ Override(c, f).iface = f.iface /\ Override(c, f).capIface = f.iface
           /\ f.file = "" /\ f.iface = "" =>
                /\ Override(c, f).mode = c.mode /\ Override(c, f).file = c.file
                /\ Override(c, f).iface = c.iface /\ Override(c, f).capIface = c.capIface
           /\ f.realtime # "" => Override(c, f).realtime = (f.realtime = "on")
           /\ f.mqtt # "" => Override(c, f).mqtt = (f.mqtt = "on")
           /\ Override(c, f).has = c.has
    <1> DEFINE o == Override(c, f)
    <1>1. /\ c.mode \in Modes /\ c.iface \in Sources /\ c.file \in Sources
          /\ c.capIface \in Sources /\ c.realtime \in BOOLEAN /\ c.mqtt \in BOOLEAN
          /\ c.has \in SUBSET RequiredSet
        BY ConfigFields
    <1>2. /\ f.file \in Sources /\ f.iface \in Sources /\ (f.file = "" \/ f.iface = "")
          /\ f.realtime \in {"", "on", "off"} /\ f.mqtt \in {"", "on", "off"}
        BY FlagsType
    <1>3. /\ o.mode = IF f.file # "" THEN "file" ELSE IF f.iface # "" THEN "interface" ELSE c.mode
          /\ o.file = IF f.file # "" THEN f.file ELSE c.file
          /\ o.iface = IF f.file # "" THEN "" ELSE IF f.iface # "" THEN f.iface ELSE c.iface
          /\ o.capIface = IF f.iface # "" THEN f.iface ELSE c.capIface
          /\ o.has = c.has
        BY DEF Override, Config
    <1>4. /\ o.realtime = IF f.realtime = "on" THEN TRUE ELSE IF f.realtime = "off" THEN FALSE ELSE c.realtime
          /\ o.mqtt = IF f.mqtt = "on" THEN TRUE ELSE IF f.mqtt = "off" THEN FALSE ELSE c.mqtt
        BY DEF Override, Config
    <1>5. /\ o.realtime \in BOOLEAN /\ (f.realtime # "" => o.realtime = (f.realtime = "on"))
          /\ o.mqtt \in BOOLEAN /\ (f.mqtt # "" => o.mqtt = (f.mqtt = "on"))
        BY <1>1, <1>2, <1>4
    <1>6. o \in Config
        <2>1. o.mode \in Modes /\ o.iface \in Sources /\ o.file \in Sources /\ o.capIface \in Sources
            BY <1>1, <1>2, <1>3, SourceFacts DEF Modes
        <2>2. /\ DOMAIN o = {"mode", "iface", "file", "capIface", "realtime", "mqtt", "has"}
              /\ o = [x \in DOMAIN o |-> o[x]]
            BY DEF Override, Config
        <2>3. o = [mode |-> o.mode, iface |-> o.iface, file |-> o.file, capIface |-> o.capIface,
                   realtime |-> o.realtime, mqtt |-> o.mqtt, has |-> o.has]
            BY <2>2
        <2> HIDE DEF o
        <2> QED
            BY <1>1, <1>3, <1>5, <2>1, <2>3 DEF Config
    <1> HIDE DEF o
    <1> QED
        BY <1>2, <1>3, <1>5, <1>6 DEF o

\* Without options the file is what counts.
LEMMA OverrideNothing ==
    ASSUME NEW c \in Config
    PROVE  Override(c, NoFlags) = c
    BY DEF Override, NoFlags, Config

LEMMA WithSourceType ==
    ASSUME NEW c \in Config, NEW v \in Sources
    PROVE  /\ WithSource(c, v) \in Config
           /\ WithSource(c, v).mode \in {"interface", "file"}
           /\ WithSource(c, v).mode = "interface" => WithSource(c, v).iface = WithSource(c, v).capIface
           /\ Clean(v) # "" /\ WithSource(c, v).mode = "interface" => WithSource(c, v).iface # ""
           /\ WithSource(c, v).has = c.has /\ WithSource(c, v).realtime = c.realtime
           /\ WithSource(c, v).mqtt = c.mqtt
    BY CleanFacts, SourceFacts DEF WithSource, Config, Modes

LEMMA CompleteType ==
    ASSUME NEW c \in Config
    PROVE  /\ Complete(c) \in Config
           /\ SetupSettled(Complete(c)) <=> SourceSettled(c)
           /\ SourceSettled(Complete(c)) <=> SourceSettled(c)
           /\ c.mode = "interface" /\ c.capIface # "" => Complete(c) = c
           /\ c.mode # "interface" => Complete(c) = c
           /\ SetupSettled(c) => Complete(c) = c
           /\ Complete(c).mode = c.mode /\ Complete(c).iface = c.iface /\ Complete(c).file = c.file
           /\ Complete(c).has = c.has /\ Complete(c).realtime = c.realtime /\ Complete(c).mqtt = c.mqtt
           /\ c.capIface # "" => Complete(c).capIface = c.capIface
    BY DEF Complete, SetupSettled, SourceSettled, Config

LEMMA ForSaveType ==
    ASSUME NEW c \in Config, NEW h \in Homes
    PROVE  /\ ForSave(c, h) \in Config /\ ForSave(c, h).has = c.has
           /\ ForSave(c, h).mode = c.mode /\ ForSave(c, h).iface = c.iface
           /\ ForSave(c, h).capIface = c.capIface
           /\ Expand(ForSave(c, h).file, h) = Expand(c.file, h)
    <1> DEFINE v == c.file
               w == IF Clean(v) = h THEN "var" ELSE Clean(v)
    <1>1. v \in Sources /\ h \in CaptureFiles /\ "var" \in CaptureFiles /\ "var" \in Sources
        BY ConfigFields, SourceFacts DEF CaptureFiles
    <1>2. w \in Sources /\ Clean(w) = w
        BY <1>1, CleanFacts
    <1>3. Expand(w, h) = Expand(v, h)
        BY <1>2, SourceFacts DEF Expand
    <1> HIDE DEF v, w
    <1>4. ForSave(c, h) = [c EXCEPT !.file = w]
        BY DEF ForSave, v, w
    <1>5. ForSave(c, h).file = w /\ ForSave(c, h) \in Config
        BY <1>2, <1>4 DEF Config
    <1> QED
        BY <1>3, <1>4, <1>5 DEF Config, v

\* Normalize in one step.
Source(c, h) == IF LooksLikeCaptureFile(c.iface) THEN Clean(c.iface) ELSE Expand(c.file, h)
LEMMA NormalizeFields ==
    ASSUME NEW c \in Config, NEW h \in Homes
    PROVE  LET n == Normalize(c, h)
               looks == LooksLikeCaptureFile(c.iface)
           IN  /\ n \in Config /\ n.has = c.has /\ n.realtime = c.realtime /\ n.mqtt = c.mqtt
               /\ n.file = Source(c, h)
               /\ n.mode = IF looks THEN "file" ELSE IF c.mode = "" THEN "interface" ELSE c.mode
               /\ n.iface = IF looks THEN ""
                            ELSE IF n.mode = "interface" /\ Clean(c.iface) = "" THEN Clean(c.capIface)
                            ELSE Clean(c.iface)
               /\ n.capIface = IF n.mode = "interface" /\ Clean(c.capIface) = "" THEN n.iface
                               ELSE Clean(c.capIface)
    <1> DEFINE a == [c EXCEPT !.iface = Clean(@), !.capIface = Clean(@), !.file = Expand(@, h)]
               b == MoveCaptureFile(a)
               d == DefaultMode(b)
               n == Normalize(c, h)
    <1>1. /\ a \in Config /\ a.iface = Clean(c.iface) /\ a.capIface = Clean(c.capIface)
          /\ a.file = Expand(c.file, h) /\ a.mode = c.mode /\ a.has = c.has
          /\ a.realtime = c.realtime /\ a.mqtt = c.mqtt
        BY ConfigFields, CleanFacts, ExpandFacts DEF Config
    <1>2. LooksLikeCaptureFile(a.iface) <=> LooksLikeCaptureFile(c.iface)
        BY <1>1, ConfigFields, CleanFacts
    <1> HIDE DEF a
    <1>3. /\ b \in Config /\ b.file = Source(c, h) /\ b.capIface = a.capIface /\ b.has = a.has
          /\ b.realtime = a.realtime /\ b.mqtt = a.mqtt
          /\ b.mode = IF LooksLikeCaptureFile(c.iface) THEN "file" ELSE a.mode
          /\ b.iface = IF LooksLikeCaptureFile(c.iface) THEN "" ELSE a.iface
        BY <1>1, <1>2, SourceFacts DEF MoveCaptureFile, Source, Config, Modes
    <1> HIDE DEF b
    <1>4. /\ d \in Config /\ d.file = b.file /\ d.capIface = b.capIface /\ d.has = b.has
          /\ d.realtime = b.realtime /\ d.mqtt = b.mqtt /\ d.iface = b.iface
          /\ d.mode = IF b.mode = "" THEN "interface" ELSE b.mode
        BY <1>3 DEF DefaultMode, Config, Modes
    <1> HIDE DEF d
    <1>5. n = ShareInterface(d)
        BY DEF Normalize, a, b, d
    <1>6. /\ n \in Config /\ n.file = d.file /\ n.mode = d.mode /\ n.has = d.has
          /\ n.realtime = d.realtime /\ n.mqtt = d.mqtt
          /\ n.iface = IF d.mode = "interface" /\ d.iface = "" THEN d.capIface ELSE d.iface
          /\ n.capIface = IF d.mode = "interface" /\ d.capIface = "" THEN n.iface ELSE d.capIface
        BY <1>4, <1>5 DEF ShareInterface, Config, Modes
    <1> HIDE DEF n
    <1> QED
        BY <1>1, <1>3, <1>4, <1>6 DEF n

\* Writing a path with ${HOME} and reading it back comes to the same settings.
LEMMA Roundtrip ==
    ASSUME NEW c \in Config, NEW h \in Homes
    PROVE  Normalize(ForSave(c, h), h) = Normalize(c, h)
    <1>1. ForSave(c, h) = [c EXCEPT !.file = ForSave(c, h).file]
        BY DEF ForSave, Config
    <1>2. Expand(ForSave(c, h).file, h) = Expand(c.file, h)
        BY ForSaveType
    <1> DEFINE w == ForSave(c, h).file
    <1> HIDE DEF w
    <1>3. [[c EXCEPT !.file = w] EXCEPT !.iface = Clean(@), !.capIface = Clean(@), !.file = Expand(@, h)]
          = [c EXCEPT !.iface = Clean(@), !.capIface = Clean(@), !.file = Expand(w, h)]
        BY DEF Config
    <1> QED
        BY <1>1, <1>2, <1>3 DEF Normalize, w

\* The file counts for nothing when the interface names a capture file.
LEMMA FileIgnored ==
    ASSUME NEW c \in Config, NEW v \in Sources, NEW h \in Homes,
           LooksLikeCaptureFile(c.iface)
    PROVE  Normalize([c EXCEPT !.file = v], h) = Normalize(c, h)
    <1> DEFINE a == [c EXCEPT !.iface = Clean(@), !.capIface = Clean(@), !.file = Expand(@, h)]
               e == [[c EXCEPT !.file = v]
                        EXCEPT !.iface = Clean(@), !.capIface = Clean(@), !.file = Expand(@, h)]
    <1>1. e = [a EXCEPT !.file = Expand(v, h)] /\ a.iface = Clean(c.iface) /\ e.iface = a.iface
        BY DEF Config
    <1>2. LooksLikeCaptureFile(a.iface)
        BY <1>1, ConfigFields, CleanFacts
    <1>3. [e EXCEPT !.mode = "file", !.file = e.iface, !.iface = ""]
          = [a EXCEPT !.mode = "file", !.file = a.iface, !.iface = ""]
        BY <1>1
    <1>4. MoveCaptureFile(e) = MoveCaptureFile(a)
        <2> HIDE DEF a, e
        <2> QED
            BY <1>1, <1>2, <1>3 DEF MoveCaptureFile
    <1> QED
        BY <1>4 DEF Normalize

\* What was good for running after it was normalised names its input, except
\* for a capture file left in the interface.
LEMMA ValidNames ==
    ASSUME NEW d \in Config, NEW h \in Homes, SetupSettled(d), Valid(Normalize(d, h))
    PROVE  /\ d.has = RequiredSet
           /\ NamedInput(d) \/ (d.mode = "file" /\ LooksLikeCaptureFile(d.iface))
    <1> DEFINE n == Normalize(d, h)
    <1>1. /\ n.has = d.has /\ n.file = Source(d, h)
          /\ n.mode = IF LooksLikeCaptureFile(d.iface) THEN "file"
                      ELSE IF d.mode = "" THEN "interface" ELSE d.mode
          /\ n.iface = IF LooksLikeCaptureFile(d.iface) THEN ""
                       ELSE IF n.mode = "interface" /\ Clean(d.iface) = "" THEN Clean(d.capIface)
                       ELSE Clean(d.iface)
        BY NormalizeFields
    <1>2. n.has = RequiredSet /\ (n.mode = "interface" => n.iface # "") /\ (n.mode = "file" => n.file # "")
        BY DEF Valid
    <1> HIDE DEF n
    <1>3. d.iface \in Sources /\ d.file \in Sources /\ d.capIface \in Sources
        BY ConfigFields
    <1>4. Clean("") = "" /\ Expand("", h) = ""
        BY DEF Clean, Expand
    <1>5. LooksLikeCaptureFile(d.iface) => d.iface # ""
        BY <1>3, CleanFacts
    <1> QED
        BY <1>1, <1>2, <1>4, <1>5 DEF SetupSettled, SourceSettled, NamedInput, Source

LEMMA ResolvePath ==
    ASSUME NEW f \in FlagSets, NEW x \in ConfigHomes, NEW h \in Homes
    PROVE  Resolve(f, x, h) \in Paths
    <1> DEFINE candidates == Candidates(x, h)
               n == Len(candidates)
               there == {i \in DOMAIN candidates : disk[candidates[i]] # None}
               m == CHOOSE i \in there : \A j \in there : i <= j
    <1>1. /\ n \in Nat \ {0} /\ DOMAIN candidates = 1 .. n
          /\ \A i \in 1 .. n : candidates[i] \in Paths
        <2>1. CASE x = ""
            <3>1. candidates = <<h, "etc">> /\ h \in Paths /\ "etc" \in Paths
                BY <2>1 DEF Candidates, Paths
            <3> QED
                BY <3>1
        <2>2. CASE x # ""
            <3>1. candidates = <<x, h, "etc">> /\ x \in Paths /\ h \in Paths /\ "etc" \in Paths
                BY <2>2 DEF Candidates, Paths
            <3> QED
                BY <3>1
        <2> QED
            BY <2>1, <2>2
    <1> HIDE DEF n, candidates
    <1>2. there \subseteq 1 .. n /\ there \subseteq Nat
        BY <1>1
    <1>3. Resolve(f, x, h) = IF f.path # "" THEN f.path
                          ELSE IF there = {} THEN candidates[1] ELSE candidates[m]
        BY Zenon DEF Resolve, candidates
    <1>4. m = CHOOSE i \in there : \A j \in there : i <= j
        OBVIOUS
    <1> HIDE DEF there, m
    <1>5. there # {} => m \in there
        <2> SUFFICES ASSUME there # {} PROVE m \in there
            OBVIOUS
        <2>1. m \in there /\ \A j \in there : m <= j
            BY <1>2, <1>4, Least
        <2> QED
            BY <2>1
    <1>6. f.path \in Paths \cup {""}
        BY FlagsType
    <1> DEFINE first == IF there = {} THEN candidates[1] ELSE candidates[m]
    <1>7. first \in Paths
        <2>1. candidates[1] \in Paths
            BY <1>1
        <2>2. m \in 1 .. n => candidates[m] \in Paths
            BY <1>1, Zenon
        <2> QED
            BY <1>2, <1>5, <2>1, <2>2
    <1>8. Resolve(f, x, h) = IF f.path # "" THEN f.path ELSE first
        BY <1>3, Zenon
    <1> HIDE DEF first
    <1> QED
        BY <1>6, <1>7, <1>8

-----------------------------------------------------------------------------
(* What the invariant says of a start under way. *)

LEMMA KnownNamed ==
    ASSUME NEW d \in Config, NEW f \in FlagSets \cup {NoFlags}, InputKnown(d, f)
    PROVE  NamedInput(Override(d, f)) /\ Override(d, f).has = RequiredSet
    <1>1. CASE f.file # ""
        BY <1>1, OverrideType DEF InputKnown, NamedInput
    <1>2. CASE f.iface # ""
        BY <1>2, OverrideType DEF InputKnown, NamedInput
    <1>3. CASE f.file = "" /\ f.iface = ""
        <2>1. /\ Override(d, f).mode = d.mode /\ Override(d, f).file = d.file
              /\ Override(d, f).iface = d.iface /\ Override(d, f).capIface = d.capIface
              /\ Override(d, f).has = d.has
            BY <1>3, OverrideType
        <2> QED
            BY <1>3, <2>1 DEF InputKnown, NamedInput
    <1> QED
        BY <1>1, <1>2, <1>3

LEMMA Bound == MaxStarts \in Nat
    BY StartupAssumption

LEMMA SavedFields ==
    ASSUME TypeOK, saved # None
    PROVE  /\ saved.start \in Nat /\ starts \in Nat /\ saved.path \in Paths
           /\ saved.home \in Homes /\ saved.used \in Config
    <1>1. saved \in Saves /\ starts \in 0 .. MaxStarts
        BY Zenon DEF TypeOK
    <1> QED
        BY <1>1, Bound DEF Saves

\* The file of the path.
LEMMA FileType == TypeOK /\ Started /\ pc # "down" =>
                      disk[path] \in Config \cup {None}
    BY DEF TypeOK, Started

LEMMA NamedNow ==
    ASSUME SetupInv, pc \notin {"down", "run"}
    PROVE  /\ flags.file # "" \/ flags.iface # "" => NamedInput(cfg) /\ pc # "again"
           /\ Unwritten /\ InputKnown(disk[path], flags) =>
                /\ NamedInput(cfg) /\ cfg.has = RequiredSet
                /\ ~changed /\ pc \notin {"again", "save"}
    <1>1. ASSUME flags.file # "" \/ flags.iface # ""
          PROVE  NamedInput(cfg) /\ pc # "again"
        BY <1>1 DEF SetupInv, FlagsHold, NamedInput
    <1>2. ASSUME Unwritten, InputKnown(disk[path], flags)
          PROVE  /\ NamedInput(cfg) /\ cfg.has = RequiredSet
                 /\ ~changed /\ pc \notin {"again", "save"}
        <2>1. disk[path] \in Config /\ flags \in FlagSets \cup {NoFlags}
            BY <1>2, FileType DEF SetupInv, TypeOK, InputKnown
        <2>2. ~changed /\ pc \notin {"again", "save"} /\ cfg = Override(disk[path], flags)
            BY <1>2 DEF SetupInv, NothingAsked
        <2> QED
            BY <1>2, <2>1, <2>2, KnownNamed
    <1> QED
        BY <1>1, <1>2

\* Reading again what was saved and good for running.
LEMMA ReadNow ==
    ASSUME SetupInv, pc # "run", AsSaved, Unwritten, saved.start < starts
    PROVE  /\ disk[path] \in Config /\ cfg \in Config
           /\ cfg = disk[path] \/ OnlyFileAsked(disk[path], cfg)
           /\ Normalize(disk[path], saved.home) = saved.used
           /\ cfg.has = RequiredSet /\ SetupSettled(cfg) /\ pc # "again"
           /\ NamedInput(cfg) \/ (cfg.mode = "file" /\ LooksLikeCaptureFile(cfg.iface))
    <1> DEFINE d == disk[path]
    <1>1. d \in Config /\ saved.home \in Homes /\ cfg \in Config
        <2>1. saved # None /\ path = saved.path /\ disk[path] # None
            BY DEF SetupInv, AsSaved, SaveStands
        <2>2. disk \in [Paths -> Config \cup {None}] /\ cfg \in Config
            BY DEF SetupInv, TypeOK
        <2> QED
            BY <2>1, <2>2, SavedFields DEF SetupInv
    <1>2. SetupSettled(d) /\ Normalize(d, saved.home) = saved.used /\ Valid(saved.used)
        BY DEF SetupInv, AsSaved, SaveStands
    <1>3. pc # "again" /\ (cfg = d \/ OnlyFileAsked(d, cfg))
        BY DEF SetupInv, ReadAgain
    <1>4. /\ d.has = RequiredSet
          /\ NamedInput(d) \/ (d.mode = "file" /\ LooksLikeCaptureFile(d.iface))
        BY <1>1, <1>2, ValidNames
    <1>5. ASSUME OnlyFileAsked(d, cfg)
          PROVE  cfg.has = d.has /\ cfg.mode = "file" /\ cfg.iface = d.iface /\ LooksLikeCaptureFile(d.iface)
        <2>1. cfg = [d EXCEPT !.file = cfg.file] /\ d.mode = "file" /\ LooksLikeCaptureFile(d.iface)
            BY <1>5 DEF OnlyFileAsked
        <2>2. /\ [d EXCEPT !.file = cfg.file].has = d.has
              /\ [d EXCEPT !.file = cfg.file].mode = d.mode
              /\ [d EXCEPT !.file = cfg.file].iface = d.iface
            BY <1>1 DEF Config
        <2> QED
            BY <2>1, <2>2
    <1> QED
        BY <1>1, <1>2, <1>3, <1>4, <1>5 DEF SetupSettled, SourceSettled

-----------------------------------------------------------------------------
(* The shapes of a step. *)

\* main ends: nothing is left of the start.
LEMMA StopStep ==
    ASSUME SetupInv, NEW e \in {"ok", "aborted", "config", "killed"}, Stop(e)
    PROVE  SetupInv'
    <1> USE DEF Stop
    <1>1. TypeOK'
        BY EmptyType DEF SetupInv, TypeOK
    <1>2. Started' /\ Settled'
        BY DEF Started, Settled
    <1>3. SaveStands' /\ SavedBefore'
        BY DEF SetupInv, SaveStands, SavedBefore
    <1>4. NothingAsked' /\ FlagsHold' /\ FlagsWin'
        BY DEF NothingAsked, Unwritten, FlagsHold, FlagsWin
    <1>5. ReadAgain' /\ SavedThisStart' /\ SavedIsUsedAgain'
        BY DEF ReadAgain, Unwritten, SavedThisStart, SavedIsUsedAgain
    <1> QED
        BY <1>1, <1>2, <1>3, <1>4, <1>5 DEF SetupInv

\* The setup puts a question or derives an answer: not when nothing was open,
\* and never against the command line.
LEMMA SetStep ==
    ASSUME SetupInv, NEW c \in Config, NEW next \in {"input", "again", "required"},
           pc \in {"mode", "input", "again", "required"}, Set(c, next),
           next = "required" => SourceSettled(c),
           c.realtime = cfg.realtime, c.mqtt = cfg.mqtt,
           NamedInput(cfg) /\ pc # "again" =>
               /\ c.mode = cfg.mode /\ c.iface = cfg.iface /\ c.file = cfg.file
               /\ (c.mode = "interface" => c.capIface = cfg.capIface) /\ next # "again"
               /\ cfg.has # RequiredSet,
           AsSaved /\ saved.start < starts => next # "again" /\ OnlyFileAsked(disk[path], c)
    PROVE  SetupInv'
    <1> USE DEF Set, startVars
    <1>1. TypeOK' /\ Started'
        BY DEF SetupInv, TypeOK, Started
    <1>2. Settled'
        BY DEF Settled
    <1>3. SaveStands' /\ SavedBefore'
        BY DEF SetupInv, SaveStands, SavedBefore
    <1>4. Unwritten /\ pc \notin {"down", "run"}
        BY DEF Unwritten
    <1>5. NothingAsked'
        <2>1. ~InputKnown(disk[path], flags)
            BY <1>4, NamedNow
        <2> QED
            BY <2>1 DEF NothingAsked, InputKnown, NamedInput
    <1>6. FlagsHold'
        <2>1. ASSUME flags.file # "" \/ flags.iface # ""
              PROVE  /\ c.mode = cfg.mode /\ c.iface = cfg.iface /\ c.file = cfg.file
                     /\ (c.mode = "interface" => c.capIface = cfg.capIface) /\ next # "again"
            BY <1>4, <2>1, NamedNow
        <2> QED
            BY <1>4, <2>1 DEF SetupInv, FlagsHold
    <1>7. ReadAgain'
        BY DEF ReadAgain, AsSaved, OnlyFileAsked
    <1>8. FlagsWin' /\ SavedThisStart' /\ SavedIsUsedAgain'
        BY DEF FlagsWin, SavedThisStart, SavedIsUsedAgain
    <1> QED
        BY <1>1, <1>2, <1>3, <1>5, <1>6, <1>7, <1>8 DEF SetupInv

\* The setup goes on with what it has.
LEMMA GotoStep ==
    ASSUME SetupInv, NEW next \in {"input", "required", "finish"}, Goto(next),
           pc \in {"mode", "input", "save"},
           next = "required" => SourceSettled(cfg), next = "finish" => pc = "save"
    PROVE  SetupInv'
    <1> USE DEF Goto, startVars
    <1>1. TypeOK' /\ Started'
        BY DEF SetupInv, TypeOK, Started
    <1>2. Settled'
        BY DEF Settled
    <1>3. SaveStands' /\ SavedBefore'
        BY DEF SetupInv, SaveStands, SavedBefore
    <1>4. Unwritten /\ pc \notin {"down", "run"}
        BY DEF Unwritten
    <1>5. NothingAsked'
        BY <1>4 DEF SetupInv, NothingAsked, InputKnown, NamedInput
    <1>6. FlagsHold'
        BY <1>4 DEF SetupInv, FlagsHold
    <1>7. ReadAgain'
        BY <1>4 DEF SetupInv, ReadAgain, AsSaved, OnlyFileAsked
    <1>8. FlagsWin' /\ SavedThisStart' /\ SavedIsUsedAgain'
        <2>1. ASSUME next = "finish", saved # None
              PROVE  saved.start # starts
            BY <2>1 DEF SetupInv, TypeOK, SavedBefore
        <2> QED
            BY <2>1 DEF FlagsWin, SavedThisStart, SavedIsUsedAgain
    <1> QED
        BY <1>1, <1>2, <1>3, <1>5, <1>6, <1>7, <1>8 DEF SetupInv

-----------------------------------------------------------------------------
(* Each step keeps the invariant. *)

LEMMA SetupInit == Init => SetupInv
    <1> SUFFICES ASSUME Init PROVE SetupInv
        OBVIOUS
    <1> USE DEF Init
    <1>1. TypeOK
        <2>1. ASSUME NEW q \in Paths, NEW c \in DiskConfigs
              PROVE  [p \in Paths |-> IF p = q THEN c ELSE None] \in [Paths -> Config \cup {None}]
            BY InputsAssumption
        <2>2. [p \in Paths |-> None] \in [Paths -> Config \cup {None}]
            OBVIOUS
        <2>3. disk \in [Paths -> Config \cup {None}]
            BY <2>1, <2>2
        <2>4. starts \in 0 .. MaxStarts
            BY Bound
        <2>5. changed \in BOOLEAN /\ attended \in BOOLEAN
            OBVIOUS
        <2> QED
            BY <2>3, <2>4, <2>5, EmptyType DEF TypeOK
    <1>2. Started /\ Settled /\ SaveStands /\ SavedBefore
        BY DEF Started, Settled, SaveStands, SavedBefore
    <1>3. NothingAsked /\ FlagsHold /\ FlagsWin
        BY DEF NothingAsked, FlagsHold, FlagsWin
    <1>4. ReadAgain /\ SavedThisStart /\ SavedIsUsedAgain
        BY DEF ReadAgain, Unwritten, SavedThisStart, SavedIsUsedAgain
    <1> QED
        BY <1>1, <1>2, <1>3, <1>4 DEF SetupInv

LEMMA BeginStep ==
    ASSUME SetupInv, NEW f \in FlagSets, NEW x \in ConfigHomes, NEW h \in Homes,
           NEW a \in BOOLEAN, Begin(f, x, h, a)
    PROVE  SetupInv'
    <1> DEFINE d == IF disk[path'] = None THEN Empty ELSE disk[path']
    <1>1. path' = Resolve(f, x, h) /\ path' \in Paths
        BY ResolvePath DEF Begin
    <1>2. d \in Config /\ disk[path'] \in Config \cup {None}
        BY <1>1, EmptyType DEF SetupInv, TypeOK
    <1>3. /\ cfg' = Override(d, f) /\ flags' = f /\ home' = h /\ pc' = "mode"
          /\ changed' = FALSE /\ attended' = a /\ exit' = "none"
          /\ starts' = starts + 1 /\ starts < MaxStarts /\ pc = "down"
          /\ disk' = disk /\ saved' = saved
        BY DEF Begin
    <1> HIDE DEF d
    <1>4. TypeOK' /\ Started'
        <2>1. cfg' \in Config
            BY <1>2, <1>3, OverrideType
        <2>2. starts \in 0 .. MaxStarts
            BY Zenon DEF SetupInv, TypeOK
        <2>3. starts' \in 1 .. MaxStarts /\ starts' \in 0 .. MaxStarts
            BY <1>3, <2>2, Bound
        <2>4. changed' \in BOOLEAN /\ attended' \in BOOLEAN
            BY <1>3
        <2>5. flags' \in FlagSets \cup {NoFlags} /\ home' \in Homes /\ path' \in Paths
            BY <1>1, <1>3
        <2>6. /\ disk' \in [Paths -> Config \cup {None}]
              /\ saved' \in Saves \cup {None}
            BY <1>3, Zenon DEF SetupInv, TypeOK
        <2> QED
            BY <1>3, <2>1, <2>3, <2>4, <2>5, <2>6 DEF TypeOK, Started
    <1>5. Settled'
        BY <1>3 DEF Settled
    <1>6. SaveStands' /\ SavedBefore'
        <2>1. saved # None => saved.start \in 1 .. starts /\ starts \in Nat
            BY DEF SetupInv, SaveStands, TypeOK
        <2>2. saved # None => saved.start \in 1 .. starts' /\ saved.start < starts'
            BY <1>3, <2>1
        <2> QED
            BY <1>3, <2>2 DEF SetupInv, SaveStands, SavedBefore
    <1>7. NothingAsked'
        BY <1>3 DEF NothingAsked, InputKnown, d
    <1>8. FlagsHold'
        BY <1>2, <1>3, OverrideType DEF FlagsHold
    <1>9. ReadAgain'
        <2>1. ASSUME AsSaved'
              PROVE  cfg' = disk[path']
            <3>1. saved # None /\ f = NoFlags /\ path' = saved.path
                BY <1>3, <2>1 DEF AsSaved
            <3>2. disk[path'] # None
                BY <3>1 DEF SetupInv, SaveStands
            <3> QED
                BY <1>2, <1>3, <3>1, <3>2, OverrideNothing DEF d
        <2> QED
            BY <1>3, <2>1 DEF ReadAgain
    <1>10. FlagsWin' /\ SavedThisStart' /\ SavedIsUsedAgain'
        BY <1>3 DEF FlagsWin, SavedThisStart, SavedIsUsedAgain
    <1> QED
        BY <1>4, <1>5, <1>6, <1>7, <1>8, <1>9, <1>10 DEF SetupInv

LEMMA BeginFailsStep == SetupInv /\ BeginFails => SetupInv'
    <1> SUFFICES ASSUME SetupInv, BeginFails PROVE SetupInv'
        OBVIOUS
    <1> USE DEF BeginFails, startVars
    <1>1. TypeOK'
        <2>1. starts \in 0 .. MaxStarts
            BY Zenon DEF SetupInv, TypeOK
        <2>2. starts' \in 0 .. MaxStarts
            BY <2>1, Bound
        <2> QED
            BY <2>2 DEF SetupInv, TypeOK
    <1>2. Started' /\ Settled'
        BY DEF SetupInv, Started, Settled
    <1>3. SaveStands' /\ SavedBefore'
        <2>1. saved # None => saved.start \in 1 .. starts /\ starts \in Nat
            BY DEF SetupInv, SaveStands, TypeOK
        <2>2. saved # None => saved.start \in 1 .. starts'
            BY <2>1
        <2> QED
            BY <2>2 DEF SetupInv, SaveStands, SavedBefore
    <1>4. NothingAsked' /\ FlagsHold' /\ FlagsWin'
        BY DEF NothingAsked, FlagsHold, FlagsWin
    <1>5. ReadAgain' /\ SavedThisStart' /\ SavedIsUsedAgain'
        BY DEF ReadAgain, Unwritten, SavedThisStart, SavedIsUsedAgain
    <1> QED
        BY <1>1, <1>2, <1>3, <1>4, <1>5 DEF SetupInv

\* The source of input, by a question or from what is there.  A start that reads
\* a good setup again is only ever asked for a file it does not use.
LEMMA SourceStep ==
    ASSUME SetupInv, NEW v \in Sources,
           DeriveMode \/ AskMode(v) \/ TakeCaptureInterface \/ AskInterface(v)
               \/ AskAgain(v) \/ AskFile(v)
    PROVE  SetupInv'
    <1>0. cfg \in Config /\ pc \in {"mode", "input", "again"}
        BY DEF SetupInv, TypeOK, DeriveMode, AskMode, TakeCaptureInterface, AskInterface,
               AskAgain, AskFile
    <1> DEFINE Reading == AsSaved /\ saved.start < starts
    <1>1. Unwritten /\ pc \notin {"down", "run"}
        BY <1>0 DEF Unwritten
    <1>2. ASSUME Reading
          PROVE  /\ cfg = disk[path] \/ OnlyFileAsked(disk[path], cfg)
                 /\ disk[path] \in Config
                 /\ cfg.has = RequiredSet /\ SetupSettled(cfg) /\ pc # "again"
                 /\ NamedInput(cfg) \/ (cfg.mode = "file" /\ LooksLikeCaptureFile(cfg.iface))
        BY <1>1, <1>2, ReadNow
    <1> HIDE DEF Reading
    <1>3. CASE DeriveMode
        <2> DEFINE c == [cfg EXCEPT !.mode = IF cfg.file # "" THEN "file" ELSE "interface"]
        <2>1. cfg.mode = "" /\ Set(c, "input") /\ pc = "mode"
            BY <1>3 DEF DeriveMode
        <2>2. c \in Config /\ c.realtime = cfg.realtime /\ c.mqtt = cfg.mqtt
            BY <1>0 DEF Config, Modes
        <2> HIDE DEF c
        <2>3. ~NamedInput(cfg) /\ ~Reading
            BY <1>2, <2>1 DEF NamedInput
        <2> QED
            BY <2>1, <2>2, <2>3, SetStep DEF Reading
    <1>4. CASE AskMode(v)
        <2>1. cfg.mode = "" /\ Set(WithSource(cfg, v), "input") /\ pc = "mode"
            BY <1>4 DEF AskMode, Asks
        <2>2. ~NamedInput(cfg) /\ ~Reading
            BY <1>2, <2>1 DEF NamedInput
        <2>3. /\ WithSource(cfg, v) \in Config /\ WithSource(cfg, v).realtime = cfg.realtime
              /\ WithSource(cfg, v).mqtt = cfg.mqtt
            BY <1>0, WithSourceType
        <2> QED
            BY <2>1, <2>2, <2>3, SetStep DEF Reading
    <1>5. CASE TakeCaptureInterface
        <2> DEFINE c == [cfg EXCEPT !.iface = cfg.capIface]
        <2>1. /\ cfg.mode = "interface" /\ cfg.iface = "" /\ cfg.capIface # ""
              /\ Set(c, "required") /\ pc = "input"
            BY <1>5 DEF TakeCaptureInterface
        <2>2. c \in Config /\ c.realtime = cfg.realtime /\ c.mqtt = cfg.mqtt
            BY <1>0 DEF Config
        <2>3. SourceSettled(c)
            BY <1>0, <2>1 DEF SourceSettled, Config
        <2> HIDE DEF c
        <2>4. ~NamedInput(cfg) /\ ~Reading
            BY <1>2, <2>1 DEF NamedInput
        <2> QED
            BY <2>1, <2>2, <2>3, <2>4, SetStep DEF Reading
    <1>6. CASE AskInterface(v)
        <2> DEFINE next == IF Clean(v) = "" THEN "again" ELSE "required"
        <2>1. /\ cfg.mode = "interface" /\ cfg.iface = "" /\ Set(WithSource(cfg, v), next)
              /\ pc = "input"
            BY <1>6 DEF AskInterface, Asks
        <2>2. /\ WithSource(cfg, v) \in Config /\ WithSource(cfg, v).realtime = cfg.realtime
              /\ WithSource(cfg, v).mqtt = cfg.mqtt /\ SourceSettled(WithSource(cfg, v))
            BY <1>0, WithSourceType DEF SourceSettled
        <2>3. next \in {"input", "again", "required"}
            OBVIOUS
        <2> HIDE DEF next
        <2>4. ~NamedInput(cfg) /\ ~Reading
            BY <1>2, <2>1 DEF NamedInput
        <2> QED
            BY <2>1, <2>2, <2>3, <2>4, SetStep DEF Reading
    <1>7. CASE AskAgain(v)
        <2>1. Set(WithSource(cfg, v), "required") /\ pc = "again"
            BY <1>7 DEF AskAgain
        <2>2. /\ WithSource(cfg, v) \in Config /\ WithSource(cfg, v).realtime = cfg.realtime
              /\ WithSource(cfg, v).mqtt = cfg.mqtt /\ SourceSettled(WithSource(cfg, v))
            BY <1>0, WithSourceType DEF SourceSettled
        <2>3. ~Reading
            BY <1>2, <2>1
        <2> QED
            BY <2>1, <2>2, <2>3, SetStep DEF Reading
    <1>8. CASE AskFile(v)
        <2> DEFINE c == [cfg EXCEPT !.file = v]
        <2>1. cfg.mode = "file" /\ cfg.file = "" /\ Set(c, "required") /\ pc = "input"
            BY <1>8 DEF AskFile, Asks
        <2>2. /\ c \in Config /\ c.realtime = cfg.realtime /\ c.mqtt = cfg.mqtt
              /\ c.mode = "file" /\ c.file = v
            BY <1>0, <2>1 DEF Config
        <2>3. SourceSettled(c) /\ ~NamedInput(cfg)
            BY <2>1, <2>2 DEF SourceSettled, NamedInput
        <2>4. ASSUME Reading
              PROVE  OnlyFileAsked(disk[path], c)
            <3> DEFINE d == disk[path]
            <3>1. d \in Config /\ LooksLikeCaptureFile(cfg.iface)
                BY <1>2, <2>3, <2>4
            <3>2. CASE cfg = d
                BY <2>1, <2>2, <3>1, <3>2 DEF OnlyFileAsked
            <3>3. CASE OnlyFileAsked(d, cfg)
                <4>1. cfg = [d EXCEPT !.file = cfg.file] /\ d.mode = "file" /\ LooksLikeCaptureFile(d.iface)
                    BY <3>3 DEF OnlyFileAsked
                <4>2. [[d EXCEPT !.file = cfg.file] EXCEPT !.file = v] = [d EXCEPT !.file = v]
                    BY <3>1 DEF Config
                <4> QED
                    BY <2>2, <4>1, <4>2 DEF OnlyFileAsked
            <3> QED
                BY <1>2, <2>4, <3>2, <3>3
        <2> HIDE DEF c
        <2> QED
            BY <2>1, <2>2, <2>3, <2>4, SetStep DEF Reading
    <1> QED
        BY <1>3, <1>4, <1>5, <1>6, <1>7, <1>8

\* The setting asked for is one of those required.
LEMMA RequiredStep == SetupInv /\ AskRequired => SetupInv'
    <1> SUFFICES ASSUME SetupInv, AskRequired PROVE SetupInv'
        OBVIOUS
    <1> DEFINE next == CHOOSE i \in Missing : \A j \in Missing : i <= j
               b == Complete(cfg)
               c == [b EXCEPT !.has = @ \cup {Required[next]}]
    <1>1. pc = "required" /\ Missing # {} /\ Set(c, "required")
        BY Zenon DEF AskRequired
    <1>2. next \in DOMAIN Required
        <2>1. Missing \subseteq Nat /\ Missing \subseteq DOMAIN Required
            <3>1. DOMAIN Required = 1 .. Len(Required)
                BY Zenon, StartupAssumption
            <3>2. DOMAIN Required \subseteq Nat
                BY <3>1
            <3> QED
                BY <3>2 DEF Missing
        <2>2. next = CHOOSE i \in Missing : \A j \in Missing : i <= j
            OBVIOUS
        <2> HIDE DEF next
        <2>3. next \in Missing /\ \A j \in Missing : next <= j
            BY <1>1, <2>1, <2>2, Least
        <2> QED
            BY <2>1, <2>3
    <1> HIDE DEF next
    <1>3. cfg \in Config /\ SourceSettled(cfg)
        BY <1>1 DEF SetupInv, TypeOK, Settled
    <1>4. /\ b \in Config /\ SourceSettled(b) /\ b.mode = cfg.mode /\ b.iface = cfg.iface
          /\ b.file = cfg.file /\ b.realtime = cfg.realtime /\ b.mqtt = cfg.mqtt
          /\ (cfg.capIface # "" => b.capIface = cfg.capIface)
        BY <1>3, CompleteType
    <1> HIDE DEF b
    <1>5. Required[next] \in RequiredSet
        BY <1>2 DEF RequiredSet
    <1>6. /\ c \in Config /\ c.mode = b.mode /\ c.iface = b.iface /\ c.file = b.file
          /\ c.realtime = b.realtime /\ c.mqtt = b.mqtt /\ c.capIface = b.capIface
        BY <1>4, <1>5 DEF Config
    <1> HIDE DEF c
    <1>7. SourceSettled(c)
        BY <1>4, <1>6 DEF SourceSettled
    <1>8. cfg.has # RequiredSet
        BY <1>1 DEF Missing, RequiredSet
    <1>9. ~(AsSaved /\ saved.start < starts)
        <2>1. Unwritten /\ pc # "run"
            BY <1>1 DEF Unwritten
        <2> QED
            BY <1>8, <2>1, ReadNow
    <1>10. NamedInput(cfg) /\ c.mode = "interface" => c.capIface = cfg.capIface
        BY <1>4, <1>6 DEF NamedInput
    <1> QED
        BY <1>1, <1>4, <1>6, <1>7, <1>8, <1>9, <1>10, SetStep

\* What is complete is left as it is: a good setup is not saved once more.
LEMMA KnownStep == SetupInv /\ SettingsKnown => SetupInv'
    <1> SUFFICES ASSUME SetupInv, SettingsKnown PROVE SetupInv'
        OBVIOUS
    <1> USE DEF startVars
    <1>1. /\ pc = "required" /\ cfg' = Complete(cfg) /\ pc' \in {"save", "finish"}
          /\ changed' = (changed \/ (cfg.mode = "interface" /\ cfg.capIface = ""))
          /\ pc' = IF changed' THEN "save" ELSE "finish"
        BY DEF SettingsKnown
    <1>2. UNCHANGED <<disk, starts, exit, flags, home, attended, path, saved>>
        BY DEF SettingsKnown
    <1>3. cfg \in Config /\ SourceSettled(cfg) /\ cfg' \in Config /\ SetupSettled(cfg')
        BY <1>1, CompleteType DEF SetupInv, TypeOK, Settled
    <1>4. Unwritten /\ pc \notin {"down", "run"}
        BY <1>1 DEF Unwritten
    <1>5. NamedInput(cfg) => cfg' = cfg /\ changed' = changed
        BY <1>1, <1>3, CompleteType DEF NamedInput, SetupInv, TypeOK
    <1>6. TypeOK' /\ Started'
        <2>1. changed' \in BOOLEAN
            BY <1>1
        <2> QED
            BY <1>1, <1>2, <1>3, <2>1 DEF SetupInv, TypeOK, Started
    <1>7. Settled'
        BY <1>1, <1>3 DEF Settled
    <1>8. SaveStands' /\ SavedBefore'
        BY <1>1, <1>2 DEF SetupInv, SaveStands, SavedBefore
    <1>9. NothingAsked'
        <2>1. ASSUME InputKnown(disk[path], flags)
              PROVE  cfg' = cfg /\ ~changed' /\ cfg = Override(disk[path], flags)
            <3>1. NamedInput(cfg) /\ ~changed
                BY <1>4, <2>1, NamedNow
            <3>2. cfg = Override(disk[path], flags)
                BY <1>4, <2>1 DEF SetupInv, NothingAsked
            <3> QED
                BY <1>5, <3>1, <3>2
        <2> QED
            BY <1>1, <1>2, <2>1 DEF NothingAsked, InputKnown, NamedInput
    <1>10. FlagsHold'
        <2>1. flags.file # "" \/ flags.iface # "" => cfg' = cfg
            BY <1>4, <1>5, NamedNow
        <2>2. cfg'.realtime = cfg.realtime /\ cfg'.mqtt = cfg.mqtt
            BY <1>1, <1>3, CompleteType
        <2> QED
            BY <1>1, <1>2, <2>1, <2>2 DEF SetupInv, FlagsHold
    <1>11. ReadAgain'
        <2>1. ASSUME AsSaved, saved.start < starts
              PROVE  cfg' = cfg /\ (cfg = disk[path] \/ OnlyFileAsked(disk[path], cfg))
            BY <1>1, <1>3, <1>4, <2>1, ReadNow, CompleteType
        <2> QED
            BY <1>1, <1>2, <2>1 DEF ReadAgain, AsSaved, OnlyFileAsked
    <1>12. FlagsWin' /\ SavedThisStart' /\ SavedIsUsedAgain'
        <2>1. saved # None => saved.start # starts
            <3>1. saved # None => saved.start < starts
                BY <1>1 DEF SetupInv, SavedBefore
            <3>2. saved # None => saved.start \in Nat /\ starts \in Nat
                BY SavedFields DEF SetupInv
            <3> QED
                BY <3>1, <3>2
        <2> QED
            BY <1>1, <1>2, <2>1 DEF FlagsWin, SavedThisStart, SavedIsUsedAgain
    <1> QED
        BY <1>6, <1>7, <1>8, <1>9, <1>10, <1>11, <1>12 DEF SetupInv

\* The file is cut short: what was saved before is gone.
LEMMA AcceptStep == SetupInv /\ Accept => SetupInv'
    <1> SUFFICES ASSUME SetupInv, Accept PROVE SetupInv'
        OBVIOUS
    <1> USE DEF startVars
    <1>1. pc = "save" /\ pc' = "writing" /\ saved' = None /\ disk' = [disk EXCEPT ![path] = Empty]
          /\ UNCHANGED <<starts, exit, flags, home, attended, path, cfg, changed>>
        BY DEF Accept
    <1>2. TypeOK' /\ Started'
        <2>1. disk' \in [Paths -> Config \cup {None}]
            BY <1>1, EmptyType DEF SetupInv, TypeOK
        <2> QED
            BY <1>1, <2>1 DEF SetupInv, TypeOK, Started
    <1>3. Settled'
        BY <1>1 DEF SetupInv, Settled
    <1>4. SaveStands' /\ SavedBefore'
        BY <1>1 DEF SaveStands, SavedBefore
    <1>5. NothingAsked' /\ ReadAgain'
        BY <1>1 DEF NothingAsked, ReadAgain, Unwritten
    <1>6. FlagsHold'
        BY <1>1 DEF SetupInv, FlagsHold
    <1>7. FlagsWin' /\ SavedThisStart' /\ SavedIsUsedAgain'
        BY <1>1 DEF FlagsWin, SavedThisStart, SavedIsUsedAgain
    <1> QED
        BY <1>2, <1>3, <1>4, <1>5, <1>6, <1>7 DEF SetupInv

LEMMA WriteStep == SetupInv /\ Write => SetupInv'
    <1> SUFFICES ASSUME SetupInv, Write PROVE SetupInv'
        OBVIOUS
    <1> USE DEF startVars
    <1> DEFINE d == ForSave(cfg, home)
    <1>1. /\ pc = "writing" /\ pc' = "finish" /\ disk' = [disk EXCEPT ![path] = d]
          /\ saved' = [start |-> starts, path |-> path, home |-> home, used |-> Normalize(cfg, home)]
          /\ UNCHANGED <<starts, exit, flags, home, attended, path, cfg, changed>>
        BY DEF Write
    <1>2. /\ cfg \in Config /\ SetupSettled(cfg) /\ starts \in 1 .. MaxStarts
          /\ home \in Homes /\ path \in Paths /\ disk \in [Paths -> Config \cup {None}]
        BY <1>1 DEF SetupInv, TypeOK, Started, Settled
    <1>3. /\ d \in Config /\ d # None /\ SetupSettled(d)
          /\ Normalize(d, home) = Normalize(cfg, home) /\ Normalize(cfg, home) \in Config
        <2>1. d \in Config /\ d.mode = cfg.mode /\ d.iface = cfg.iface /\ d.capIface = cfg.capIface
            BY <1>2, ForSaveType
        <2>2. SetupSettled(d)
            BY <1>2, <2>1 DEF SetupSettled, SourceSettled
        <2>3. Normalize(d, home) = Normalize(cfg, home) /\ Normalize(cfg, home) \in Config
            BY <1>2, Roundtrip, NormalizeFields
        <2>4. d # None
            BY <2>1, ConfigFields
        <2> QED
            BY <2>1, <2>2, <2>3, <2>4
    <1> HIDE DEF d
    <1>4. disk' \in [Paths -> Config \cup {None}] /\ disk'[path] = d
        BY <1>1, <1>2, <1>3
    <1>5. /\ saved'.start = starts /\ saved'.path = path /\ saved'.home = home
          /\ saved'.used = Normalize(cfg, home) /\ saved' \in Saves
        BY <1>1, <1>2, <1>3 DEF Saves
    <1>6. TypeOK' /\ Started'
        BY <1>1, <1>2, <1>4, <1>5 DEF SetupInv, TypeOK, Started
    <1>7. Settled'
        BY <1>1 DEF Settled
    <1>8. SaveStands' /\ SavedBefore'
        BY <1>1, <1>2, <1>3, <1>4, <1>5 DEF SaveStands, SavedBefore
    <1>9. NothingAsked' /\ ReadAgain'
        <2>1. saved' # None
            BY <1>5, NoneAssumption
        <2>2. ~Unwritten'
            BY <1>1, <1>2, <1>5, <2>1 DEF Unwritten
        <2> QED
            BY <2>2 DEF NothingAsked, ReadAgain
    <1>10. FlagsHold'
        BY <1>1 DEF SetupInv, FlagsHold
    <1>11. FlagsWin' /\ SavedThisStart' /\ SavedIsUsedAgain'
        BY <1>1, <1>5 DEF FlagsWin, SavedThisStart, SavedIsUsedAgain
    <1> QED
        BY <1>6, <1>7, <1>8, <1>9, <1>10, <1>11 DEF SetupInv

LEMMA RunStep == SetupInv /\ Run => SetupInv'
    <1> SUFFICES ASSUME SetupInv, Run PROVE SetupInv'
        OBVIOUS
    <1> DEFINE n == Normalize(cfg, home)
    <1>1. /\ pc = "finish" /\ pc' = "run" /\ cfg' = n
          /\ UNCHANGED <<disk, starts, exit, flags, home, attended, path, changed, saved>>
        BY DEF Run, startVars
    <1>2. cfg \in Config /\ home \in Homes /\ flags \in FlagSets \cup {NoFlags}
        BY <1>1 DEF SetupInv, TypeOK, Started
    <1>3. /\ n \in Config /\ n.realtime = cfg.realtime /\ n.mqtt = cfg.mqtt
          /\ n.file = Source(cfg, home)
          /\ n.mode = IF LooksLikeCaptureFile(cfg.iface) THEN "file"
                      ELSE IF cfg.mode = "" THEN "interface" ELSE cfg.mode
          /\ n.iface = IF LooksLikeCaptureFile(cfg.iface) THEN ""
                       ELSE IF n.mode = "interface" /\ Clean(cfg.iface) = "" THEN Clean(cfg.capIface)
                       ELSE Clean(cfg.iface)
        BY <1>2, NormalizeFields
    <1> HIDE DEF n
    <1>4. TypeOK' /\ Started'
        BY <1>1, <1>3 DEF SetupInv, TypeOK, Started
    <1>5. Settled' /\ FlagsHold'
        BY <1>1 DEF Settled, FlagsHold
    <1>6. SaveStands' /\ SavedBefore'
        BY <1>1 DEF SetupInv, SaveStands, SavedBefore
    <1>7. NothingAsked'
        BY <1>1 DEF SetupInv, NothingAsked, Unwritten, InputKnown, NamedInput
    <1>8. ReadAgain'
        BY <1>1 DEF ReadAgain
    <1>9. SavedThisStart'
        BY <1>1 DEF SetupInv, SavedThisStart
    <1>10. FlagsWin'
        <2>1. flags.file \in Sources /\ flags.iface \in Sources /\ ~LooksLikeCaptureFile("")
            BY <1>2, FlagsType, CleanFacts, SourceFacts
        <2>2. /\ flags.file # "" => cfg.mode = "file" /\ cfg.file = flags.file /\ cfg.iface = ""
              /\ flags.iface # "" => cfg.mode = "interface" /\ cfg.iface = flags.iface
              /\ flags.realtime # "" => cfg.realtime = (flags.realtime = "on")
              /\ flags.mqtt # "" => cfg.mqtt = (flags.mqtt = "on")
            BY <1>1 DEF SetupInv, FlagsHold
        <2>3. ASSUME flags.file # ""
              PROVE  n.mode = "file" /\ n.file = Expand(flags.file, home)
            BY <1>3, <2>1, <2>2, <2>3 DEF Source
        <2>4. ASSUME flags.iface = "eth0"
              PROVE  n.mode = "interface" /\ n.iface = "eth0"
            <3>1. ~LooksLikeCaptureFile("eth0") /\ Clean("eth0") = "eth0"
                BY SourceFacts DEF LooksLikeCaptureFile, Clean
            <3> QED
                BY <1>3, <2>2, <2>4, <3>1
        <2>5. ASSUME flags.iface \in CaptureFiles
              PROVE  n.mode = "file" /\ n.file = flags.iface
            <3>1. LooksLikeCaptureFile(flags.iface) /\ Clean(flags.iface) = flags.iface /\ flags.iface # ""
                BY <2>1, <2>5, CleanFacts
            <3> QED
                BY <1>3, <2>2, <3>1 DEF Source
        <2>6. /\ flags.realtime # "" => n.realtime = (flags.realtime = "on")
              /\ flags.mqtt # "" => n.mqtt = (flags.mqtt = "on")
            BY <1>3, <2>2
        <2>7. UNCHANGED <<flags, home>> /\ cfg' = n
            BY <1>1
        <2> QED
            BY <2>3, <2>4, <2>5, <2>6, <2>7 DEF FlagsWin, Expand
    <1>11. SavedIsUsedAgain'
        <2> SUFFICES ASSUME AsSaved, home = saved.home PROVE n = saved.used
            BY <1>1 DEF SavedIsUsedAgain, AsSaved
        <2>1. saved # None /\ saved.start \in 1 .. starts /\ starts \in Nat
            BY DEF AsSaved, SetupInv, SaveStands, TypeOK
        <2>2. CASE saved.start = starts
            BY <1>1, <2>1, <2>2 DEF SetupInv, SavedThisStart, n
        <2>3. CASE saved.start < starts
            <3>1. Unwritten /\ pc # "run"
                BY <1>1, <2>3 DEF Unwritten
            <3>2. /\ disk[path] \in Config
                  /\ cfg = disk[path] \/ OnlyFileAsked(disk[path], cfg)
                  /\ Normalize(disk[path], home) = saved.used
                BY <2>3, <3>1, ReadNow
            <3>3. ASSUME OnlyFileAsked(disk[path], cfg)
                  PROVE  Normalize(cfg, home) = Normalize(disk[path], home)
                <4>1. /\ cfg = [disk[path] EXCEPT !.file = cfg.file]
                      /\ LooksLikeCaptureFile(disk[path].iface)
                    BY <3>3 DEF OnlyFileAsked
                <4>2. cfg.file \in Sources
                    BY <1>2, ConfigFields
                <4> QED
                    BY <1>2, <3>2, <4>1, <4>2, FileIgnored
            <3> QED
                BY <3>2, <3>3 DEF n
        <2> QED
            BY <2>1, <2>2, <2>3
    <1> QED
        BY <1>4, <1>5, <1>6, <1>7, <1>8, <1>9, <1>10, <1>11 DEF SetupInv

LEMMA SetupStep == SetupInv /\ [Next]_vars => SetupInv'
    <1> SUFFICES ASSUME SetupInv, [Next]_vars PROVE SetupInv'
        OBVIOUS
    <1>1. CASE UNCHANGED vars
        <2> USE <1>1 DEF vars
        <2>1. TypeOK' /\ Started' /\ Settled' /\ SaveStands' /\ SavedBefore'
            BY DEF SetupInv, TypeOK, Started, Settled, SaveStands, SavedBefore
        <2>2. NothingAsked' /\ FlagsHold' /\ FlagsWin'
            BY DEF SetupInv, NothingAsked, FlagsHold, FlagsWin, Unwritten, InputKnown, NamedInput,
                   Expand
        <2>3. ReadAgain' /\ SavedThisStart' /\ SavedIsUsedAgain'
            BY DEF SetupInv, ReadAgain, SavedThisStart, SavedIsUsedAgain, AsSaved, Unwritten,
                   OnlyFileAsked
        <2> QED
            BY <2>1, <2>2, <2>3 DEF SetupInv
    <1>2. ASSUME NEW f \in FlagSets, NEW x \in ConfigHomes, NEW h \in Homes, NEW a \in BOOLEAN,
                 Begin(f, x, h, a)
          PROVE  SetupInv'
        BY <1>2, BeginStep
    <1>3. ASSUME NEW v \in Answers, AskMode(v) \/ AskInterface(v) \/ AskAgain(v) \/ AskFile(v)
          PROVE  SetupInv'
        BY <1>3, InputsAssumption, SourceStep
    <1>4. CASE DeriveMode \/ TakeCaptureInterface
        BY <1>4, SourceFacts, SourceStep
    <1>5. CASE KnowMode \/ KnowInput \/ Decline
        <2>1. CASE KnowMode
            BY <2>1, GotoStep DEF KnowMode
        <2>2. CASE KnowInput
            BY <2>2, GotoStep DEF KnowInput, SourceSettled
        <2>3. CASE Decline
            BY <2>3, GotoStep DEF Decline
        <2> QED
            BY <1>5, <2>1, <2>2, <2>3
    <1>6. CASE RejectMode \/ Abort \/ SaveFails \/ EndOfInput \/ Refuse \/ MappingFails
                 \/ RunEnds \/ Kill
        BY <1>6, StopStep DEF RejectMode, Abort, SaveFails, EndOfInput, Refuse, MappingFails,
                              RunEnds, Kill
    <1>7. CASE AskRequired \/ SettingsKnown
        BY <1>7, RequiredStep, KnownStep
    <1>8. CASE Accept \/ Write
        BY <1>8, AcceptStep, WriteStep
    <1>9. CASE Run \/ BeginFails
        BY <1>9, RunStep, BeginFailsStep
    <1> QED
        BY <1>1, <1>2, <1>3, <1>4, <1>5, <1>6, <1>7, <1>8, <1>9 DEF Next

-----------------------------------------------------------------------------
(* What the setup promises. *)

LEMMA SetupInvHolds == Spec => []SetupInv
    BY SetupInit, SetupStep, PTL DEF Spec

LEMMA KnownAnswers ==
    ASSUME SetupInv, pc # "down", InputKnown(disk[path], flags)
    PROVE  ~Asks
    <1>1. CASE pc \in {"mode", "input", "again", "required", "save"}
        <2>1. Unwritten /\ pc \notin {"down", "run"}
            BY <1>1 DEF Unwritten
        <2>2. NamedInput(cfg) /\ cfg.has = RequiredSet /\ pc \notin {"again", "save"}
            BY <2>1, NamedNow
        <2>3. Missing = {}
            BY <2>2 DEF Missing, RequiredSet
        <2> QED
            BY <2>2, <2>3 DEF Asks, NamedInput
    <1>2. CASE pc \notin {"mode", "input", "again", "required", "save"}
        BY <1>2 DEF Asks
    <1> QED
        BY <1>1, <1>2

\* The configuration in hand and every file, a truncated one with them, are
\* settings the program has.
THEOREM StartupTypeCorrect == Spec => []TypeOK
    <1>1. SetupInv => TypeOK
        BY Zenon DEF SetupInv
    <1> QED
        BY <1>1, SetupInvHolds, PTL

\* A start without options runs with the settings the last save came to.
THEOREM SavedCorrect == Spec => []SavedIsUsedAgain
    <1>1. SetupInv => SavedIsUsedAgain
        BY Zenon DEF SetupInv
    <1> QED
        BY <1>1, SetupInvHolds, PTL

\* Whatever the file says and the user answers, run has what the command line says.
THEOREM FlagsCorrect == Spec => []FlagsWin
    <1>1. SetupInv => FlagsWin
        BY Zenon DEF SetupInv
    <1> QED
        BY <1>1, SetupInvHolds, PTL

\* A command line or a file that names the input leaves nothing to ask.
THEOREM NamedInputCorrect == Spec => []NamedInputAsksNothing
    <1>1. ASSUME SetupInv PROVE NamedInputAsksNothing
        <2> SUFFICES ASSUME pc # "down", InputKnown(disk[path], flags) PROVE ~Asks
            BY DEF NamedInputAsksNothing, InputKnown
        <2> QED
            BY <1>1, KnownAnswers
    <1> QED
        BY <1>1, SetupInvHolds, PTL

\* A setup that was saved and is good for running is not gone through again: it
\* names its input, whatever was left of it to Normalize.
THEOREM NotAskedCorrect == Spec => []NotAskedAgain
    <1>1. ASSUME SetupInv PROVE NotAskedAgain
        <2> SUFFICES ASSUME AsSaved, saved.start < starts, ~LooksLikeCaptureFile(disk[path].iface)
                     PROVE  ~changed /\ ~Asks
            BY DEF NotAskedAgain
        <2> DEFINE d == disk[path]
        <2>1. saved # None /\ path \in Paths /\ saved.home \in Homes
            BY <1>1, SavedFields DEF AsSaved, SetupInv
        <2>2. d \in Config /\ SetupSettled(d) /\ Valid(Normalize(d, saved.home))
            <3>1. d # None /\ SetupSettled(d) /\ Valid(Normalize(d, saved.home))
                BY <1>1 DEF AsSaved, SetupInv, SaveStands
            <3>2. disk \in [Paths -> Config \cup {None}]
                BY <1>1, Zenon DEF SetupInv, TypeOK
            <3> QED
                BY <2>1, <3>1, <3>2
        <2>3. InputKnown(d, flags)
            BY <2>1, <2>2, ValidNames, NoneAssumption DEF InputKnown
        <2>4. pc # "down" /\ pc # "writing"
            BY <1>1, <2>1, NoneAssumption DEF SetupInv, SavedBefore, Started
        <2>5. Unwritten
            BY <1>1, <2>4 DEF SetupInv, TypeOK, Unwritten
        <2>6. ~changed /\ pc \notin {"again", "save"}
            BY <1>1, <2>3, <2>4, <2>5 DEF SetupInv, NothingAsked
        <2> QED
            BY <1>1, <2>3, <2>4, <2>6, KnownAnswers
    <1> QED
        BY <1>1, SetupInvHolds, PTL

-----------------------------------------------------------------------------
(* Who writes. *)

\* A file is being written only after a user said "ja": from the question to the
\* write, nothing changes who sits at the input.
WritingAttended == pc = "writing" => attended

LEMMA WritingInit == Init => WritingAttended
    BY DEF Init, WritingAttended

\* The phases a step goes to.
LEMMA WritingStep == WritingAttended /\ [Next]_vars => WritingAttended'
    <1> SUFFICES ASSUME WritingAttended, [Next]_vars PROVE WritingAttended'
        OBVIOUS
    <1> USE DEF WritingAttended
    <1>1. CASE UNCHANGED vars
        BY <1>1 DEF vars
    <1>2. ASSUME NEW f \in FlagSets, NEW x \in ConfigHomes, NEW h \in Homes, NEW a \in BOOLEAN,
                 Begin(f, x, h, a)
          PROVE  WritingAttended'
        BY <1>2 DEF Begin
    <1>3. ASSUME NEW v \in Answers,
                 AskMode(v) \/ AskInterface(v) \/ AskAgain(v) \/ AskFile(v)
          PROVE  WritingAttended'
        BY <1>3 DEF AskMode, AskInterface, AskAgain, AskFile, Set
    <1>4. CASE KnowMode \/ DeriveMode \/ KnowInput \/ TakeCaptureInterface
        BY <1>4 DEF KnowMode, DeriveMode, KnowInput, TakeCaptureInterface, Goto, Set
    <1>5. CASE RejectMode \/ Abort \/ SaveFails \/ EndOfInput \/ Refuse \/ MappingFails
                 \/ RunEnds \/ Kill
        BY <1>5 DEF RejectMode, Abort, SaveFails, EndOfInput, Refuse, MappingFails,
                    RunEnds, Kill, Stop
    <1>6. CASE AskRequired \/ SettingsKnown \/ Decline \/ Run
        BY <1>6 DEF AskRequired, SettingsKnown, Decline, Run, Goto, Set
    <1>7. CASE Accept
        BY <1>7 DEF Accept, startVars
    <1>8. CASE Write
        BY <1>8 DEF Write
    <1>9. CASE BeginFails
        BY <1>9 DEF BeginFails, startVars
    <1> QED
        BY <1>1, <1>2, <1>3, <1>4, <1>5, <1>6, <1>7, <1>8, <1>9 DEF Next

\* Of all steps, only the two halves of a save change a file.
LEMMA WritersAttended ==
    WritingAttended /\ [Next]_vars => [disk' # disk => attended]_vars
    <1> SUFFICES ASSUME WritingAttended, Next, disk' # disk PROVE attended
        BY DEF vars
    <1> USE DEF startVars
    <1>1. CASE Accept
        BY <1>1 DEF Accept
    <1>2. CASE Write
        BY <1>2 DEF Write, WritingAttended
    <1>3. ASSUME NEW f \in FlagSets, NEW x \in ConfigHomes, NEW h \in Homes, NEW a \in BOOLEAN
          PROVE  ~Begin(f, x, h, a)
        BY DEF Begin
    <1>4. ASSUME NEW v \in Answers
          PROVE  ~AskMode(v) /\ ~AskInterface(v) /\ ~AskAgain(v) /\ ~AskFile(v)
        BY DEF AskMode, AskInterface, AskAgain, AskFile, Set
    <1>5. ~KnowMode /\ ~DeriveMode /\ ~KnowInput /\ ~TakeCaptureInterface
        BY DEF KnowMode, DeriveMode, KnowInput, TakeCaptureInterface, Goto, Set
    <1>6. /\ ~RejectMode /\ ~Abort /\ ~SaveFails /\ ~EndOfInput
          /\ ~Refuse /\ ~MappingFails /\ ~RunEnds /\ ~Kill
        BY DEF RejectMode, Abort, SaveFails, EndOfInput, Refuse, MappingFails,
               RunEnds, Kill, Stop
    <1>7. ~AskRequired /\ ~SettingsKnown /\ ~Decline /\ ~Run /\ ~BeginFails
        BY DEF AskRequired, SettingsKnown, Decline, Run, BeginFails, Goto, Set
    <1> QED
        BY <1>1, <1>2, <1>3, <1>4, <1>5, <1>6, <1>7 DEF Next

\* A start whose input nobody answers, such as that of the service, leaves every
\* configuration file as it is.
THEOREM UnattendedCorrect == Spec => UnattendedNeverWrites
    <1>1. Spec => []WritingAttended
        BY WritingInit, WritingStep, PTL DEF Spec
    <1> QED
        BY <1>1, WritersAttended, PTL DEF Spec, UnattendedNeverWrites
=============================================================================
