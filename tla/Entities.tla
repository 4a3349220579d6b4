------------------------------- MODULE Entities -------------------------------
(***************************************************************************)
(* What Home Assistant shows of the dongle's records: processes that load  *)
(* the mapping file, announce their sensors (planDiscovery), merge records *)
(* into fields and publish the state (processMessage), and end at any time *)
(* by an error, a signal or a crash, while the broker keeps what was       *)
(* published and the user edits the mapping file.                          *)
(*                                                                         *)
(* Publishing is reliable here: what may happen to it is Bridge's subject. *)
(***************************************************************************)
EXTENDS Discovery

CONSTANTS
    Messages,   \* the fields of the records the dongle sends
    MaxMessages \* bound: records a process handles

ASSUME MessagesAssumption ==
    \A m \in Messages : DOMAIN m \subseteq Names /\ Range(m) \subseteq Value
ASSUME MaxMessagesAssumption == MaxMessages \in Nat

VARIABLES
    file,       \* the mapping file, None if none is configured
    phase,      \* "down", "announcing", "serving"
    sensors,    \* the sensors the process announces
    announced,  \* how many of them it has announced
    fields,     \* Processor.fields
    config,     \* retained: per object id, the sensor announced last, or None
    state,      \* retained: the raw state, or NoPayload
    log         \* history: the records this process has published

vars == <<file, phase, sensors, announced, fields, config, state, log>>

NoFields == [k \in {} |-> Text]

\* The empty payload, with which MQTT says that nothing is retained.
NoPayload == <<>>

TypeOK ==
    /\ file \in MappingFiles \cup {None}
    /\ phase \in {"down", "announcing", "serving"}
    /\ \A i \in DOMAIN sensors : sensors[i] \in Sensor /\ sensors[i].object_id # None
    /\ announced \in 0 .. Len(sensors)
    /\ DOMAIN fields \subseteq Names /\ Range(fields) \subseteq Value
    /\ DOMAIN config = ObjectIDs /\ Range(config) \subseteq Sensor \cup {None}
    /\ state # NoPayload => Marshals(state)
    /\ log \in Seq(Messages) /\ Len(log) <= MaxMessages

Init ==
    /\ file \in MappingFiles \cup {None}
    /\ phase = "down" /\ sensors = <<>> /\ announced = 0
    /\ fields = NoFields
    /\ config = [o \in ObjectIDs |-> None]
    /\ state = NoPayload /\ log = <<>>

\* The user edits the mapping file, or takes it out of the configuration.
Edit(m) ==
    /\ file' = m
    /\ UNCHANGED <<phase, sensors, announced, fields, config, state, log>>

\* A process starts, if the mapping file is accepted.
Start ==
    /\ phase = "down"
    /\ file # None => Accepts(file)
    /\ phase' = "announcing"
    /\ sensors' = SensorsOf(file)
    /\ announced' = 0
    /\ fields' = NoFields
    /\ log' = <<>>
    /\ UNCHANGED <<file, config, state>>

\* planDiscovery: one retained message per sensor.
Announce ==
    /\ phase = "announcing" /\ announced < Len(sensors)
    /\ LET s == sensors[announced + 1]
       IN  config' = [config EXCEPT ![s.object_id] = s]
    /\ announced' = announced + 1
    /\ UNCHANGED <<file, phase, sensors, fields, state, log>>

Announced ==
    /\ phase = "announcing" /\ announced = Len(sensors)
    /\ phase' = "serving"
    /\ UNCHANGED <<file, sensors, announced, fields, config, state, log>>

\* Mutant: fields seen before are not updated.
MergedFirst(m) == [k \in DOMAIN fields \cup DOMAIN m |->
                        IF k \in DOMAIN fields THEN fields[k] ELSE m[k]]

\* mergeFields
Merged(m) == [k \in DOMAIN fields \cup DOMAIN m |-> IF k \in DOMAIN m THEN m[k] ELSE fields[k]]

\* Mutant: the error of Marshal is not looked at.
MessageUnchecked(m) ==
    /\ phase = "serving" /\ Len(log) < MaxMessages
    /\ fields' = Merged(m)
    /\ state' = Build(fields')
    /\ log' = Append(log, m)
    /\ UNCHANGED <<phase, file, sensors, announced, config>>

\* processMessage: merge, build, publish retained; a payload that cannot be
\* marshalled ends the process.
Message(m) ==
    /\ phase = "serving" /\ Len(log) < MaxMessages
    /\ fields' = Merged(m)
    /\ \/ /\ Marshals(Build(fields'))
          /\ state' = Build(fields')
          /\ log' = Append(log, m)
          /\ UNCHANGED phase
       \/ /\ ~Marshals(Build(fields'))
          /\ phase' = "down"
          /\ UNCHANGED <<state, log>>
    /\ UNCHANGED <<file, sensors, announced, config>>

\* An error, a signal or a crash, between two publishes.
End ==
    /\ phase # "down"
    /\ phase' = "down"
    /\ UNCHANGED <<file, sensors, announced, fields, config, state, log>>

Next ==
    \/ \E m \in MappingFiles \cup {None} : Edit(m)
    \/ Start \/ Announce \/ Announced \/ End
    \/ \E m \in Messages : Message(m)

Spec == Init /\ [][Next]_vars

-----------------------------------------------------------------------------
\* What Home Assistant shows of object id o.
Shown(o) ==
    IF config[o] = None \/ state = NoPayload THEN None ELSE valueTemplate(config[o], state)

\* The newest value the process has published of field k, None if there is none.
Newest(k) ==
    LET with == {i \in DOMAIN log : k \in DOMAIN log[i]}
    IN  IF with = {} THEN None ELSE log[CHOOSE i \in with : \A j \in with : j <= i][k]

NewestIsNumber(k) == Newest(k) \notin {None, Text}

\* The numbered fields whose sum field k is.
Parts(k) ==
    UNION {{n \in Numbered(p) : Newest(n) # None} : p \in {q \in DOMAIN Total : Total[q] = k}}

\* Property: once a process has published, every entity Home Assistant knows,
\* those of earlier processes and mappings too, shows the newest value of its
\* own field, however the fields are spread over the records, and nothing that
\* an earlier process left; a total is the sum of the newest values of its
\* parts, even when a record has a total of its own.
ShownIsNewest ==
    log # <<>> => \A o \in ObjectIDs : config[o] # None =>
        LET k == config[o].field
        IN  IF Parts(k) # {}
            THEN Shown(o) = SumOf([n \in Parts(k) |-> Newest(n)], Parts(k))
            ELSE IF NewestIsNumber(k) THEN Shown(o) = Newest(k)
            ELSE Shown(o) \in {None, Newest(k)}

\* Property: two entities for the total and for its parts agree, in every state
\* the broker retains, over the end and the start of processes.
TotalsAgree ==
    state # NoPayload =>
        \A o \in ObjectIDs : \A p \in DOMAIN Total :
            LET parts == matchingNumberedKeys(state.fields, p)
            IN  config[o] # None /\ config[o].field = Total[p] /\ parts # {}
                    => Shown(o) = SumOf(state.values, parts \cap DOMAIN state.values)

\* Property: while a process serves, each of its sensors has an entity of its
\* own with the settings it was given: none has overwritten another's, and no
\* entity of an earlier mapping is in its place.
EveryEntityAnnounced ==
    phase = "serving" =>
        \A i \in DOMAIN sensors : config[sensors[i].object_id] = sensors[i]
=============================================================================
