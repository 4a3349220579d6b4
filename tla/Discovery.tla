------------------------------ MODULE Discovery ------------------------------
(***************************************************************************)
(* src/internal/homeassistant/discovery.go: which sensors are announced to *)
(* Home Assistant, under which object id, and what their template reads    *)
(* from a raw state.  Names, units and classes are left out.               *)
(***************************************************************************)
EXTENDS RawState, Sequences

CONSTANTS
    ObjectIDs,      \* the object ids
    objectID(_),    \* the object id made from a field name
    BaseSensors,    \* the built-in sensors
    MappingFiles,   \* contents of the mapping file: [include_defaults, sensors]
    None            \* no object id, no file, no value

\* A sensor of a mapping file may have no object id, and no field.
Sensor == [field : Names \cup {None}, object_id : ObjectIDs \cup {None}, diagnostic : BOOLEAN]

Mapping == [include_defaults : BOOLEAN, sensors : Seq(Sensor)]

ASSUME ObjectIDAssumption == \A k \in Names : objectID(k) \in ObjectIDs \cup {None}
ASSUME NoneAssumption == None \notin Value
ASSUME MappingFilesAssumption == MappingFiles \subseteq Mapping
ASSUME BaseSensorsAssumption ==
    /\ BaseSensors \in Seq(Sensor)
    /\ \A i \in DOMAIN BaseSensors : BaseSensors[i].object_id # None
    /\ \A i, j \in DOMAIN BaseSensors :
          i # j => BaseSensors[i].object_id # BaseSensors[j].object_id

normalizeSensor(s) ==
    IF s.object_id = None /\ s.field # None
    THEN [s EXCEPT !.object_id = objectID(s.field)] ELSE s

\* The sensors a mapping file asks for.
Listed(m) == (IF m.include_defaults THEN BaseSensors ELSE <<>>) \o m.sensors
Normalized(m) == [i \in DOMAIN Listed(m) |-> normalizeSensor(Listed(m)[i])]

\* Mutant: duplicates are looked for before the sensors are normalised.
AcceptsRaw(m) ==
    LET sensors == Normalized(m)
    IN  /\ \A i \in DOMAIN sensors : sensors[i].field # None /\ sensors[i].object_id # None
        /\ \A i, j \in DOMAIN sensors :
              i # j => Listed(m)[i].object_id = None \/ Listed(m)[i].object_id # Listed(m)[j].object_id

\* LoadMappingFile returns no error.
Accepts(m) ==
    LET sensors == Normalized(m)
    IN  /\ \A i \in DOMAIN sensors : sensors[i].field # None /\ sensors[i].object_id # None
        /\ \A i, j \in DOMAIN sensors : i # j => sensors[i].object_id # sensors[j].object_id

\* loadSensorMapping and the choice in planDiscovery: no file, or no sensor in
\* it, stands for the built-in ones.
SensorsOf(file) ==
    IF file = None \/ Normalized(file) = <<>> THEN BaseSensors ELSE Normalized(file)

\* valueTemplate, evaluated by Home Assistant: the numeric value; a diagnostic
\* sensor falls back to the raw field.  Marshal leaves out values when there is
\* none, and then the template fails for every sensor.
valueTemplate(sensor, payload) ==
    IF sensor.field \in DOMAIN payload.values THEN payload.values[sensor.field]
    ELSE IF /\ sensor.diagnostic
            /\ DOMAIN payload.values # {}
            /\ sensor.field \in DOMAIN payload.fields
         THEN payload.fields[sensor.field]
    ELSE None
=============================================================================
