---------------------------- MODULE EntitiesProofs ----------------------------
(***************************************************************************)
(* Proofs about the entities, for every mapping file, every list of        *)
(* built-in sensors, every rule that makes object ids from field names and *)
(* every record; TLC checks six mapping files and six records.             *)
(***************************************************************************)
EXTENDS Entities, TLAPS

\* A list of sensors that have each an object id of its own.
Distinct(list) ==
    /\ list \in Seq(Sensor)
    /\ \A i \in DOMAIN list : list[i].object_id \in ObjectIDs /\ list[i].object_id # None
    /\ \A i, j \in DOMAIN list : i # j => list[i].object_id # list[j].object_id

LEMMA BaseDistinct == Distinct(BaseSensors)
    <1>1. BaseSensors \in Seq(Sensor)
        BY BaseSensorsAssumption
    <1>2. \A i \in DOMAIN BaseSensors :
              BaseSensors[i].object_id \in ObjectIDs /\ BaseSensors[i].object_id # None
        <2> TAKE i \in DOMAIN BaseSensors
        <2>1. BaseSensors[i] \in Sensor
            BY <1>1
        <2> QED
            BY <2>1, BaseSensorsAssumption DEF Sensor
    <1> QED
        BY <1>1, <1>2, BaseSensorsAssumption DEF Distinct

LEMMA NormalizeType ==
    ASSUME NEW s \in Sensor PROVE normalizeSensor(s) \in Sensor
    <1>1. CASE s.object_id = None /\ s.field # None
        <2>1. s.field \in Names
            BY <1>1 DEF Sensor
        <2>2. objectID(s.field) \in ObjectIDs \cup {None}
            BY <2>1, ObjectIDAssumption
        <2> QED
            BY <1>1, <2>2 DEF normalizeSensor, Sensor
    <1>2. CASE ~(s.object_id = None /\ s.field # None)
        BY <1>2 DEF normalizeSensor
    <1> QED
        BY <1>1, <1>2

LEMMA NormalizedType ==
    ASSUME NEW m \in Mapping PROVE Normalized(m) \in Seq(Sensor)
    <1>1. m.sensors \in Seq(Sensor)
        BY DEF Mapping
    <1>2. Listed(m) \in Seq(Sensor)
        BY <1>1, BaseSensorsAssumption DEF Listed
    <1>3. \A i \in DOMAIN Listed(m) : normalizeSensor(Listed(m)[i]) \in Sensor
        BY <1>2, NormalizeType
    <1> QED
        BY <1>2, <1>3 DEF Normalized

\* What LoadMappingFile accepts is announced under object ids of its own.
LEMMA AcceptedDistinct ==
    ASSUME NEW f \in MappingFiles \cup {None}, f # None => Accepts(f)
    PROVE  Distinct(SensorsOf(f))
    <1>1. CASE f = None \/ Normalized(f) = <<>>
        BY <1>1, BaseDistinct DEF SensorsOf
    <1>2. CASE f # None /\ Normalized(f) # <<>>
        <2>1. SensorsOf(f) = Normalized(f) /\ Accepts(f)
            BY <1>2 DEF SensorsOf
        <2>2. Normalized(f) \in Seq(Sensor)
            BY <1>2, NormalizedType, MappingFilesAssumption
        <2>3. \A i \in DOMAIN Normalized(f) : Normalized(f)[i].object_id \in ObjectIDs \cup {None}
            <3> TAKE i \in DOMAIN Normalized(f)
            <3>1. Normalized(f)[i] \in Sensor
                BY <2>2
            <3> QED
                BY <3>1 DEF Sensor
        <2> QED
            BY <2>1, <2>2, <2>3 DEF Accepts, Distinct
    <1> QED
        BY <1>1, <1>2

-----------------------------------------------------------------------------
(* What a raw state holds. *)

LEMMA SumAlike ==
    ASSUME NEW F, NEW keys, NEW G, NEW others,
           {n \in keys : Parses(F[n])} = {n \in others : Parses(G[n])},
           \A n \in keys : Parses(F[n]) => F[n] = G[n]
    PROVE  SumOf(F, keys) = SumOf(G, others)
    <1>1. [k \in {n \in keys : Parses(F[n])} |-> F[k]] = [k \in {n \in others : Parses(G[n])} |-> G[k]]
        OBVIOUS
    <1> QED
        BY <1>1 DEF SumOf

\* Each total belongs to one prefix, and replaces what the fields have for it.
LEMMA BuildValues ==
    ASSUME NEW F
    PROVE  LET V == Build(F).values
               derived == {Total[p] : p \in {q \in DOMAIN Total : matchingNumberedKeys(F, q) # {}}}
           IN  /\ Build(F).fields = F
               /\ DOMAIN V = {n \in DOMAIN F : Parses(F[n])} \cup derived
               /\ \A p \in DOMAIN Total : matchingNumberedKeys(F, p) # {} =>
                      V[Total[p]] = SumOf(F, matchingNumberedKeys(F, p))
               /\ \A k \in DOMAIN F : Parses(F[k]) /\ k \notin derived => V[k] = F[k]
    <1> DEFINE V == Build(F).values
               numbers == {n \in DOMAIN F : Parses(F[n])}
               totals == {q \in DOMAIN Total : matchingNumberedKeys(F, q) # {}}
               derived == {Total[p] : p \in totals}
               of(k) == CHOOSE p \in totals : Total[p] = k
    <1>1. Build(F).fields = F
        BY DEF Build
    <1>2. V = [k \in numbers \cup derived |->
                   IF k \in derived THEN SumOf(F, matchingNumberedKeys(F, of(k))) ELSE F[k]]
        BY DEF Build, addDerivedValues, numericValues
    <1>3. \A p, q \in DOMAIN Total : Total[p] = Total[q] => p = q
        BY DEF Total
    <1>4. \A p \in totals : of(Total[p]) = p
        BY <1>3
    <1> HIDE DEF V, numbers, of
    <1>5. \A p \in totals : V[Total[p]] = SumOf(F, matchingNumberedKeys(F, p))
        BY <1>2, <1>4
    <1>6. DOMAIN V = numbers \cup derived
        BY <1>2
    <1>7. \A k \in numbers : k \notin derived => V[k] = F[k]
        BY <1>2
    <1> QED
        BY <1>1, <1>5, <1>6, <1>7 DEF V, numbers

LEMMA BuildIsPayload == ASSUME NEW F PROVE Build(F) # NoPayload
    <1>1. "fields" \in DOMAIN Build(F)
        BY DEF Build
    <1>2. DOMAIN NoPayload = {}
        BY DEF NoPayload
    <1> QED
        BY <1>1, <1>2

-----------------------------------------------------------------------------
(* The types. *)

\* The values of a record put over those of the fields.
LEMMA MergedType ==
    ASSUME TypeOK, NEW m \in Messages
    PROVE  DOMAIN Merged(m) \subseteq Names /\ Range(Merged(m)) \subseteq Value
    <1>1. DOMAIN m \subseteq Names /\ \A k \in DOMAIN m : m[k] \in Value
        BY MessagesAssumption DEF Range
    <1>2. DOMAIN fields \subseteq Names /\ \A k \in DOMAIN fields : fields[k] \in Value
        BY DEF TypeOK, Range
    <1>3. DOMAIN Merged(m) = DOMAIN fields \cup DOMAIN m
        BY DEF Merged
    <1>4. \A k \in DOMAIN Merged(m) : Merged(m)[k] \in Value
        BY <1>1, <1>2 DEF Merged
    <1> QED
        BY <1>1, <1>2, <1>3, <1>4 DEF Range

SensorsOK == Distinct(sensors) /\ announced \in 0 .. Len(sensors)

\* The announced sensors are what the broker keeps for them, and a serving
\* process has announced all.
Kept ==
    /\ phase \in {"announcing", "serving"} =>
            \A i \in 1 .. announced : config[sensors[i].object_id] = sensors[i]
    /\ phase = "serving" => announced = Len(sensors)

IInv == TypeOK /\ SensorsOK /\ Kept

LEMMA IInvInit == Init => IInv
    <1> SUFFICES ASSUME Init PROVE IInv
        OBVIOUS
    <1>1. SensorsOK /\ Kept
        BY DEF Init, SensorsOK, Distinct, Kept
    <1>2. DOMAIN fields \subseteq Names /\ Range(fields) \subseteq Value
        BY DEF Init, NoFields, Range
    <1>3. DOMAIN config = ObjectIDs /\ Range(config) \subseteq Sensor \cup {None}
        BY DEF Init, Range
    <1>4. TypeOK
        BY <1>2, <1>3, MaxMessagesAssumption DEF Init, TypeOK
    <1> QED
        BY <1>1, <1>4 DEF IInv

LEMMA StartStep == ASSUME IInv, Start PROVE IInv'
    <1>1. Distinct(sensors')
        BY AcceptedDistinct DEF IInv, TypeOK, Start
    <1>2. SensorsOK'
        BY <1>1 DEF Start, SensorsOK, Distinct
    <1>3. Kept'
        BY DEF Start, Kept
    <1>4. TypeOK'
        <2>1. \A i \in DOMAIN sensors' : sensors'[i] \in Sensor /\ sensors'[i].object_id # None
            BY <1>1 DEF Distinct
        <2>2. DOMAIN fields' \subseteq Names /\ Range(fields') \subseteq Value
            BY DEF Start, NoFields, Range
        <2>3. announced' \in 0 .. Len(sensors')
            BY <1>2 DEF SensorsOK
        <2>4. log' \in Seq(Messages) /\ Len(log') <= MaxMessages
            BY MaxMessagesAssumption DEF Start
        <2> QED
            BY <2>1, <2>2, <2>3, <2>4 DEF IInv, TypeOK, Start, Marshals
    <1> QED
        BY <1>2, <1>3, <1>4 DEF IInv

LEMMA AnnounceStep == ASSUME IInv, Announce PROVE IInv'
    <1> DEFINE s == sensors[announced + 1]
    <1>1. /\ sensors \in Seq(Sensor) /\ announced \in 0 .. Len(sensors)
          /\ announced + 1 \in DOMAIN sensors
        BY DEF IInv, SensorsOK, Distinct, Announce
    <1>2. s \in Sensor /\ s.object_id \in ObjectIDs
        BY <1>1 DEF IInv, SensorsOK, Distinct
    <1>3. SensorsOK'
        BY <1>1 DEF IInv, SensorsOK, Announce
    <1>4. config' = [config EXCEPT ![s.object_id] = s] /\ DOMAIN config = ObjectIDs
        BY DEF IInv, TypeOK, Announce
    <1>5. Kept'
        <2>1. ASSUME NEW i \in 1 .. announced' PROVE config'[sensors[i].object_id] = sensors[i]
            <3>1. CASE i = announced + 1
                BY <1>2, <1>4, <3>1
            <3>2. CASE i # announced + 1
                <4>1. i \in 1 .. announced /\ i \in DOMAIN sensors
                    BY <1>1, <2>1, <3>2 DEF Announce
                <4>2. sensors[i].object_id # s.object_id /\ sensors[i].object_id \in ObjectIDs
                    BY <1>1, <3>2, <4>1 DEF IInv, SensorsOK, Distinct
                <4>3. config[sensors[i].object_id] = sensors[i]
                    BY <4>1 DEF IInv, Kept, Announce
                <4> QED
                    BY <1>4, <4>2, <4>3
            <3> QED
                BY <3>1, <3>2
        <2> QED
            BY <2>1 DEF Announce, Kept
    <1>6. Range(config') \subseteq Sensor \cup {None}
        BY <1>2, <1>4 DEF IInv, TypeOK, Range
    <1>7. TypeOK'
        <2>1. DOMAIN config' = ObjectIDs
            BY <1>4
        <2>2. announced' \in 0 .. Len(sensors')
            BY <1>3 DEF SensorsOK
        <2>3. UNCHANGED <<file, phase, sensors, fields, state, log>>
            BY DEF Announce
        <2> QED
            BY <1>6, <2>1, <2>2, <2>3 DEF IInv, TypeOK, Marshals
    <1> QED
        BY <1>3, <1>5, <1>7 DEF IInv

LEMMA MessageStep == ASSUME IInv, NEW m \in Messages, Message(m) PROVE IInv'
    <1>1. SensorsOK' /\ Kept'
        BY DEF IInv, SensorsOK, Kept, Message
    <1>2. DOMAIN fields' \subseteq Names /\ Range(fields') \subseteq Value
        BY MergedType DEF IInv, Message
    <1>3. state' # NoPayload => Marshals(state')
        BY BuildIsPayload DEF IInv, TypeOK, Message
    <1>4. log' \in Seq(Messages) /\ Len(log') <= MaxMessages
        <2>1. log \in Seq(Messages) /\ Len(log) <= MaxMessages /\ MaxMessages \in Nat
            BY MaxMessagesAssumption DEF IInv, TypeOK
        <2>2. CASE log' = Append(log, m) /\ Len(log) < MaxMessages
            BY <2>1, <2>2
        <2>3. CASE log' = log
            BY <2>1, <2>3
        <2> QED
            BY <2>2, <2>3 DEF Message
    <1>5. TypeOK'
        BY <1>2, <1>3, <1>4 DEF IInv, TypeOK, Message
    <1> QED
        BY <1>1, <1>5 DEF IInv

LEMMA IInvStep == IInv /\ [Next]_vars => IInv'
    <1> SUFFICES ASSUME IInv, [Next]_vars PROVE IInv'
        OBVIOUS
    <1>1. CASE UNCHANGED vars
        BY <1>1 DEF vars, IInv, TypeOK, SensorsOK, Kept
    <1>2. CASE \E m \in MappingFiles \cup {None} : Edit(m)
        BY <1>2 DEF Edit, IInv, TypeOK, SensorsOK, Kept
    <1>3. CASE Start
        BY <1>3, StartStep
    <1>4. CASE Announce
        BY <1>4, AnnounceStep
    <1>5. CASE Announced
        BY <1>5 DEF Announced, IInv, TypeOK, SensorsOK, Kept
    <1>6. CASE End
        BY <1>6 DEF End, IInv, TypeOK, SensorsOK, Kept
    <1>7. ASSUME NEW m \in Messages, Message(m) PROVE IInv'
        BY <1>7, MessageStep
    <1> QED
        BY <1>1, <1>2, <1>3, <1>4, <1>5, <1>6, <1>7 DEF Next

LEMMA IInvHolds == Spec => []IInv
    BY IInvInit, IInvStep, PTL DEF Spec

\* Every variable stays in its set; the retained state is always one JSON has a
\* form for.
THEOREM EntitiesTypeCorrect == Spec => []TypeOK
    <1>1. IInv => TypeOK
        BY DEF IInv
    <1> QED
        BY <1>1, IInvHolds, PTL

\* Whatever is written into the mapping file, and whatever earlier processes and
\* mappings have left at the broker, a serving process has each of its sensors
\* announced under an object id that no other has.
THEOREM AnnouncedCorrect == Spec => []EveryEntityAnnounced
    <1>1. IInv => EveryEntityAnnounced
        BY DEF IInv, SensorsOK, Distinct, Kept, EveryEntityAnnounced
    <1> QED
        BY <1>1, IInvHolds, PTL

-----------------------------------------------------------------------------
(* What the records add up to. *)

\* F has the fields of the records, each with its newest value.
Collects(F, records) ==
    /\ \A i \in DOMAIN records : DOMAIN records[i] \subseteq DOMAIN F
    /\ \A k \in DOMAIN F : \E i \in DOMAIN records :
          /\ k \in DOMAIN records[i] /\ F[k] = records[i][k]
          /\ \A j \in DOMAIN records : k \in DOMAIN records[j] => j <= i

\* A process has merged the records it published; the retained state is built
\* from some fields, from those of the last process that published.
History ==
    /\ phase # "down" => Collects(fields, log)
    /\ state # NoPayload => state = Build(state.fields)
    /\ log # <<>> => state # NoPayload /\ Collects(state.fields, log)

LEMMA CollectsNothing == Collects(NoFields, <<>>)
    BY DEF Collects, NoFields

LEMMA CollectsMessage ==
    ASSUME NEW m, Collects(fields, log), log \in Seq(Messages), m \in Messages
    PROVE  Collects(Merged(m), Append(log, m))
    <1> DEFINE l == Append(log, m)
    <1>1. /\ Len(log) \in Nat /\ DOMAIN log = 1 .. Len(log) /\ DOMAIN l = 1 .. Len(log) + 1
          /\ \A i \in DOMAIN log : l[i] = log[i] /\ i \in DOMAIN l
          /\ l[Len(log) + 1] = m
        OBVIOUS
    <1> HIDE DEF l
    <1>2. \A i \in DOMAIN l : i \in DOMAIN log \/ i = Len(log) + 1
        BY <1>1
    <1>3. /\ DOMAIN Merged(m) = DOMAIN fields \cup DOMAIN m
          /\ \A k \in DOMAIN m : Merged(m)[k] = m[k]
          /\ \A k \in DOMAIN fields : k \notin DOMAIN m => Merged(m)[k] = fields[k]
        BY DEF Merged
    <1>4. \A i \in DOMAIN l : DOMAIN l[i] \subseteq DOMAIN Merged(m)
        BY <1>1, <1>2, <1>3 DEF Collects
    <1>5. ASSUME NEW k \in DOMAIN Merged(m)
          PROVE  \E i \in DOMAIN l :
                     /\ k \in DOMAIN l[i] /\ Merged(m)[k] = l[i][k]
                     /\ \A j \in DOMAIN l : k \in DOMAIN l[j] => j <= i
        <2>1. CASE k \in DOMAIN m
            <3>1. Len(log) + 1 \in DOMAIN l /\ \A j \in DOMAIN l : j <= Len(log) + 1
                BY <1>1
            <3> QED
                BY <1>1, <1>3, <2>1, <3>1
        <2>2. CASE k \notin DOMAIN m
            <3>1. k \in DOMAIN fields
                BY <1>3, <1>5, <2>2
            <3>2. PICK i \in DOMAIN log :
                      /\ k \in DOMAIN log[i] /\ fields[k] = log[i][k]
                      /\ \A j \in DOMAIN log : k \in DOMAIN log[j] => j <= i
                BY <3>1 DEF Collects
            <3>3. \A j \in DOMAIN l : k \in DOMAIN l[j] => j <= i
                BY <1>1, <1>2, <2>2, <3>2
            <3> QED
                BY <1>1, <1>3, <2>2, <3>1, <3>2, <3>3
        <2> QED
            BY <2>1, <2>2
    <1>6. Collects(Merged(m), l)
        BY <1>4, <1>5 DEF Collects
    <1> QED
        BY <1>6 DEF l

LEMMA HistoryStep == History /\ IInv /\ [Next]_vars => History'
    <1> SUFFICES ASSUME History, IInv, [Next]_vars PROVE History'
        OBVIOUS
    <1>1. CASE UNCHANGED vars \/ (\E m \in MappingFiles \cup {None} : Edit(m)) \/ Announce
               \/ Announced \/ End
        BY <1>1 DEF vars, Edit, Announce, Announced, End, History
    <1>2. CASE Start
        BY <1>2, CollectsNothing DEF Start, History
    <1>3. ASSUME NEW m \in Messages, Message(m) PROVE History'
        <2>1. Collects(Merged(m), Append(log, m)) /\ fields' = Merged(m)
            BY <1>3, CollectsMessage DEF Message, History, IInv, TypeOK
        <2>2. CASE state' = Build(fields') /\ log' = Append(log, m)
            <3>1. state'.fields = fields' /\ state' # NoPayload
                BY <2>2, BuildValues, BuildIsPayload
            <3> QED
                BY <2>1, <2>2, <3>1 DEF History
        <2>3. CASE phase' = "down" /\ UNCHANGED <<state, log>>
            BY <2>3 DEF History
        <2> QED
            BY <1>3, <2>2, <2>3 DEF Message
    <1> QED
        BY <1>1, <1>2, <1>3 DEF Next

\* The index of the newest value is the one Newest chooses.
LEMMA NewestCollected ==
    ASSUME NEW F, Collects(F, log), log \in Seq(Messages), NEW k
    PROVE  /\ k \in DOMAIN F => Newest(k) = F[k] /\ Newest(k) \in Value
           /\ k \notin DOMAIN F => Newest(k) = None
    <1> DEFINE with == {i \in DOMAIN log : k \in DOMAIN log[i]}
               last == CHOOSE i \in with : \A j \in with : j <= i
    <1>1. CASE k \in DOMAIN F
        <2>1. PICK i \in DOMAIN log :
                  /\ k \in DOMAIN log[i] /\ F[k] = log[i][k]
                  /\ \A j \in DOMAIN log : k \in DOMAIN log[j] => j <= i
            BY <1>1 DEF Collects
        <2>2. i \in with /\ (\A j \in with : j <= i) /\ with \subseteq Nat
            BY <2>1
        <2>3. last \in with /\ \A j \in with : j <= last
            BY <2>2
        <2>4. last = i
            BY <2>2, <2>3
        <2>5. Newest(k) = log[last][k]
            BY <2>2 DEF Newest
        <2>6. log[i] \in Messages /\ log[i][k] \in Range(log[i])
            BY <2>1 DEF Range
        <2> QED
            BY <1>1, <2>1, <2>4, <2>5, <2>6, MessagesAssumption
    <1>2. CASE k \notin DOMAIN F
        <2>1. with = {}
            BY <1>2 DEF Collects
        <2> QED
            BY <1>2, <2>1 DEF Newest
    <1> QED
        BY <1>1, <1>2

LEMMA PartsCollected ==
    ASSUME NEW F, Collects(F, log), log \in Seq(Messages), NEW p \in DOMAIN Total
    PROVE  Parts(Total[p]) = matchingNumberedKeys(F, p)
    <1>1. {q \in DOMAIN Total : Total[q] = Total[p]} = {p}
        BY DEF Total
    <1>2. \A n \in Numbered(p) : Newest(n) # None <=> n \in DOMAIN F
        BY NewestCollected, NoneAssumption
    <1>3. {n \in Numbered(p) : Newest(n) # None} = matchingNumberedKeys(F, p)
        BY <1>2 DEF matchingNumberedKeys
    <1>4. Parts(Total[p]) = {n \in Numbered(p) : Newest(n) # None}
        BY <1>1, Zenon DEF Parts
    <1> QED
        BY <1>3, <1>4

LEMMA NoParts == ASSUME NEW k, \A p \in DOMAIN Total : Total[p] # k PROVE Parts(k) = {}
    BY DEF Parts

\* Every entity shows the newest value of its own field.
LEMMA ShownCollected ==
    ASSUME History, IInv, log # <<>>, NEW o \in ObjectIDs, config[o] # None
    PROVE  LET k == config[o].field
           IN  IF Parts(k) # {}
               THEN Shown(o) = SumOf([n \in Parts(k) |-> Newest(n)], Parts(k))
               ELSE IF NewestIsNumber(k) THEN Shown(o) = Newest(k)
               ELSE Shown(o) \in {None, Newest(k)}
    <1> DEFINE F == state.fields
               V == state.values
               k == config[o].field
    <1>1. /\ state # NoPayload /\ state = Build(F) /\ Collects(F, log) /\ log \in Seq(Messages)
        BY DEF History, IInv, TypeOK
    <1>2. Shown(o) = IF k \in DOMAIN V THEN V[k]
                     ELSE IF config[o].diagnostic /\ DOMAIN V # {} /\ k \in DOMAIN F THEN F[k]
                     ELSE None
        BY <1>1 DEF Shown, valueTemplate
    <1> DEFINE derived == {Total[p] : p \in {q \in DOMAIN Total : matchingNumberedKeys(F, q) # {}}}
    <1>3. /\ DOMAIN V = {n \in DOMAIN F : Parses(F[n])} \cup derived
          /\ \A p \in DOMAIN Total : matchingNumberedKeys(F, p) # {} =>
                 V[Total[p]] = SumOf(F, matchingNumberedKeys(F, p))
          /\ \A n \in DOMAIN F : Parses(F[n]) /\ n \notin derived => V[n] = F[n]
        <2>1. V = Build(F).values
            BY <1>1
        <2> QED
            BY <2>1, BuildValues
    <1>4. Parts(k) # {} <=> k \in derived
        BY <1>1, PartsCollected, NoParts
    <1>5. /\ k \in DOMAIN F => Newest(k) = F[k] /\ Newest(k) \in Value
          /\ k \notin DOMAIN F => Newest(k) = None
        BY <1>1, NewestCollected
    <1>6. \A n \in DOMAIN F : Newest(n) = F[n]
        BY <1>1, NewestCollected
    <1> HIDE DEF F, V, k, derived
    <1>7. CASE k \in derived
        <2>1. PICK p \in DOMAIN Total : k = Total[p] /\ matchingNumberedKeys(F, p) # {}
            BY <1>7 DEF derived
        <2>2. Parts(k) = matchingNumberedKeys(F, p)
            BY <1>1, <2>1, PartsCollected
        <2>3. Shown(o) = SumOf(F, Parts(k))
            BY <1>2, <1>3, <1>7, <2>1, <2>2
        <2> DEFINE G == [n \in Parts(k) |-> Newest(n)]
        <2>4. \A n \in Parts(k) : G[n] = F[n]
            BY <1>6, <2>2 DEF matchingNumberedKeys
        <2> HIDE DEF G
        <2>5. SumOf(F, Parts(k)) = SumOf(G, Parts(k))
            BY <2>4, SumAlike
        <2> QED
            BY <1>4, <1>7, <2>3, <2>5 DEF G, k
    <1>8. CASE k \notin derived
        <2>1. CASE NewestIsNumber(k)
            <3>1. k \in DOMAIN F /\ Parses(F[k])
                BY <1>5, <2>1 DEF NewestIsNumber, Parses
            <3> QED
                BY <1>2, <1>3, <1>4, <1>5, <1>8, <2>1, <3>1 DEF k
        <2>2. CASE ~NewestIsNumber(k)
            <3>1. k \notin DOMAIN V
                BY <1>3, <1>5, <1>8, <2>2, NoneAssumption DEF NewestIsNumber, Parses
            <3> QED
                BY <1>2, <1>4, <1>5, <1>8, <2>2, <3>1 DEF k
        <2> QED
            BY <2>1, <2>2
    <1> QED
        BY <1>7, <1>8

\* A total and the parts it is the sum of are built from the same fields.
LEMMA TotalsBuilt ==
    ASSUME History, state # NoPayload, NEW o \in ObjectIDs, NEW p \in DOMAIN Total,
           config[o] # None, config[o].field = Total[p],
           matchingNumberedKeys(state.fields, p) # {}
    PROVE  Shown(o) =
               SumOf(state.values, matchingNumberedKeys(state.fields, p) \cap DOMAIN state.values)
    <1> DEFINE F == state.fields
               V == state.values
               keys == matchingNumberedKeys(F, p)
               derived == {Total[q] : q \in {r \in DOMAIN Total : matchingNumberedKeys(F, r) # {}}}
    <1>1. /\ DOMAIN V = {n \in DOMAIN F : Parses(F[n])} \cup derived
          /\ V[Total[p]] = SumOf(F, keys)
          /\ \A n \in DOMAIN F : Parses(F[n]) /\ n \notin derived => V[n] = F[n]
        <2>1. V = Build(F).values
            BY DEF History
        <2> QED
            BY <2>1, BuildValues
    <1>2. Total[p] \in DOMAIN V
        BY <1>1
    <1>3. Shown(o) = V[Total[p]]
        BY <1>2 DEF Shown, valueTemplate
    <1>4. \A n \in keys : n \in DOMAIN F /\ n \notin derived
        BY NumberedAssumption DEF matchingNumberedKeys
    <1> HIDE DEF F, V, keys, derived
    <1>5. \A n \in keys : Parses(F[n]) => n \in DOMAIN V /\ V[n] = F[n]
        BY <1>1, <1>4
    <1>6. \A n \in keys : n \in DOMAIN V => Parses(F[n])
        BY <1>1, <1>4
    <1>7. SumOf(F, keys) = SumOf(V, keys \cap DOMAIN V)
        <2>1. {n \in keys : Parses(F[n])} = {n \in keys \cap DOMAIN V : Parses(V[n])}
            BY <1>5, <1>6
        <2> QED
            BY <1>5, <2>1, SumAlike
    <1> QED
        BY <1>1, <1>3, <1>7 DEF F, V, keys

LEMMA HistoryHolds == Spec => []History
    <1>1. Init => History
        BY CollectsNothing DEF Init, History
    <1> QED
        BY <1>1, HistoryStep, IInvInit, IInvStep, PTL DEF Spec

\* Once a process has published, every entity at Home Assistant shows the newest
\* value the process published of its field, or the sum of the newest values of
\* its parts (Processor.fields outlives the record, Build starts anew from it).
THEOREM ShownCorrect == Spec => []ShownIsNewest
    <1>1. History /\ IInv => ShownIsNewest
        BY ShownCollected DEF ShownIsNewest
    <1> QED
        BY <1>1, HistoryHolds, IInvHolds, PTL

\* A total that the broker retains is the sum of the parts retained with it,
\* whatever total the record brought (addNumberedTotal).
THEOREM TotalsCorrect == Spec => []TotalsAgree
    <1>1. History => TotalsAgree
        BY TotalsBuilt DEF TotalsAgree
    <1> QED
        BY <1>1, HistoryHolds, PTL
=============================================================================
