CONSTANTS
    Text = Text
    NonFinite = NonFinite
    MaxFloat = 9
    None = None
    MaxMessages = 2
    Names <- FieldNames
    Numbered <- NumberedNames
    ObjectIDs <- IDs
    objectID <- IDOf
    BaseSensors <- SomeBaseSensors
    MappingFiles <- SomeMappings
    Messages <- SomeMessages
SPECIFICATION Spec
INVARIANTS
    TypeOK
    ShownIsNewest
    TotalsAgree
    EveryEntityAnnounced
