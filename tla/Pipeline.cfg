CONSTANTS
    dongle = dongle
    cloud = cloud
    other = other
    soc = soc
    pbat = pbat
    None = None
    SourceIP = dongle
    CloudIP = cloud
    CloudPort = 7777
    Fields = {soc, pbat}
    SeqMod = 8
    Flows <- FourFlows
    Reporting <- ToCloud
    ISN <- WrappingISN
    Wires <- Cuts
    Connections <- OneConnection
    Records <- SomeRecords
SPECIFICATION PipelineSpec
INVARIANTS
    TypeOK
    InOrder
    SeqAgrees
    NoByteLost
    NoStall
    CapturedIsPublished
    FramesAreWhole
PROPERTIES
    ImplementsByteStream
    ImplementsRecordStream
    WholeIsPublished
CHECK_DEADLOCK FALSE
