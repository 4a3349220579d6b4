CONSTANTS
    dongle = dongle
    cloud = cloud
    other = other
    soc = soc
    pbat = pbat
    None = None
    SourceIP = dongle
    CloudIP = cloud
    CloudPort = 7777
    Fields = {soc, pbat}
    SeqMod = 32
    Flows <- OneFlow
    Reporting <- OneFlow
    ISN <- OneFlowISN
    Wires <- TwoConnectionCuts
    Connections <- TwoConnections
    Records <- TwoConnectionRecords
SPECIFICATION PipelineSpec
INVARIANTS
    ReconnectIsPublished
CHECK_DEADLOCK FALSE
