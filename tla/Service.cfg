CONSTANTS
    eth = eth
    usb = usb
    AutoName = AutoName
    None = None
    Names = {eth, usb}
    RestartSec = 1
    StartLimitBurst = 4
    StartLimitInterval = 27
    DetectTimeout = 8
    DialTimeout = 2
SPECIFICATION Spec
INVARIANTS
    TypeOK
    QuietAloneNeverFails
    CapturesAlive
PROPERTIES
    EndsUpCapturing
