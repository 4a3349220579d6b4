CONSTANTS
    eth = eth
    usb = usb
    AutoName = AutoName
    None = None
    Names = {eth, usb}
    RestartSec = 1
    StartLimitBurst = 6
    StartLimitInterval = 40
    DetectTimeout = 8
    DialTimeout = 8
SPECIFICATION Spec
INVARIANTS
    BrokerAloneNeverFails
