SPECIFICATION Spec
CONSTANTS
    Bits = 6
    Byte = 3
    Lag <- Lags
    Delay <- Delays
INVARIANTS
    SentIsDecoded
