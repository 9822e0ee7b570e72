SPECIFICATION RtcSpec
CONSTANTS
    Base = 2
    Ticks <- MCTicks
    Alarms <- MCAlarms
INVARIANT FineEnough
PROPERTIES OnTime CalledAsAsked
