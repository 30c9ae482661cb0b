\* Two reports of the sensor, IMUOFF and IMUON at any moment, telemetry
\* that stops, repeats or flickers.
SPECIFICATION FairSpec
CONSTANTS
  MaxReports = 2
  Grace = 1
  MaxAge = 1
  ImuDebounce = 2
INVARIANTS FrameSound OffForgets
PROPERTIES ValidBacked OffShown
CHECK_DEADLOCK FALSE
