SPECIFICATION FixedSpec
CONSTANTS FixedFormats <- Formats8 FixedValues <- Values8
CHECK_DEADLOCK FALSE
INVARIANT FixedNumberInRange
