\* A launch file passes one argument of several words.
CONSTANTS
  Tokens = {"rt", "rq", "rr", "/", "robot", "Request", "Reply",
            "::", "dds_::", "_", "_Request_", "_Response_"}
  MaxLength = 5
  Words = {"word", "other"}
  MaxWords = 4
  MaxSerializedSize = 8
  Durations = {"second", "infinite"}
  MaxArguments = 4
SPECIFICATION Spec
INVARIANT LaunchTokenSplit
CHECK_DEADLOCK FALSE
