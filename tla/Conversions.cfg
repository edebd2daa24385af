\* Names of up to five tokens, messages of up to four words, every QoS.
CONSTANTS
  Tokens = {"rt", "rq", "rr", "/", "robot", "Request", "Reply",
            "::", "dds_::", "_", "_Request_", "_Response_"}
  MaxLength = 5
  Words = {"word", "other"}
  MaxWords = 4
  MaxSerializedSize = 8
  Durations = {"second", "infinite"}
  MaxArguments = 4
SPECIFICATION Spec
INVARIANTS OneKind ServicesRestored OnlyServices
           TypesRestored ServiceTypesAgree ServiceTypesCut NameKept
           MessagesFit MessagesRestored
           SameProfile
           ArgumentsKept
PROPERTY ProfileTells
CHECK_DEADLOCK FALSE
