SPECIFICATION Spec
CONSTANTS
  ByteBits = 3
  MaxBytes = 7
  AnyBytes = 4
  Sample <- SampleBytes
  MaxFields = 2
  MaxNamespace = 4
  MaxReason = 2
  Slash = 1
  Letter = 2
  MsgSetup = 9
  MsgSubscribe = 3
  MaxText = 6
  MaxName = 66
  Names = {"", ".catalog", "a", "b"}
  InitNames = {"i", "j"}
  MaxTracks = 3
INVARIANT DecodesByTheTable EncodesMinimally TypesNeverWrap SetupReadsBack EOFMeansCutOff AnswersStayPut
INVARIANT SubscribeArrives SetupArrives SentUnlessTooLong PlaysWhatThereIs InitFitsMedia
CHECK_DEADLOCK FALSE
