SPECIFICATION FairSpec
CONSTANTS
  Procs = {p1}
  Readers = {c1, c2}
  Writers = {u1, u2}
  Redis = Redis
  NoReader = NoReader
  Kinds = {"row", "apiKey"}
  Modes = {"failOpen", "failClosed"}
  FirstVersion = 1
  MaxVersion = 2
  MaxFaults = 1
CHECK_DEADLOCK FALSE
INVARIANTS
  TypeOK
  EntriesReflectInvalidations
  AnswersReflectInvalidations
  OneLoadPerProcess
PROPERTY OldValuesVanish
