\* A mapped signal, one without a modem and two spare modems; two edits, or one
\* request of two updates; one sync.
SPECIFICATION FairSpec
CONSTANTS
  a = a
  b = b
  c = c
  m1 = m1
  m2 = m2
  m3 = m3
  Names <- AllNames
  Modems <- AllModems
  Transmitting <- FirstModem
  Group <- OneGroup
  Start <- OneMapped
  MaxEntries = 3
  MaxEdits = 2
  MaxBatch = 2
INVARIANT TypeOK
INVARIANT AssignedToOneSignal
INVARIANT ShownByOneSignal
INVARIANT FreshChoicesKept
PROPERTY MappingSettles
\* The bound on edits stops every behaviour.
CHECK_DEADLOCK FALSE
