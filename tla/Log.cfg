SPECIFICATION FairSpec
CONSTANTS
  Thread = {t1, t2}
  Name = {bridge, libxml}
  Relayed = {libxml}
  LogLevel <- MCLevels
  Info = 1
  Off = 5
  None = None
  Nobody = Nobody
  MaxLines = 2
PROPERTIES ImplementsJournal DsblogEnds
