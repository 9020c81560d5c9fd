CONSTANTS
  Fd = {1, 2}
  Local = {a}
  Remote = {r}
  Wildcard = Wildcard
  MaxPacket = 2
  MaxSent = 1
  MaxConnection = 2
  Case = {c, d}
  Host <- MCHost
  Length <- MCLength
  Ip = {ip}
  MaxArguments = 2
  MaxEntry = 2
SPECIFICATION MCSpec
INVARIANTS TypesOK PacketsArrive NamesResolve
PROPERTIES ReaderFed
CHECK_DEADLOCK FALSE
