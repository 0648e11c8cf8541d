SPECIFICATION CrashSpec
CONSTANTS
  a = a
  Zones = {a}
  Ids = {1}
  Pullers = {"agent"}
  MaxVersion = 1
  None = None
PROPERTY Converges
