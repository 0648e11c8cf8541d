SPECIFICATION TidySpec
CONSTANTS
  a = a
  b = b
  Zones = {a,b}
  Ids = {1,2}
  Pullers = {"agent"}
  MaxVersion = 1
  None = None
INVARIANTS HonestSerial 
 
