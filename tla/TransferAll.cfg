SPECIFICATION Spec
CONSTANTS
  a = a
  Zones = {a}
  Ids = {1,2}
  Pullers = {"agent","api"}
  MaxVersion = 1
  None = None
PROPERTIES KeepsServing 
