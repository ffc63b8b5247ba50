SPECIFICATION Spec
CONSTANTS
  Controller = 0
  Controllers <- MCControllers
  Handles = {1, 2, 3}
  Uarts = {"115200", "9600"}
  DefaultUart = "115200"
  Faults = {"device", "record", "busy", "reopen", "reinstall"}
  All = All
  End = End
  None = None
INVARIANTS TypeOK RecordsKept NoTwins 
PROPERTIES ImplementsTree
