SPECIFICATION WorkspaceSpec
CONSTANTS
  Persona = {ceo, board}
  Device = {d1}
  NoScope = NoScope
  MaxMessages = 2
  MaxVersion = 2
  MaxOpened = 2
  MaxSwitches = 2
  MaxSaves = 1
CHECK_DEADLOCK FALSE
PROPERTY ViewPreserved
