CONSTANTS
  MaxPieces = 2
  MaxLines = 1
  Lines <- MCLines
  Values <- MCValues
  Dirs <- MCDirs
  Installed <- MCInstalled
  Self = "/"
  Home = "/app"
  Unset = Unset
  Inherit = Inherit
  MaxCommands = 2
  MaxBoots = 2
SPECIFICATION Spec
INVARIANTS
  ProgramKept
  ArgumentsKept
  StreamsKept
  EnvironmentKept
PROPERTIES
  HelperFound
