SPECIFICATION Spec
CONSTANTS
  Texts <- MCTexts
  OtherKeys = {"other"}
  atoi <- MCatoi
  Default <- MCDefault
  DefaultText <- MCDefaultText
  CommandLines <- MCCommandLines
  UserFiles <- MCUserFiles
  Lines = {"bad"}
  BadLines = {"bad"}
  NoFile = NoFile
  HasHome = TRUE
  FileNames <- MCFileNames
  LocalTime <- MCLocalTime
  MaxClock = 2
  MaxEvents = 2
INVARIANTS SessionTypeOK SettingsInForce LogTellsAll
PROPERTIES ConfigFilesKept OldFilesKept
