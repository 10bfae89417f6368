SPECIFICATION Spec
CONSTANTS
  MAX_USERNAME_LEN = 1
  MAX_HOSTNAME_LEN = 2
  MAX_PATH_LEN = 3
  MAX_PORT = 65535
  DEFAULT_PORT = 22
  PresetTexts <- MCPresetTexts
  PresetPorts <- MCPresetPorts
  TypedTexts <- MCTypedTexts
  TypedPorts <- MCTypedPorts
INVARIANTS
  TypeOK
  OkButtonTracksValidity
PROPERTIES
  ImplementsConnectionForm
