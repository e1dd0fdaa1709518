SPECIFICATION Spec
CONSTANTS
  Strings <- MCStrings
  Commands <- StoreCommands
  Dispatchers <- MCDispatchers
  BaseName <- MCBaseName
  SecretFile <- MCSecretFile
CHECK_DEADLOCK FALSE
INVARIANTS
  StoresDelivered
