SPECIFICATION Spec
CONSTANTS
  Strings <- MCStrings
  Commands <- MCCommands
  Dispatchers <- MCDispatchers
  BaseName <- MCBaseName
  SecretFile <- MCSecretFile
CHECK_DEADLOCK FALSE
INVARIANTS
  TypeOK
  SecretsDelivered
  SecretsNeedMesos
  ConfWins
  SecurityComplete
PROPERTIES
  ListsGrow
