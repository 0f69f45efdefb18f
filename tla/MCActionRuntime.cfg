SPECIFICATION MCSpec
CONSTANTS
  NoIntent = noIntent
  NoCommand = noCommand
  Intents <- MCIntents
  DirectIntents <- MCDirectIntents
  Commands <- MCCommands
  Authority <- MCAuthority
  ListedPlans = {"starter", "growth", "unknown_effect"}
  UnknownPlans = {"unknown_effect"}
  AllowedActors = {"presenter", "workflow"}
  MaxLedger = 3
  MaxTimeouts = 1
  MaxEvidence = 2
  MaxSubmissions = 4
  Reconcilers = {x1}
INVARIANTS BooksBalance LayersAgree
PROPERTIES NoBlindRetry OperationsAreReleased
CHECK_DEADLOCK FALSE
