CONSTANTS
  MaxCrashes = 3
SPECIFICATION FairSpec
INVARIANTS TypeOK SchemaComplete FailsOnlyHalfway
PROPERTIES SecretsKept ComesUp
