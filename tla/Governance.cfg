SPECIFICATION MCSpec
CONSTANTS
  Versions = {v1}
  Categories = {risk, app}
  Users = {ana}
  Nobody = Nobody
  Unreadable = Unreadable
  MaxVersions = 2
  Payloads <- SomePayloads
  Reloads <- SomeReloads
  LayerUpdates <- SomeUpdates
  InitialLayers <- StartLayers
INVARIANTS EvidenceBacksStatus InvalidatedNeverOperates LiveFollowsPaper AuditTellsWhatOperates
  ActiveIsInForce
PROPERTIES CriticalChangesAreApplied
