SPECIFICATION Spec
CONSTANTS
  h1 = h1
  h2 = h2
  Host = {h1, h2}
  MaxBackups = 2
  Grace = 1
  OrphanGrace = 1
  Tiers <- MCTiers
  MaxFaults = 2
SYMMETRY Symmetry
INVARIANTS RecordsTrue AdvertisedComplete RetiredForNewer
PROPERTY ActiveUploadKept
CHECK_DEADLOCK FALSE
