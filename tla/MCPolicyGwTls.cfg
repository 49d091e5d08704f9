SPECIFICATION Spec
CONSTANTS
  h1 = h1
  h2 = h2
  site = site
  good = good
  other = other
  bad = bad
  None = None
  Handlers <- MCHandlers
  Assets <- MCAssets
  Asset <- MCAsset
  Cap <- MCCap
  Zone <- MCZone
  Allowed <- MCAllowed
  AuthorizedIps <- MCAllowed
INVARIANTS
  OvershootBounded
  OneAddressPerConnection
  RegistryMatchesSockets
PROPERTY
  SweptStreamsEnd
