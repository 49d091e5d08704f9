SPECIFICATION Spec
CONSTANTS
  None = None
  c1 = c1
  c2 = c2
  Conns = {c1, c2}
  Requests <- McRequests
  Programs = {"A", "B"}
  Assets = {"asset"}
  Policies <- Issued
  Addresses <- McAddresses
  Zone <- McZone
INVARIANTS
  OneAuthority
  NoOvershoot
  ChargedOncePerConnection
  DestinationStaysValid
  CredentialStaysBound
