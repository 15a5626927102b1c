SPECIFICATION Spec
CONSTANTS
  None = None
  DatagramKey = DatagramKey
  first = first
  upgrade = upgrade
  other = other
  later = later
  x = x
  y = y
  a = a
  b = b
  c = c
  Policies <- MCPolicies
  Identities <- MCIdentities
  Apps <- MCApps
  Revision <- MCRevision
  Entries <- MCEntries
  MaxFaults = 0
  HostMayReboot = FALSE
INVARIANT
  ReplayRecovers
