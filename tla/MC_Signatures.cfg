CONSTANTS
  k1 = k1
  k2 = k2
  k3 = k3
  Keys <- MC_Keys
  Authorities <- MC_Authorities
  MaxSigs = 3

SPECIFICATION Spec

INVARIANTS
  SignedIffAuthorized
