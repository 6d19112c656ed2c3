CONSTANTS
  r1 = r1
  r2 = r2
  r3 = r3
  a1 = a1
  a2 = a2
  weak = weak
  strong = strong
  None = None
  Requests <- ThreeRequests
  Accounts <- MCAccounts
  Provisioned <- MCProvisioned
  Passwords <- MCPasswords
  StrongPasswords <- MCStrong
  FirstPassword <- weak
SYMMETRY Symmetry
SPECIFICATION Spec
INVARIANTS UsedTokenChangedPassword KeyUnderPassword LostOnlyToOverlap
PROPERTIES PasswordNeverReverts LedgerSpec
CHECK_DEADLOCK FALSE
