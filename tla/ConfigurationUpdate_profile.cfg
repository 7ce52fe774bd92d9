SPECIFICATION Spec
CONSTANTS
  u1 = u1
  u2 = u2
  None = None
  FrenchCodes <- French
  Submissions <- ClientProfiles
  Callers <- Requests2
SYMMETRY Symmetry
INVARIANT ConfigurationIsReadable
