\* A key whose quota is none, two or three characters, two HTTP requests beside
\* the Wyoming server, texts of one or two characters.
SPECIFICATION Spec
CONSTANTS
  k1 = k1
  c1 = c1
  c2 = c2
  wyoming = wyoming
  None = None
  Keys = {k1}
  Conns <- HttpAndWyoming
  Resident = wyoming
  ResidentKey = k1
  Limits = {0, 2, 3}
  MaxLimit = 3
  Texts = {1, 2}
  MaxChars = 2
  MaxUnmetered = 2
INVARIANTS
  SpeaksWithinQuota
  DailyOvershoot
  IInv
