SPECIFICATION Spec
CONSTANTS
  l1 = l1
  l2 = l2
  l3 = l3
  w1 = w1
  Kinds = {"security", "access", "preferences", "selector", "event", "landing", "list", "month", "code"}
  Secrets = {s1, s2, s3}
  Grants = {g1, g2, g3}
  MaxAccesses = 2
  Themes = {light, dark}
  Languages = {pt, en}
  Ledgers <- AllLedgers
  Owned <- FirstLedgers
  Texts = {w1, notext}
  NoText = notext
  Matching <- TheMatching
  MaxChanges = 3
  a1 = a1
  a2 = a2
  a3 = a3
  c1 = c1
  c2 = c2
  Accounts <- TheAccounts
  Categories <- TheCategories
  Decimals <- TheDecimals
  CurrencyOf <- TheCurrencies
  Instants = {1, 2, 3}
  Labels <- TheLabels
  LocalTime <- TheLocalTimes
  ParseTime <- TheParsed
  Typed = {0, 12}
  Quantities = {1, 2}
  MaxSafe = 100
  FirstEvents <- TheFirstEvents
  MaxLines = 2
  MaxEdits = 3
  MaxEvents = 2
  Invitations = {i1, i2}
  Names = {n1, n2}
  RecoveryCodes = {r1, r2}
  Passwords = {p1, p2}
  MaxCounter = 1
  MaxRequests = 3
  CardSets = {{"login", "recovery"}, {"registration"}}
  OptionsOf <- TheOptions
  SearchFor = {w1}
  NoSearch = notext
  Finds <- TheFinds
  Spaces = {1, 3}
  MaxHeight = 3
  LastYear = 2
  NotAYear = notayear
  Letters = {"A"}
  Unknown = {"I"}
  Signs = {" "}
  CodeLength = 6
  GroupLength = 2
  MaxPaste = 3
  None = None
INVARIANT TypeOK
INVARIANT BusyIsPending
INVARIANT SecretsStayInView
INVARIANT SettledIsServers
SYMMETRY Interchangeable
