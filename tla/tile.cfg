SPECIFICATION Spec
CONSTANTS
  initial = initial
  fixed = fixed
  empty = empty
  typed127 = typed127
  typed128 = typed128
  sealed = sealed
  sealedTyped = sealedTyped
  domain1 = domain1
  host = host
  wide1 = wide1
  wide2 = wide2
  wide3 = wide3
  Texts <- MCTexts
  Chars <- MCChars
  NullString = NullString
  UShortMax = 65535
  StructSize = 64
  Empty = empty
  Initial = initial
  Fixed = fixed
  Typed <- MCTyped
  Accounts <- MCAccounts
  Wide <- MCWide
  Computer = host
  Domains <- MCDomains
  Protected <- MCProtected
  ClearLimit = 128
  Callbacks = {s1, s2}
  NoCallback = NoCallback
  Nothing = Nothing
  Garbage = Garbage
  MaxCalls = 3
INVARIANTS TypeOK DeselectedIsCleared PackedIsConfigured PackedInside HeapAccounted EventsBalanced
