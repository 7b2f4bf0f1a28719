SPECIFICATION Spec
CONSTANTS
  AddressLengths = {0, 6}
  IpLists <- MCIpLists
  MaxCards = 3
  ComputerNames = {1, 15}
  UserNames = {4, 17, 60}
  NickNames = {17, 18}
  Passwords = {154, 155, 440}
  StoredPasswords = {154, 440}
  MaxPlus = 2
  FormText = 60
INVARIANTS TypeOK MacsApart FieldsInPlace OrdinaryNeverEnds
CHECK_DEADLOCK FALSE
