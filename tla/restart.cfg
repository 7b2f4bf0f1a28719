SPECIFICATION Spec
CHECK_DEADLOCK FALSE
CONSTANTS
  c1 = c1
  c2 = c2
  u1 = u1
  u2 = u2
  short = short
  plain = plain
  plus = plus
  NoCard = NoCard
  NoUser = NoUser
  NoPw = NoPw
  Cards = {c1}
  Known = {c1}
  Users = {u1}
  Owner <- MCOneOwner
  Passwords = {plain}
  Long = {plain}
  Plus = {}
  GatewayPw <- MCGatewayPlain
  UBOutcomes = {"crash"}
  Replies = {"full", "stuck"}
  ReadyLen = 1
  MaxSwipes = 2
  MaxRestarts = 1
  Inputs = {"clickLogin", "close"}
INVARIANTS
  OneRecordPerSwipe
  OneRowPerMachine
  OfflineAfterInit
PROPERTIES
  ImplementsAttendance
