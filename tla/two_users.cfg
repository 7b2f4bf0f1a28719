SPECIFICATION Spec
CHECK_DEADLOCK FALSE
CONSTANTS
  c1 = c1
  c2 = c2
  u1 = u1
  u2 = u2
  short = short
  plain = plain
  plus = plus
  NoCard = NoCard
  NoUser = NoUser
  NoPw = NoPw
  Cards = {c1, c2}
  Known = {c1, c2}
  Users = {u1, u2}
  Owner <- MCOwner
  Passwords = {plain, plus}
  Long = {plain, plus}
  Plus = {plus}
  GatewayPw <- MCGatewayPlus
  UBOutcomes = {"crash"}
  Replies = {"none", "full"}
  ReadyLen = 1
  MaxSwipes = 2
  MaxRestarts = 0
  Inputs = {"clickLogin", "clickBack", "enterEdit"}
PROPERTIES
  ProceedsWithSession
  StoredAsPosted
