SPECIFICATION Spec
CHECK_DEADLOCK FALSE
CONSTANTS
  c1 = c1
  c2 = c2
  u1 = u1
  u2 = u2
  short = short
  plain = plain
  plus = plus
  NoCard = NoCard
  NoUser = NoUser
  NoPw = NoPw
  Cards = {c1}
  Known = {c1}
  Users = {u1}
  Owner <- MCOneOwner
  Passwords = {plain}
  Long = {plain}
  Plus = {}
  GatewayPw <- MCGatewayPlain
  UBOutcomes = {"crash"}
  Replies = {"full", "cut"}
  ReadyLen = 1
  MaxSwipes = 1
  MaxRestarts = 0
  Inputs = {"clickLogin"}
PROPERTY
  OkMeansLoggedIn
