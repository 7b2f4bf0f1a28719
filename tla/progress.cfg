SPECIFICATION FairSpec
CHECK_DEADLOCK FALSE
CONSTANTS
  c1 = c1
  c2 = c2
  u1 = u1
  u2 = u2
  short = short
  plain = plain
  plus = plus
  NoCard = NoCard
  NoUser = NoUser
  NoPw = NoPw
  Cards = {c1, c2}
  Known = {c1}
  Users = {u1}
  Owner <- MCOneOwner
  Passwords = {short, plain}
  Long = {plain}
  Plus = {}
  GatewayPw <- MCGatewayPlain
  UBOutcomes = {"crash"}
  Replies = {"none", "full", "stuck"}
  ReadyLen = 1
  MaxSwipes = 1
  MaxRestarts = 0
  Inputs = {"clickLogin", "clickBack", "enterEdit", "close"}
PROPERTIES
  WakeupSeen
  AttemptComesToRest
