CONSTANTS
  NEEDAUTH = TRUE
  Users = {"alice", "bob"}
  Passwords = {"right", "wrong"}
  AppPasswd <- MCAppPasswd
  NoRow = NoRow
  IPs = {"p"}
  PortTexts = {1080, 66616}
  Replies <- MCReplies
  Malformed = Malformed
  Nothing = Nothing
SPECIFICATION FairSpec
CHECK_DEADLOCK FALSE
INVARIANT TypeOK
 
INVARIANT ProtocolOrder
INVARIANT RefusalIsPassedOn
 
