SPECIFICATION Spec
CONSTANTS
  s1 = s1
  s2 = s2
  r1 = r1
  p1 = p1
  p2 = p2
  Servers = {s1, s2}
  Messages = {r1, p1, p2}
  Requests = {r1}
  Endless = {p1}
  Limit <- MCLimit
  Groupings <- MCGroupings
  Fits <- MCFits
  Decodes <- MCDecodes
INVARIANTS TypeOK AnswerIsEarned OkMeansSettled
PROPERTIES MessagesSettle
CHECK_DEADLOCK FALSE
