\* Two requests, six kinds of answers, two kills.
CONSTANTS
  Requests = {r1, r2}
  Tokens = {t1, t2}
  NoToken = NoToken
  NoUsage = NoUsage
  Answers <- MCAnswers
  Spent <- MCSpent
  SaveFails = TRUE
  MaxKills = 2
SYMMETRY Symmetry
SPECIFICATION Spec
INVARIANTS ProxyInv RecordedOnce AnswersAreCounted ChargedRight BooksAgree
PROPERTIES RevocationSettles
\* all requests are done, the tokens revoked and lim was killed
CHECK_DEADLOCK FALSE
