\* Two posts of an account, one verification; logins, an operator, a crash.
CONSTANTS
  Post = {p1, p2}
  Verify = {v1}
  MaxTokens = 2
  MaxExpiries = 2
  MaxDisables = 1
  MaxCrashes = 1
CHECK_DEADLOCK FALSE
SPECIFICATION FairSpec
INVARIANTS
  StatusAsDecided
  TokenUsable
  PublishedOnce
PROPERTIES
  PostsEnd
