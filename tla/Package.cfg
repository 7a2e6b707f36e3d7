SPECIFICATION Spec
CONSTANTS
  a = a
  b = b
  Listing <- MCListing
  Policies <- MCPolicies
  Scopes <- MCScopes
  MsgChat <- MCMsgChat
  MsgTopic <- MCMsgTopic
  PageSize = 2
  MaxLate = 2
INVARIANTS
  
  RightGroup
  
CHECK_DEADLOCK FALSE
