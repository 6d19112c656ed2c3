CONSTANTS
  c1 = c1
  m1 = m1
  m2 = m2
  o1 = o1
  l1 = l1
  l2 = l2
  Conversations <- MCConversations
  Incoming <- MCIncoming
  Outgoing <- MCOutgoing
  ConversationOf <- MCConversationOf
  Loads <- MCLoads
  PageSize = 2
  BluetoothOutcomes <- AllOutcomes
SPECIFICATION FairSpec
INVARIANTS NoDuplicateIds MissingOnlyOffThePage NoFalseReceipt
PROPERTY Delivered
CHECK_DEADLOCK FALSE
