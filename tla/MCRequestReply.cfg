SPECIFICATION RpcFairSpec
CONSTANTS
  None = None
  Chars = {0, 1, 2}
  Slash = 0
  MaxName = 2
  MAILBOX_BUFFER_LIMIT = 1
  Systems <- MCSystems
  Programs <- MCPrograms
  InitrdFilter <- MCInitrd
  IrqTopic <- MCIrq
  KeyboardTopic <- MCKeyboard
  TerminatedTopic <- MCTerminated
  MaxSubscriptions = 6
  MaxAck = 6
  Server = 1
  Clients = {2, 3}
  ServiceName <- MCServiceName
  ReplyName <- MCReplyName
  Requests = 1
INVARIANTS
  ReplyIsThere
PROPERTIES
  RequestReturns
