SPECIFICATION KernelSpec
CONSTANTS
  None = None
  Chars = {0, 1, 2}
  Slash = 0
  MaxName = 2
  MAILBOX_BUFFER_LIMIT = 1
  Systems <- PipeSystem
  Programs <- MCPrograms
  InitrdFilter <- MCInitrd
  IrqTopic <- MCIrq
  KeyboardTopic <- MCKeyboard
  TerminatedTopic <- MCTerminated
  MaxSubscriptions = 4
  MaxAck = 3
INVARIANTS
  PipePrivate
CHECK_DEADLOCK FALSE
