CONSTANTS
  Entities = {e1}
  Threads = {t1, t2, t3}
  None = None
  MailLimit = 2
SPECIFICATION Spec
INVARIANTS RunnersAreRight CountKeepsEntity
PROPERTIES ImplementsMailbox MailIsTaken DestroyEnds
CHECK_DEADLOCK FALSE
