SPECIFICATION Spec
CONSTANTS
  NoTopic = NoTopic
  Topic = {t1, t2}
  MaxHandlers = 1
  MaxPacketId = 2
  KeepAlive = 1
  PublishQos = {2}
  Redeliver = TRUE
  QueueBound = 2
INVARIANTS OneInside SubscriptionsAgree PublishAccepted AnswerIsOurs
PROPERTIES MessageHasHandler
CHECK_DEADLOCK FALSE
