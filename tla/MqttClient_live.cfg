SPECIFICATION FairSpec
CONSTANTS
  NoTopic = NoTopic
  Topic = {t1}
  MaxHandlers = 1
  MaxPacketId = 1
  KeepAlive = 1
  PublishQos = {1, 2}
  Redeliver = FALSE
  QueueBound = 1
PROPERTIES DeadPeerNoticed NobodyHangs
CHECK_DEADLOCK FALSE
