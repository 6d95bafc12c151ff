SPECIFICATION Spec
CONSTANTS
  t1 = t1  t2 = t2  a1 = a1  a2 = a2  r1 = r1  r2 = r2
  Topics = {t1}
  LocalMsgs = {a1}
  RemoteMsgs = {r1}
  TopicOf <- MCTopicOf
  Clients = {k1}
  CmdCap = 1
  OutCap = 1
  MaxHistory = 2
  MaxSessions = 2
  NoTopic = NoTopic
  NoMsg = NoMsg
CHECK_DEADLOCK FALSE
INVARIANTS TypeOK HubFollowsLoop AnnouncesOnlyItsRoom CloseAnnounced TextStaysInRoom PushedOnce
PROPERTY ImplementsLifecycle
