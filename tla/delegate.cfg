SPECIFICATION FairSpec
CONSTANTS
  c1 = c1
  c2 = c2
  Clients <- MCClients
  QueueLimit = 2
  BatchLimit = 2
  PipeCapacity = 3
  MaxId = 100
INVARIANTS
  TypeOK
  NoLostWakeup
  IdsConsistent
  AnswerIsOwn
PROPERTIES
  ImplementsCallQueue
  QueuedTasksAreTaken
