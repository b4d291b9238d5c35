CONSTANTS
  Inheriting = {inheriting1, inheriting2}
  Sharing = {sharing1, sharing2}
  Client = {client1, client2}
  BufSize = 2
  MaxBlocks = 3
  Capacity = 2
  EchoServer = {server1, server2}
  EchoClient = {echoClient1, echoClient2}
  NONE = NONE
  NumChildren = 3
  Limit = 2
  MaxCalls = 2
  Peer = 9
  HostIf <- MCHostIf
  ContainerIf <- MCContainerIf
  MAXSIZE = 5
  Element = {1, 2, 3}
  Person = {zhang, li, wang}
  Salary = {1, 2}
  TableMax = 3
  MaxUses = 4
SPECIFICATION Spec
INVARIANTS MntnsIsRestored
CHECK_DEADLOCK FALSE
