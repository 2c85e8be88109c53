SPECIFICATION FairSpec
CONSTANTS
  u1 = u1  us = us
  a1 = a1  a2 = a2  s1 = s1
  t1 = t1  t2 = t2  adm = adm
  Uids = {u1, us}
  Clients = {a1, a2, s1}
  UidOf <- TwoOnly
  SupporterClients = {s1}
  Channels = {"support", "lobby"}
  WaitingChannels = {"support"}
  DefaultChannel = "lobby"
  AfkChannels = {}
  Offline = "offline"
  NoOne = "nobody"
  Requests = {}
  Admins = {}
  QueueWithoutSupporter = TRUE
  Grace = 1
  MaxCases = 2
  MaxLag = 1
  MaxFaults = 1
INVARIANT AtMostOneOpenCase
PROPERTIES GraceKept OutageEndsNobody GoneIsClosed WaitingIsQueued
