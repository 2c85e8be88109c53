SPECIFICATION Spec
CONSTANTS
  u1 = u1  us = us
  a1 = a1  a2 = a2  s1 = s1
  t1 = t1  t2 = t2  adm = adm
  Uids = {u1, us}
  Clients = {a1, s1}
  UidOf <- Single
  SupporterClients = {s1}
  Channels = {"support", "lobby"}
  WaitingChannels = {"support", "lobby"}
  DefaultChannel = "lobby"
  AfkChannels = {}
  Offline = "offline"
  NoOne = "nobody"
  Requests = {}
  Admins = {adm}
  QueueWithoutSupporter = FALSE
  Grace = 0
  MaxCases = 2
  MaxLag = 0
  MaxFaults = 0
INVARIANT OldCasesEnd
