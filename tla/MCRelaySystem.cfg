\* Three sessions share two peer ids and one channel, with six requests in all. Every session may end, so the system may stop.
SPECIFICATION SystemSpec
CONSTANTS
  PeersLimit = 2
  ChannelsLimit = 1
  PeerChannelsLimit = 1
  Name = {ann, bob, cat}
  BlankName = blank
  LongName = long
  ChannelName = {chat}
  Callbacks = {}
  NameRewrites = {}
  Session = {s1, s2, s3}
  Asks <- Everything
  Flags <- Closing
  MaxPending = 1
  MaxRequests = 6
SYMMETRY Symmetry
VIEW System
CHECK_DEADLOCK FALSE
INVARIANTS
  ClientsConverge
  SendersKnown
