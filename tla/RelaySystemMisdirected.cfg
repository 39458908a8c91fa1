\* Two clients, one channel id, two channels that may have it. Every session may end, so the system may stop.
SPECIFICATION SystemSpec
CONSTANTS
  PeersLimit = 2
  ChannelsLimit = 1
  PeerChannelsLimit = 2
  Name = {ann, bob}
  BlankName = blank
  LongName = long
  ChannelName = {chat, game}
  Callbacks = {}
  NameRewrites = {}
  Session = {s1, s2}
  Asks <- Sending
  Flags <- Closing
  MaxPending = 1
  MaxRequests = 6
SYMMETRY Symmetry
VIEW System
CHECK_DEADLOCK FALSE
INVARIANTS
  SendsReachTheirChannel
