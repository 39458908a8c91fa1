\* Three peers with three names, two channels, every callback installed.
SPECIFICATION Spec
CONSTANTS
  PeersLimit = 3
  ChannelsLimit = 2
  PeerChannelsLimit = 2
  Name = {ann, bob, cat}
  BlankName = blank
  LongName = long
  ChannelName = {chat, game}
  Callbacks <- AllCallbacks
  NameRewrites = {}
SYMMETRY Symmetry
VIEW Registry
INVARIANTS
  TypeOK
  MembershipSymmetric
  MembersDistinct
  MasterPresent
  NamesIndexChannels
  NamesUnique
PROPERTIES
  NoticesExact
  Discreet
  Succession
  ImplementsChannelService
