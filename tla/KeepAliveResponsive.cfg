\* Four peers: two that fall silent cost a third one its pings.
SPECIFICATION Spec
CONSTANT PeersLimit = 4
PROPERTY
  ResponsiveKept
