SPECIFICATION FairSpec
PROPERTIES
  NoticesVanishedPeer
