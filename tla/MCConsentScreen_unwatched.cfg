\* One tab, two jobs of one call: the stream that took a card ends, and no agent is told.
SPECIFICATION CsSpec
CONSTANTS
  Tabs = {tab}
  Jobs = {j1, j2}
  Tools = 1  MaxStreams = 1
  NoConsent = NoConsent
INVARIANT UnwatchedCancelled
CHECK_DEADLOCK FALSE
