\* One tab, two jobs of one call: a consent declined on the page and approved all the same.
SPECIFICATION CsSpec
CONSTANTS
  Tabs = {tab}
  Jobs = {j1, j2}
  Tools = 1  MaxStreams = 1
  NoConsent = NoConsent
PROPERTY DeclinedDoesNotRun
CHECK_DEADLOCK FALSE
