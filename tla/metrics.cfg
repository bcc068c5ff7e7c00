SPECIFICATION FairSpec
CONSTANTS
  Requests = {r1, r2, r3}
  Series = {s1, s2}
  None = None
CHECK_DEADLOCK FALSE
INVARIANTS
  CountsAgree
  ScrapeIsASnapshot
PROPERTIES
  OnlyStalledScrapesBlock
