SPECIFICATION FairSpec
CONSTANTS
  openid = openid
  read = read
  write = write
  Scopes = {openid, read, write}
  Always = {openid}
  Lists <- TwoLists
  Day = 1
  MaxReleases = 1
  MaxFaults = 1
  None = None
INVARIANTS
  TypeOK
  ClientNeverAdds
  RefusalKeptADay
PROPERTIES
  WideningLands
