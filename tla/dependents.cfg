CONSTANTS
  password = password
  url = url
  none = none
  Keys = {password, url}
  Blocked = {password}
  Default = url
  TemplateSets = {{}, {url}, {password}}
  None = none
  MaxEvents = 2
SPECIFICATION FairSpec
INVARIANTS DependentsTypeOK
PROPERTIES OnlyOwnerWrites CredentialsKept DependentsConverge DeletionReleases UserReleaseCompletes
