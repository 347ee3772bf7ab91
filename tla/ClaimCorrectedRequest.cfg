SPECIFICATION Spec
CONSTANTS
  plain = plain
  secret = secret
  other = other
  ClientRequests <- SomeClients
  Methods = {"GET", "POST", "PUT"}
  Names <- TheNames
  SecretHeaders = {"token"}
  SecretParams = {"token"}
  Values <- TheValues
  Urls <- TheUrls
  StartUrl = "start"
  HostOf <- TheHosts
  Corrections <- SomeCorrections
  MaxRedirects = 3
INVARIANT CorrectedRequestIsSent
