SPECIFICATION Spec
CONSTANTS
  good = good
  tool = tool
  stub = stub
  broken = broken
  other = other
  url1 = url1
  url2 = url2
  Contents = {good, tool, stub, broken, other}
  Urls = {url1, url2}
  NoContent = NoContent
  NoUrl = NoUrl
  Kind <- KindOf
  FirstServed <- Served
  Offers <- Listed
  LocalFiles <- Local
  MaxBatch = 3
  MaxPublishes = 1
  MaxAborts = 1
INVARIANTS
  TypeOK
  NothingStranded
  ProvenanceAgrees
  DownloadsSettle
PROPERTIES
  ImplementsLifecycle
