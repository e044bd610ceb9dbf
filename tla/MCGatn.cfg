SPECIFICATION Spec
CONSTANTS
  c1 = c1
  c2 = c2
  vh = vh
  dh = dh
  Conns <- MCConns
  Vhosts <- MCVhosts
  Default = dh
  Nobody = Nobody
  Gone = Gone
  Docs <- MCDocs
  UrlOf <- MCUrlOf
  RootExclude <- MCRootExclude
  CacheExclude <- MCCacheExclude
  RootFolders <- MCRootFolders
  CacheFolders <- MCCacheFolders
  Scenes <- MCScenes
  MaxGen = 5
  Classes <- MCClasses
  ClassSeq <- MCClassSeq
  Events <- MCEvents
  Opts <- MCOpts
CHECK_DEADLOCK FALSE
INVARIANT HandlersLive
INVARIANT FaultExplained
INVARIANT HandlesOwned
INVARIANT RestoredAfterReload
PROPERTY DocumentStable
PROPERTY OpenIsFresh
PROPERTY FoldersRespected
