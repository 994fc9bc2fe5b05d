CONSTANTS
  Ref <- MCRef
  Hash <- MCHash
  Dir = {"heads", "odd"}
  NotUtf8 = {"x", "odd"}
  LockOf <- MCLockOf
  DirOf <- MCDirOf
  LooseFiles <- MCLooseFiles
  PackedFiles <- MCPacked
  RefsDirs = {"dir", "absent", "broken", "partly"}
  Ops = {"list_refs", "list_refs_checked", "head"}
  MaxWrites = 2
SPECIFICATION FairSpec
INVARIANTS TypeOK OncePerName RefKept NoPhantom RootsComplete BootstrapLoud
PROPERTY Ends
