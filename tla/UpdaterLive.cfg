CONSTANTS
  upd = upd
  ver = ver
  eco = eco
  key = key
  asset = asset
  db = db
  log = log
  stray = stray
  OsFiles = {upd, ver, eco, key, asset, stray}
  UserFiles = {db, log}
  Names = {"tmp", "assets", "fonts", "voice"}
  DirOf <- TreeDirOf
  VersionFile = ver
  EcoFile = eco
  KeyFile = key
  VerifySeq <- MCVerifySeq
  ArchiveSeq <- TreeArchiveSeq
  EntryAt <- TreeEntryAt
  BackupSeq <- TreeBackupSeq
  DbFiles = {db}
  Versions = {1, 2}
  Missing = Missing
  Torn = Torn
  None = None
  Packages <- TreePackages
  OsImages <- TreeImages
  Backups <- TreeBackups
  MaxBoots = 1
  MaxMissed = 1
SPECIFICATION FairSpec
INVARIANTS NothingSkipped
PROPERTIES BurnOnlyVerified RunEnds
CHECK_DEADLOCK FALSE
