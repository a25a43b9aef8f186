CONSTANTS
  upd = upd
  ver = ver
  eco = eco
  key = key
  asset = asset
  db = db
  log = log
  stray = stray
  OsFiles = {upd, ver, eco, key}
  UserFiles = {db}
  Names = {"tmp", "assets", "fonts", "voice"}
  DirOf <- FlatDirOf
  VersionFile = ver
  EcoFile = eco
  KeyFile = key
  VerifySeq <- MCVerifySeq
  ArchiveSeq <- MCArchiveSeq
  EntryAt <- FlatEntryAt
  BackupSeq <- MCBackupSeq
  DbFiles = {db}
  Versions = {1, 2}
  Missing = Missing
  Torn = Torn
  None = None
  Packages <- MCPackages
  OsImages <- MCImages
  Backups <- MCBackups
  MaxBoots = 2
  MaxMissed = 1
SPECIFICATION Spec
INVARIANTS IInv StagedFromThisArchive TruthfulStatus
PROPERTIES NoTornBootFile NoDowngrade BackupBeforeReplace
CHECK_DEADLOCK FALSE
