SPECIFICATION Spec
CONSTANTS
  arm64tar = arm64tar  armtar = armtar  armexe = armexe  winzip = winzip  deb = deb  checksums = checksums
  c1 = c1  c2 = c2  h1 = h1  h2 = h2  v1 = v1  main = main
  Name = {arm64tar, armtar, armexe, winzip, deb, checksums}
  Archive = {arm64tar, armtar, winzip}  Executable = {armexe}
  HostAsset = {arm64tar, armtar, armexe}
  Sums = {checksums}
  Patterns <- MCPatterns
  Content = {c1, c2}
  Binary = "tool"  File = {"tool", "other", "LICENSE", "checksums.txt"}
  Page <- MCPage  Manifest <- MCManifest  Tree <- MCTree
  Missing = Missing  NoSum = NoSum
  MaxUploads = 1
  Tool <- MCTool
  Commit = {h1, h2}  Tag = {v1}  Branch = {main}
  Current = Current  Changed = Changed  None = None
  Proxied <- MCProxied  Stray <- MCStray  Segment <- MCSegment
  MaxPushes = 2
INVARIANTS TypeOK InstalledIsAsListed MismatchIsTrue BuiltFromVersion CloneIsRemoved ReturnedFileIsThere
CHECK_DEADLOCK FALSE
