SPECIFICATION Spec
CONSTANTS
  FileThreads = {t1, t2}
  FilePaths = {a1, a2}
  FileNumbers = {n1, n2}
  Readers = 2
  FileVersions = 2
  EntrySize = 5
  WindowSize = 2
  WriteSize = 3
  ListedNames = {n1, n2}
  ShortNames = {n1}
  PathDepth = 3
  ListedItems = 2
  Drag = {d1, x}
  HostTries = 2
  HookDepth = 4
  HotKey = {k1, k2}
  Panels = {p1, p2}
  Names = {n1, n2}
  Pidls = {"short", "desktop"}
  SelectionStates = 1
  SelectionAttempts = 2
  SelectionCalls = 2
  Apps = {a1, a2}
  AppPids = {p1}
  AgentThreads = {}
  AgentTries = 1
  AgentLives = 1
  AgentEdits = 0
  AgentBorn = 2
  AdapterApps = {a1}
  AdapterThreads = {t1}
  AdapterEdits = 1
  Nothing = Nothing
  t1 = t1
  t2 = t2
  a1 = a1
  a2 = a2
  n1 = n1
  n2 = n2
  p1 = p1
  p2 = p2
  s1 = s1
  s2 = s2
  g1 = g1
  g2 = g2
  f1 = f1
  f2 = f2
  b1 = b1
  b2 = b2
  d1 = d1
  x = x
  e1 = e1
  e2 = e2
  c1 = c1
  o1 = o1
  r1 = r1
  r2 = r2
  r3 = r3
  r4 = r4
  r5 = r5
  k1 = k1
  k2 = k2
  cmd1 = cmd1
  cmd2 = cmd2
INVARIANTS ArchivesRead ArchivesGiven BatchAccounted DropsDone StorageSound RequestsArrive PolicyObeyed Delivered
 
CHECK_DEADLOCK FALSE
