---------------------------- MODULE ArchiveProofs ----------------------------
(***************************************************************************)
(* Proofs about archives in MCComponents: their handles, streams and       *)
(* listings.                                                               *)
(***************************************************************************)
EXTENDS MCComponents, FiniteSetTheorems, SequenceTheorems, TLAPS

-----------------------------------------------------------------------------
(***************************************************************************)
(* Handles.                                                                *)
(***************************************************************************)
FileVersion == 1..FileVersions
FileArchive == [path : FilePaths, stamp : FileVersion, content : FileVersion]
FileKind == {"free", "event", "file", "search", "bin search"}
FileThread ==
  [at : {"idle", "looking", "opening", "opened", "resolved", "putting", "noting", "closing", "erased"},
   path : FilePaths \cup {Nothing}, stamp : 0..FileVersions, content : 0..FileVersions,
   number : FileNumbers \cup {Nothing}]

FilesTyped ==
  /\ filesDisk \in [FilePaths -> FileVersion]
  /\ archives \in Seq(FileArchive) /\ Len(archives) <= Readers
  /\ table \in [FileNumbers -> FileArchive \cup {Nothing}] /\ bins \in SUBSET FileNumbers
  /\ kernel \in [FileNumbers -> FileKind]
  /\ held \in [FileNumbers -> [kind : FileKind, entry : FileArchive \cup {Nothing}]]
  /\ thread \in [FileThreads -> FileThread]

\* A thread that looks for an archive, or has it, knows a stamp that the file has had,
\* and what it has found or opened is not older.
LookingSound(r, disk) ==
  /\ r.at \in {"looking", "opening", "opened", "resolved", "putting"} =>
       r.path \in FilePaths /\ r.stamp \in FileVersion /\ r.stamp <= disk[r.path]
  /\ r.at \in {"opened", "resolved", "putting"} => r.content \in FileVersion /\ r.stamp <= r.content

CacheSound(cached) ==
  /\ \A i \in 1..Len(cached) : cached[i].stamp <= cached[i].content
  /\ \A i, j \in 1..Len(cached) :
       cached[i].path = cached[j].path /\ cached[i].stamp = cached[j].stamp => i = j

\* A number that nobody was given is looked up as nothing, unless a thread is about to
\* erase it; and while threads make or close handles, each has a number to itself.
Blank(n) == held[n] = Files!NotHeld /\ table[n] = Nothing /\ n \notin bins
NumberSound(n) ==
  /\ kernel[n] = "free" => Blank(n)
  /\ held[n] # Files!NotHeld =>
       /\ table[n] = held[n].entry /\ kernel[n] = held[n].kind
       /\ n \in bins <=> held[n].kind = "bin search"
  /\ table[n] # Nothing => table[n].stamp <= table[n].content

Handling == {"putting", "noting", "closing", "erased"}
Claimed(at, n) ==
  /\ n \in FileNumbers /\ kernel[n] # "free" /\ held[n] = Files!NotHeld
  /\ at # "closing" => Blank(n)
  /\ at = "putting" => kernel[n] = "event"
  /\ at = "noting" => kernel[n] = "bin search"
ClaimSound(t) == thread[t].at \in Handling => Claimed(thread[t].at, thread[t].number)
OwnersApart(all) ==
  \A t, u \in FileThreads :
    all[t].at \in Handling /\ all[u].at \in Handling /\ all[t].number = all[u].number => t = u

FilesInv ==
  /\ FilesTyped /\ CacheSound(archives) /\ OwnersApart(thread)
  /\ \A t \in FileThreads : LookingSound(thread[t], filesDisk)
  /\ \A t \in FileThreads : ClaimSound(t)
  /\ \A n \in FileNumbers : NumberSound(n)

LEMMA FileConstants == Readers \in Nat \ {0} /\ FileVersions \in Nat \ {0} /\ 1 \in FileVersion
BY Instances DEF Files!CapacityAssumption, FileVersion

LEMMA FilesStart == Files!Init => FilesInv
<1> SUFFICES ASSUME Files!Init PROVE FilesInv
  OBVIOUS
<1>1. FilesTyped
  <2>1. Files!NotHeld \in [kind : FileKind, entry : FileArchive \cup {Nothing}]
    BY DEF Files!NotHeld, FileKind
  <2>2. Files!Idle \in FileThread
    BY FileConstants DEF Files!Idle, FileThread
  <2>3. archives = <<>> /\ archives \in Seq(FileArchive) /\ Len(archives) <= Readers
    BY FileConstants DEF Files!Init
  <2>4. QED
    BY <2>1, <2>2, <2>3, FileConstants DEF Files!Init, FilesTyped, FileKind
<1>2. CacheSound(archives)
  BY DEF Files!Init, CacheSound
<1>3. \A t \in FileThreads : thread[t].at = "idle"
  BY DEF Files!Init, Files!Idle
<1>4. \A n \in FileNumbers : NumberSound(n)
  BY DEF Files!Init, NumberSound, Blank
<1>5. QED
  BY <1>1, <1>2, <1>3, <1>4 DEF FilesInv, OwnersApart, LookingSound, ClaimSound, Handling

\* One thread's record is replaced: it keeps its number, or takes one that no thread has.
LEMMA FileTurn ==
  ASSUME FilesInv, NEW t \in FileThreads, NEW r \in FileThread, thread' = [thread EXCEPT ![t] = r],
         r.at \in Handling =>
           \/ thread[t].at \in Handling /\ r.number = thread[t].number
           \/ \A u \in FileThreads : ~(thread[u].at \in Handling /\ thread[u].number = r.number)
  PROVE  /\ thread' \in [FileThreads -> FileThread] /\ thread'[t] = r
         /\ \A u \in FileThreads \ {t} : thread'[u] = thread[u]
         /\ OwnersApart(thread')
<1>1. /\ thread' \in [FileThreads -> FileThread] /\ thread'[t] = r
      /\ \A u \in FileThreads \ {t} : thread'[u] = thread[u]
  BY DEF FilesInv, FilesTyped
<1>2. OwnersApart(thread')
  BY <1>1 DEF FilesInv, OwnersApart
<1>3. QED
  BY <1>1, <1>2

\* A thread looks, opens, inserts, or gives up.
LEMMA LookingStep ==
  ASSUME FilesInv, NEW t \in FileThreads, NEW r \in FileThread, thread' = [thread EXCEPT ![t] = r],
         LookingSound(r, filesDisk), r.at \notin Handling, UNCHANGED <<filesDisk, table, bins, kernel, held>>,
         archives' \in Seq(FileArchive), Len(archives') <= Readers, CacheSound(archives')
  PROVE  FilesInv'
<1>1. /\ thread' \in [FileThreads -> FileThread] /\ thread'[t] = r /\ OwnersApart(thread')
      /\ \A u \in FileThreads \ {t} : thread'[u] = thread[u]
  BY FileTurn
<1>2. FilesTyped'
  BY <1>1 DEF FilesInv, FilesTyped
<1>3. \A u \in FileThreads : LookingSound(thread'[u], filesDisk')
  BY <1>1 DEF FilesInv
<1>4. \A u \in FileThreads : ClaimSound(u)'
  BY <1>1 DEF FilesInv, ClaimSound, Claimed, Blank
<1>5. \A n \in FileNumbers : NumberSound(n)'
  BY DEF FilesInv, NumberSound, Blank
<1>6. QED
  BY <1>1, <1>2, <1>3, <1>4, <1>5 DEF FilesInv

\* A thread begins to make or close the handle n, and what the thread sees of the archive
\* is as before.
LEMMA ClaimStep ==
  ASSUME FilesInv, NEW t \in FileThreads, NEW r \in FileThread, thread' = [thread EXCEPT ![t] = r],
         LookingSound(r, filesDisk), NEW at \in Handling, at = r.at,
         NEW n \in FileNumbers, n = r.number,
         thread[t].at \notin Handling, UNCHANGED <<filesDisk, archives, table, bins>>,
         \A u \in FileThreads : ~(thread[u].at \in Handling /\ thread[u].number = n),
         kernel' \in [FileNumbers -> FileKind],
         held' \in [FileNumbers -> [kind : FileKind, entry : FileArchive \cup {Nothing}]],
         \A m \in FileNumbers \ {n} : kernel'[m] = kernel[m] /\ held'[m] = held[m],
         Claimed(at, n)'
  PROVE  FilesInv'
<1>1. /\ thread' \in [FileThreads -> FileThread] /\ thread'[t] = r /\ OwnersApart(thread')
      /\ \A u \in FileThreads \ {t} : thread'[u] = thread[u]
  BY FileTurn
<1>2. FilesTyped'
  BY <1>1 DEF FilesInv, FilesTyped
<1>3. \A u \in FileThreads : LookingSound(thread'[u], filesDisk')
  BY <1>1 DEF FilesInv
<1>4. ASSUME NEW u \in FileThreads PROVE ClaimSound(u)'
  <2>1. CASE u = t
    BY <1>1, <2>1 DEF ClaimSound, Claimed, Blank
  <2>2. CASE u # t /\ thread[u].at \in Handling
    <3>1. PICK pc : pc = thread[u].at
      OBVIOUS
    <3>2. PICK m \in FileNumbers \ {n} : m = thread[u].number /\ Claimed(pc, m)
      BY <2>2, <3>1 DEF FilesInv, ClaimSound, Claimed
    <3>3. Claimed(pc, m)'
      BY <3>2 DEF Claimed, Blank
    <3>4. QED
      BY <1>1, <2>2, <3>1, <3>2, <3>3 DEF ClaimSound
  <2>3. CASE u # t /\ thread[u].at \notin Handling
    BY <1>1, <2>3 DEF ClaimSound
  <2>4. QED
    BY <2>1, <2>2, <2>3
<1>5. ASSUME NEW m \in FileNumbers PROVE NumberSound(m)'
  <2>1. CASE m = n
    BY <2>1 DEF FilesInv, NumberSound, Claimed, Blank
  <2>2. CASE m # n
    BY <2>2 DEF FilesInv, NumberSound, Blank
  <2>3. QED
    BY <2>1, <2>2
<1>6. QED
  BY <1>1, <1>2, <1>3, <1>4, <1>5 DEF FilesInv

\* A thread that has a number to itself changes what is kept of it.
LEMMA HandlingStep ==
  ASSUME FilesInv, NEW t \in FileThreads, NEW r \in FileThread, thread' = [thread EXCEPT ![t] = r],
         LookingSound(r, filesDisk), thread[t].at \in Handling, NEW m, m = thread[t].number,
         NEW at, at = r.at, at \in Handling => r.number = m /\ Claimed(at, m)',
         UNCHANGED <<filesDisk, archives>>, FilesTyped',
         \A n \in FileNumbers \ {m} :
           kernel'[n] = kernel[n] /\ held'[n] = held[n] /\ table'[n] = table[n] /\ (n \in bins' <=> n \in bins),
         NumberSound(m)'
  PROVE  FilesInv'
<1>1. /\ thread'[t] = r /\ OwnersApart(thread')
      /\ \A u \in FileThreads \ {t} : thread'[u] = thread[u]
  BY FileTurn
<1>2. CacheSound(archives')
  BY DEF FilesInv
<1>3. \A u \in FileThreads : LookingSound(thread'[u], filesDisk')
  BY <1>1 DEF FilesInv
<1>4. ASSUME NEW u \in FileThreads PROVE ClaimSound(u)'
  <2>1. CASE u = t
    BY <1>1, <2>1 DEF ClaimSound
  <2>2. CASE u # t /\ thread[u].at \in Handling
    <3>1. PICK pc : pc = thread[u].at
      OBVIOUS
    <3>2. thread[u].number # m
      BY <2>2 DEF FilesInv, OwnersApart
    <3>3. PICK n \in FileNumbers \ {m} : n = thread[u].number /\ Claimed(pc, n)
      BY <2>2, <3>1, <3>2 DEF FilesInv, ClaimSound, Claimed
    <3>4. Claimed(pc, n)'
      BY <3>3 DEF Claimed, Blank
    <3>5. QED
      BY <1>1, <2>2, <3>1, <3>3, <3>4 DEF ClaimSound
  <2>3. CASE u # t /\ thread[u].at \notin Handling
    BY <1>1, <2>3 DEF ClaimSound
  <2>4. QED
    BY <2>1, <2>2, <2>3
<1>5. ASSUME NEW n \in FileNumbers PROVE NumberSound(n)'
  <2>1. CASE n = m
    BY <2>1
  <2>2. CASE n # m
    <3>1. NumberSound(n) /\ kernel'[n] = kernel[n] /\ held'[n] = held[n] /\ table'[n] = table[n]
      BY <2>2 DEF FilesInv
    <3>2. n \in bins' <=> n \in bins
      BY <2>2
    <3>3. QED
      BY <3>1, <3>2, Zenon DEF NumberSound, Blank
  <2>3. QED
    BY <2>1, <2>2
<1>6. QED
  BY <1>1, <1>2, <1>3, <1>4, <1>5 DEF FilesInv

LEMMA IdleIs ==
  /\ Files!Idle \in FileThread /\ Files!Idle.at = "idle" /\ \A disk : LookingSound(Files!Idle, disk)
  /\ Files!Idle.at \notin Handling
BY FileConstants DEF Files!Idle, FileThread, LookingSound, Handling

\* One more archive is in the cache, which has room or loses the oldest.
LEMMA RememberedSound ==
  ASSUME FilesInv, NEW a \in FileArchive, a.stamp <= a.content, Files!Cached(a.path, a.stamp) = {}
  PROVE  /\ Files!Remembered(a) \in Seq(FileArchive) /\ Len(Files!Remembered(a)) <= Readers
         /\ CacheSound(Files!Remembered(a))
<1> DEFINE kept == IF Len(archives) = Readers THEN Tail(archives) ELSE archives
<1>1. /\ kept \in Seq(FileArchive) /\ Len(kept) \in Nat /\ Len(kept) < Readers
      /\ CacheSound(kept) /\ \A i \in 1..Len(kept) : ~(kept[i].path = a.path /\ kept[i].stamp = a.stamp)
  <2>1. archives \in Seq(FileArchive) /\ Len(archives) \in Nat /\ Len(archives) <= Readers
        /\ CacheSound(archives)
    BY DEF FilesInv, FilesTyped
  <2>2. \A i \in 1..Len(archives) : ~(archives[i].path = a.path /\ archives[i].stamp = a.stamp)
    BY <2>1 DEF Files!Cached, Files!ToSet
  <2>3. CASE Len(archives) = Readers
    <3>1. archives # <<>>
      BY <2>1, <2>3, FileConstants
    <3>2. /\ kept \in Seq(FileArchive) /\ Len(kept) = Len(archives) - 1
          /\ \A i \in 1..Len(kept) : kept[i] = archives[i + 1]
      BY <2>1, <2>3, <3>1, HeadTailProperties
    <3>3. \A i \in 1..Len(kept) : i + 1 \in 1..Len(archives)
      BY <2>1, <3>2
    <3>4. CacheSound(kept)
      <4> HIDE DEF kept
      <4>1. \A i \in 1..Len(kept) : kept[i].stamp <= kept[i].content
        BY <2>1, <3>2, <3>3 DEF CacheSound
      <4>2. ASSUME NEW i \in 1..Len(kept), NEW j \in 1..Len(kept),
                   kept[i].path = kept[j].path /\ kept[i].stamp = kept[j].stamp
            PROVE  i = j
        <5>1. kept[i] = archives[i + 1] /\ kept[j] = archives[j + 1]
          BY <3>2
        <5>2. i + 1 = j + 1
          BY <2>1, <3>3, <4>2, <5>1 DEF CacheSound
        <5>3. QED
          BY <5>2
      <4>3. QED
        BY <4>1, <4>2 DEF CacheSound
    <3>5. QED
      BY <2>1, <2>2, <2>3, <3>2, <3>3, <3>4, FileConstants
  <2>4. CASE Len(archives) # Readers
    BY <2>1, <2>2, <2>4, FileConstants
  <2>5. QED
    BY <2>3, <2>4
<1>2. Files!Remembered(a) = Append(kept, a)
  BY DEF Files!Remembered
<1> HIDE DEF kept
<1>3. /\ Append(kept, a) \in Seq(FileArchive) /\ Len(Append(kept, a)) = Len(kept) + 1
      /\ Append(kept, a)[Len(kept) + 1] = a /\ \A i \in 1..Len(kept) : Append(kept, a)[i] = kept[i]
  BY <1>1, AppendProperties
<1>4. CacheSound(Append(kept, a))
  BY <1>1, <1>3 DEF CacheSound
<1>5. QED
  BY <1>1, <1>2, <1>3, <1>4, FileConstants

LEMMA FilesStep == FilesInv /\ Files!Next => FilesInv'
<1> SUFFICES ASSUME FilesInv, Files!Next PROVE FilesInv'
  OBVIOUS
<1>1. ASSUME NEW p \in FilePaths, Files!Replace(p) PROVE FilesInv'
  <2>1. filesDisk' \in [FilePaths -> FileVersion] /\ \A q \in FilePaths : filesDisk[q] <= filesDisk'[q]
    BY <1>1, FileConstants DEF FilesInv, FilesTyped, Files!Replace, FileVersion
  <2>2. \A t \in FileThreads : LookingSound(thread[t], filesDisk')
    BY <2>1 DEF FilesInv, FilesTyped, LookingSound, FileVersion
  <2>3. UNCHANGED <<archives, table, bins, kernel, held, thread>>
    BY <1>1 DEF Files!Replace
  <2>4. QED
    BY <2>1, <2>2, <2>3 DEF FilesInv, FilesTyped, ClaimSound, Claimed, NumberSound, Blank
<1>2. ASSUME NEW t \in FileThreads,
             Files!Lookup(t) \/ Files!OpenArchive(t) \/ Files!Insert(t) \/ Files!Refuse(t)
               \/ \E p \in FilePaths : Files!Create(t, p)
      PROVE  FilesInv'
  <2>1. UNCHANGED <<filesDisk, table, bins, kernel, held>>
    BY <1>2 DEF Files!Lookup, Files!OpenArchive, Files!Insert, Files!Refuse, Files!Create
  <2>2. PICK c \in FileThread : c = thread[t] /\ LookingSound(c, filesDisk)
    BY DEF FilesInv, FilesTyped
  <2>3. archives \in Seq(FileArchive) /\ Len(archives) <= Readers /\ CacheSound(archives)
        /\ Len(archives) \in Nat /\ filesDisk \in [FilePaths -> FileVersion]
    BY DEF FilesInv, FilesTyped
  <2>4. ASSUME NEW a \in Files!Cached(c.path, c.stamp)
        PROVE  a.content \in FileVersion /\ c.stamp <= a.content
    <3>1. PICK i \in 1..Len(archives) : a = archives[i] /\ a.stamp = c.stamp
      BY <2>3, <2>4 DEF Files!Cached, Files!ToSet
    <3>2. a \in FileArchive /\ a.stamp <= a.content
      BY <2>3, <3>1 DEF CacheSound
    <3>3. QED
      BY <3>1, <3>2 DEF FileArchive
  <2>5. CASE Files!Ends(t) /\ UNCHANGED archives
    BY <2>1, <2>3, <2>5, IdleIs, LookingStep DEF Files!Ends
  <2>6. CASE \E p \in FilePaths : Files!Create(t, p)
    <3>1. PICK p \in FilePaths : Files!Create(t, p)
      BY <2>6
    <3>2. PICK r : r = [Files!Idle EXCEPT !.at = "looking", !.path = p, !.stamp = filesDisk[p]]
      OBVIOUS
    <3>3. r \in FileThread /\ r.at = "looking" /\ r.path = p /\ r.stamp = filesDisk[p]
      <4>1. PICK stamp \in 0..FileVersions : stamp = filesDisk[p]
        BY <2>3 DEF FileVersion
      <4>2. r = [Files!Idle EXCEPT !.at = "looking", !.path = p, !.stamp = stamp]
        BY <3>2, <4>1
      <4>3. QED
        BY <4>1, <4>2, IdleIs DEF FileThread
    <3>4. LookingSound(r, filesDisk) /\ r.at \notin Handling
      BY <2>3, <3>3 DEF LookingSound, Handling, FileVersion
    <3>5. thread' = [thread EXCEPT ![t] = r] /\ UNCHANGED archives
      BY <3>1, <3>2 DEF Files!Create
    <3>6. QED
      BY <2>1, <2>3, <3>3, <3>4, <3>5, LookingStep
  <2>7. ASSUME NEW content \in FileVersion, c.stamp <= content, NEW at \in {"opened", "resolved"},
               c.at \in {"looking", "opening", "opened"},
               thread' = [thread EXCEPT ![t] = [c EXCEPT !.at = at, !.content = content]],
               archives' \in Seq(FileArchive), Len(archives') <= Readers, CacheSound(archives')
        PROVE  FilesInv'
    <3>1. PICK r : r = [c EXCEPT !.at = at, !.content = content]
      OBVIOUS
    <3>2. /\ r \in FileThread /\ r.at = at /\ r.content = content
          /\ r.path = c.path /\ r.stamp = c.stamp
      <4>1. content \in 0..FileVersions
        BY FileConstants DEF FileVersion
      <4>2. QED
        BY <3>1, <4>1 DEF FileThread
    <3>3. LookingSound(r, filesDisk) /\ r.at \notin Handling
      BY <2>2, <2>7, <3>2 DEF LookingSound, Handling
    <3>4. QED
      BY <2>1, <2>7, <3>1, <3>2, <3>3, LookingStep
  <2>8. CASE Files!Lookup(t)
    <3>1. CASE thread' = [thread EXCEPT ![t].at = "opening"]
      <4>1. PICK r : r = [c EXCEPT !.at = "opening"]
        OBVIOUS
      <4>2. r \in FileThread /\ r.at = "opening" /\ r.path = c.path /\ r.stamp = c.stamp
        BY <4>1 DEF FileThread
      <4>3. LookingSound(r, filesDisk) /\ r.at \notin Handling
        BY <2>2, <2>8, <4>2 DEF LookingSound, Handling, Files!Lookup, Files!At
      <4>4. thread' = [thread EXCEPT ![t] = r] /\ UNCHANGED archives
        BY <2>2, <2>8, <3>1, <4>1 DEF Files!Lookup
      <4>5. QED
        BY <2>1, <2>3, <4>2, <4>3, <4>4, LookingStep
    <3>2. CASE \E a \in Files!Cached(c.path, c.stamp) :
                 thread' = [thread EXCEPT ![t] = [c EXCEPT !.at = "resolved", !.content = a.content]]
      <4>1. UNCHANGED archives /\ c.at = "looking"
        BY <2>2, <2>8 DEF Files!Lookup, Files!At
      <4>2. QED
        BY <2>3, <2>4, <2>7, <3>2, <4>1
    <3>3. QED
      BY <2>2, <2>8, <3>1, <3>2 DEF Files!Lookup, Files!Goes
  <2>9. CASE Files!OpenArchive(t)
    <3>1. CASE ~Files!Ends(t)
      <4>1. thread' = [thread EXCEPT ![t] = [c EXCEPT !.at = "opened", !.content = filesDisk[c.path]]]
            /\ UNCHANGED archives /\ c.at = "opening"
        BY <2>2, <2>9, <3>1 DEF Files!OpenArchive, Files!At
      <4>2. filesDisk[c.path] \in FileVersion /\ c.stamp <= filesDisk[c.path]
        BY <2>2, <2>3, <4>1 DEF LookingSound
      <4>3. QED
        BY <2>3, <2>7, <4>1, <4>2
    <3>2. QED
      BY <2>5, <2>9, <3>1 DEF Files!OpenArchive
  <2>10. CASE Files!Insert(t)
    <3>1. c.at = "opened" /\ c.content \in FileVersion /\ c.stamp <= c.content /\ c.path \in FilePaths
          /\ c.stamp \in FileVersion
      BY <2>2, <2>10 DEF Files!Insert, Files!At, LookingSound
    <3>2. CASE Files!Cached(c.path, c.stamp) = {}
      <4>1. PICK a : a = [path |-> c.path, stamp |-> c.stamp, content |-> c.content]
        OBVIOUS
      <4>2. a \in FileArchive /\ a.path = c.path /\ a.stamp = c.stamp /\ a.content = c.content
        BY <3>1, <4>1 DEF FileArchive
      <4>3. archives' = Files!Remembered(a) /\ thread' = [thread EXCEPT ![t].at = "resolved"]
        BY <2>2, <2>10, <3>2, <4>1 DEF Files!Insert, Files!Indexed, Files!Goes
      <4>4. [c EXCEPT !.at = "resolved", !.content = c.content] = [c EXCEPT !.at = "resolved"]
        BY DEF FileThread
      <4>5. thread' = [thread EXCEPT ![t] = [c EXCEPT !.at = "resolved", !.content = c.content]]
        BY <2>2, <4>3, <4>4
      <4>6. QED
        BY <2>7, <3>1, <3>2, <4>2, <4>3, <4>5, RememberedSound
    <3>3. CASE Files!Cached(c.path, c.stamp) # {}
      <4>1. UNCHANGED archives /\ \E a \in Files!Cached(c.path, c.stamp) :
                 thread' = [thread EXCEPT ![t] = [c EXCEPT !.at = "resolved", !.content = a.content]]
        BY <2>2, <2>10, <3>3 DEF Files!Insert
      <4>2. QED
        BY <2>3, <2>4, <2>7, <3>1, <4>1
    <3>4. QED
      BY <3>2, <3>3
  <2>11. CASE Files!Refuse(t)
    BY <2>5, <2>11 DEF Files!Refuse
  <2>12. QED
    BY <1>2, <2>6, <2>8, <2>9, <2>10, <2>11
<1>3. ASSUME NEW t \in FileThreads, NEW n \in FileNumbers,
             Files!MakeEvent(t, n) \/ Files!Close(t, n)
               \/ \E kind \in Files!Real : Files!OpenReal(t, n, kind)
      PROVE  FilesInv'
  <2>1. UNCHANGED <<filesDisk, archives, table, bins>>
    BY <1>3 DEF Files!MakeEvent, Files!Close, Files!OpenReal
  <2>2. PICK c \in FileThread : c = thread[t] /\ LookingSound(c, filesDisk)
    BY DEF FilesInv, FilesTyped
  <2>3. \A u \in FileThreads : ~(thread[u].at \in Handling /\ thread[u].number = n)
    <3>1. CASE kernel[n] = "free"
      BY <3>1 DEF FilesInv, ClaimSound, Claimed
    <3>2. CASE held[n] # Files!NotHeld
      BY <3>2 DEF FilesInv, ClaimSound, Claimed
    <3>3. QED
      BY <1>3, <3>1, <3>2 DEF Files!MakeEvent, Files!Close, Files!OpenReal
  <2>4. NumberSound(n) /\ kernel \in [FileNumbers -> FileKind]
        /\ held \in [FileNumbers -> [kind : FileKind, entry : FileArchive \cup {Nothing}]]
    BY DEF FilesInv, FilesTyped
  <2>5. ASSUME NEW at \in Handling, c.at \in {"idle", "resolved"}, at = "putting" => c.at = "resolved",
               thread' = [thread EXCEPT ![t] = [c EXCEPT !.at = at, !.number = n]],
               kernel' \in [FileNumbers -> FileKind],
               held' \in [FileNumbers -> [kind : FileKind, entry : FileArchive \cup {Nothing}]],
               \A m \in FileNumbers \ {n} : kernel'[m] = kernel[m] /\ held'[m] = held[m],
               Claimed(at, n)'
        PROVE  FilesInv'
    <3>1. PICK r : r = [c EXCEPT !.at = at, !.number = n]
      OBVIOUS
    <3>2. r \in FileThread /\ r.at = at /\ r.number = n /\ r.path = c.path /\ r.stamp = c.stamp
          /\ r.content = c.content
      BY <3>1 DEF FileThread, Handling
    <3>3. LookingSound(r, filesDisk)
      BY <2>2, <2>5, <3>2 DEF LookingSound, Handling
    <3>4. thread[t].at \notin Handling
      BY <2>2, <2>5 DEF Handling
    <3>5. QED
      BY <2>1, <2>3, <2>5, <3>1, <3>2, <3>3, <3>4, ClaimStep
  <2>6. CASE Files!MakeEvent(t, n)
    <3>1. kernel[n] = "free" /\ Blank(n) /\ kernel' = [kernel EXCEPT ![n] = "event"] /\ UNCHANGED held
          /\ c.at = "resolved"
      BY <2>2, <2>4, <2>6 DEF Files!MakeEvent, NumberSound, Files!At
    <3>2. thread' = [thread EXCEPT ![t] = [c EXCEPT !.at = "putting", !.number = n]]
      BY <2>2, <2>6 DEF Files!MakeEvent
    <3>3. kernel' \in [FileNumbers -> FileKind] /\ kernel'[n] = "event"
          /\ \A m \in FileNumbers \ {n} : kernel'[m] = kernel[m]
      BY <2>4, <3>1 DEF FileKind
    <3>4. Claimed("putting", n)'
      BY <2>1, <3>1, <3>3 DEF Claimed, Blank
    <3>5. QED
      BY <2>4, <2>5, <3>1, <3>2, <3>3, <3>4 DEF Handling
  <2>7. CASE Files!Close(t, n)
    <3>1. held[n] # Files!NotHeld /\ held' = [held EXCEPT ![n] = Files!NotHeld] /\ UNCHANGED kernel
          /\ c.at = "idle"
      BY <2>2, <2>7 DEF Files!Close, Files!At
    <3>2. thread' = [thread EXCEPT ![t] = [c EXCEPT !.at = "closing", !.number = n]]
      BY <2>2, <2>7 DEF Files!Close
    <3>3. Files!NotHeld \in [kind : FileKind, entry : FileArchive \cup {Nothing}]
      BY DEF Files!NotHeld, FileKind
    <3>4. /\ held' \in [FileNumbers -> [kind : FileKind, entry : FileArchive \cup {Nothing}]]
          /\ held'[n] = Files!NotHeld /\ \A m \in FileNumbers \ {n} : held'[m] = held[m]
      BY <2>4, <3>1, <3>3
    <3>5. kernel[n] # "free"
      BY <2>4, <3>1 DEF NumberSound, Blank
    <3>6. Claimed("closing", n)'
      BY <2>1, <3>1, <3>4, <3>5 DEF Claimed
    <3>7. QED
      BY <2>4, <2>5, <3>1, <3>2, <3>4, <3>6 DEF Handling
  <2>8. ASSUME NEW kind \in Files!Real, Files!OpenReal(t, n, kind) PROVE FilesInv'
    <3>1. kernel[n] = "free" /\ Blank(n) /\ kernel' = [kernel EXCEPT ![n] = kind] /\ c.at = "idle"
      BY <2>2, <2>4, <2>8 DEF Files!OpenReal, NumberSound, Files!At
    <3>2. kind \in FileKind /\ kind \notin {"free", "event"}
      BY <2>8 DEF Files!Real, FileKind
    <3>3. kernel' \in [FileNumbers -> FileKind] /\ kernel'[n] = kind
          /\ \A m \in FileNumbers \ {n} : kernel'[m] = kernel[m]
      BY <2>4, <3>1, <3>2
    <3>4. CASE kind = "bin search"
      <4>1. thread' = [thread EXCEPT ![t] = [c EXCEPT !.at = "noting", !.number = n]] /\ UNCHANGED held
        BY <2>2, <2>8, <3>4 DEF Files!OpenReal
      <4>2. Claimed("noting", n)'
        BY <2>1, <3>1, <3>3, <3>4, <4>1 DEF Claimed, Blank
      <4>3. QED
        BY <2>4, <2>5, <3>1, <3>3, <4>1, <4>2 DEF Handling
    <3>5. CASE kind # "bin search"
      <4>1. PICK k : k = [Files!NotHeld EXCEPT !.kind = kind]
        OBVIOUS
      <4>2. /\ k \in [kind : FileKind, entry : FileArchive \cup {Nothing}]
            /\ k.kind = kind /\ k.entry = Nothing
        BY <3>2, <4>1 DEF Files!NotHeld
      <4>3. held' = [held EXCEPT ![n] = k] /\ UNCHANGED thread
        BY <2>8, <3>1, <3>5, <4>1 DEF Files!OpenReal, Blank
      <4>4. /\ held' \in [FileNumbers -> [kind : FileKind, entry : FileArchive \cup {Nothing}]]
            /\ held'[n] = k /\ \A m \in FileNumbers \ {n} : held'[m] = held[m]
        BY <2>4, <4>2, <4>3
      <4>5. FilesTyped'
        BY <2>1, <3>3, <4>3, <4>4 DEF FilesInv, FilesTyped
      <4>6. \A m \in FileNumbers : NumberSound(m)'
        <5>1. NumberSound(n)'
          BY <2>1, <3>1, <3>2, <3>3, <3>5, <4>2, <4>4 DEF NumberSound, Blank
        <5>2. \A m \in FileNumbers \ {n} : NumberSound(m)'
          BY <2>1, <3>3, <4>4 DEF FilesInv, NumberSound, Blank
        <5>3. QED
          BY <5>1, <5>2
      <4>7. ASSUME NEW u \in FileThreads PROVE ClaimSound(u)'
        <5>1. CASE thread[u].at \in Handling
          <6>1. PICK m \in FileNumbers \ {n} : m = thread[u].number /\ Claimed(thread[u].at, m)
            BY <2>3, <5>1 DEF FilesInv, ClaimSound, Claimed
          <6>2. QED
            BY <2>1, <3>3, <4>3, <4>4, <6>1 DEF ClaimSound, Claimed, Blank
        <5>2. CASE thread[u].at \notin Handling
          BY <4>3, <5>2 DEF ClaimSound
        <5>3. QED
          BY <5>1, <5>2
      <4>8. QED
        BY <2>1, <4>3, <4>5, <4>6, <4>7 DEF FilesInv
    <3>6. QED
      BY <3>4, <3>5
  <2>9. QED
    BY <1>3, <2>6, <2>7, <2>8
<1>4. ASSUME NEW t \in FileThreads, Files!Put(t) \/ Files!NoteBin(t) \/ Files!Closing(t)
      PROVE  FilesInv'
  <2>1. UNCHANGED <<filesDisk, archives>>
    BY <1>4 DEF Files!Put, Files!NoteBin, Files!Closing
  <2>2. PICK c \in FileThread : c = thread[t] /\ LookingSound(c, filesDisk)
    BY DEF FilesInv, FilesTyped
  <2>3. c.at \in Handling
    BY <1>4, <2>2 DEF Files!Put, Files!NoteBin, Files!Closing, Files!At, Handling
  <2>4. PICK n \in FileNumbers : n = c.number /\ Claimed(c.at, n) /\ NumberSound(n)
    BY <2>2, <2>3 DEF FilesInv, ClaimSound, Claimed
  <2>5. /\ kernel \in [FileNumbers -> FileKind] /\ bins \in SUBSET FileNumbers
        /\ held \in [FileNumbers -> [kind : FileKind, entry : FileArchive \cup {Nothing}]]
        /\ table \in [FileNumbers -> FileArchive \cup {Nothing}]
    BY DEF FilesInv, FilesTyped
  <2>6. ASSUME Files!Ends(t), kernel' \in [FileNumbers -> FileKind], bins' \in SUBSET FileNumbers,
               held' \in [FileNumbers -> [kind : FileKind, entry : FileArchive \cup {Nothing}]],
               table' \in [FileNumbers -> FileArchive \cup {Nothing}],
               \A m \in FileNumbers \ {n} :
                 kernel'[m] = kernel[m] /\ held'[m] = held[m] /\ table'[m] = table[m] /\ (m \in bins' <=> m \in bins),
               NumberSound(n)'
        PROVE  FilesInv'
    <3>1. PICK r \in FileThread : r = Files!Idle /\ LookingSound(r, filesDisk) /\ r.at \notin Handling
      BY IdleIs
    <3>2. thread' = [thread EXCEPT ![t] = r] /\ thread' \in [FileThreads -> FileThread]
      BY <2>6, <3>1 DEF Files!Ends, FilesInv, FilesTyped
    <3>3. FilesTyped'
      BY <2>1, <2>6, <3>2 DEF FilesInv, FilesTyped
    <3>4. QED
      BY <2>1, <2>2, <2>3, <2>4, <2>6, <3>1, <3>2, <3>3, HandlingStep
  <2>7. CASE Files!Put(t)
    <3>1. c.at = "putting" /\ Blank(n) /\ kernel[n] = "event" /\ UNCHANGED <<bins, kernel>> /\ Files!Ends(t)
      BY <2>2, <2>4, <2>7 DEF Files!Put, Files!At, Claimed
    <3>2. PICK a : a = [path |-> c.path, stamp |-> c.stamp, content |-> c.content]
      OBVIOUS
    <3>3. a \in FileArchive /\ a.stamp <= a.content
      BY <2>2, <3>1, <3>2 DEF FileArchive, LookingSound
    <3>4. PICK k : k = [kind |-> "event", entry |-> a]
      OBVIOUS
    <3>5. k \in [kind : FileKind, entry : FileArchive \cup {Nothing}] /\ k.kind = "event" /\ k.entry = a
      BY <3>3, <3>4 DEF FileKind
    <3>6. table' = [table EXCEPT ![n] = a] /\ held' = [held EXCEPT ![n] = k]
      BY <2>2, <2>4, <2>7, <3>2, <3>4 DEF Files!Put, Files!Indexed
    <3>7. /\ table' \in [FileNumbers -> FileArchive \cup {Nothing}] /\ table'[n] = a
          /\ held' \in [FileNumbers -> [kind : FileKind, entry : FileArchive \cup {Nothing}]] /\ held'[n] = k
          /\ \A m \in FileNumbers \ {n} : held'[m] = held[m] /\ table'[m] = table[m]
      BY <2>5, <3>3, <3>5, <3>6
    <3>8. NumberSound(n)'
      BY <3>1, <3>3, <3>5, <3>7 DEF NumberSound, Blank
    <3>9. QED
      BY <2>5, <2>6, <3>1, <3>7, <3>8
  <2>8. CASE Files!NoteBin(t)
    <3>1. c.at = "noting" /\ Blank(n) /\ kernel[n] = "bin search" /\ UNCHANGED <<table, kernel>> /\ Files!Ends(t)
      BY <2>2, <2>4, <2>8 DEF Files!NoteBin, Files!At, Claimed
    <3>2. PICK k : k = [Files!NotHeld EXCEPT !.kind = "bin search"]
      OBVIOUS
    <3>3. /\ k \in [kind : FileKind, entry : FileArchive \cup {Nothing}]
          /\ k.kind = "bin search" /\ k.entry = Nothing
      BY <3>2 DEF Files!NotHeld, FileKind
    <3>4. bins' = bins \cup {n} /\ held' = [held EXCEPT ![n] = k]
      BY <2>2, <2>4, <2>8, <3>1, <3>2 DEF Files!NoteBin, Blank
    <3>5. /\ held' \in [FileNumbers -> [kind : FileKind, entry : FileArchive \cup {Nothing}]] /\ held'[n] = k
          /\ \A m \in FileNumbers \ {n} : held'[m] = held[m]
          /\ bins' \in SUBSET FileNumbers /\ n \in bins'
      BY <2>5, <3>3, <3>4
    <3>6. NumberSound(n)'
      BY <3>1, <3>3, <3>5 DEF NumberSound, Blank
    <3>7. QED
      BY <2>5, <2>6, <3>1, <3>4, <3>5, <3>6
  <2>9. CASE Files!Closing(t) /\ c.at = "closing"
    <3>1. /\ thread' = [thread EXCEPT ![t].at = "erased"] /\ UNCHANGED <<kernel, held>>
          /\ table' = [table EXCEPT ![n] = Nothing] /\ bins' = bins \ {n}
      BY <2>2, <2>4, <2>9 DEF Files!Closing, Files!At, Files!Goes
    <3>2. PICK r : r = [c EXCEPT !.at = "erased"]
      OBVIOUS
    <3>3. r \in FileThread /\ r.at = "erased" /\ r.number = n
      BY <2>4, <3>2 DEF FileThread
    <3>4. thread' = [thread EXCEPT ![t] = r] /\ thread' \in [FileThreads -> FileThread]
      BY <2>2, <3>1, <3>2, <3>3 DEF FilesInv, FilesTyped
    <3>5. /\ table' \in [FileNumbers -> FileArchive \cup {Nothing}] /\ table'[n] = Nothing
          /\ \A m \in FileNumbers \ {n} : table'[m] = table[m]
          /\ bins' \in SUBSET FileNumbers /\ n \notin bins' /\ \A m \in FileNumbers \ {n} : m \in bins' <=> m \in bins
      BY <2>5, <3>1
    <3>6. Claimed("erased", n)' /\ NumberSound(n)'
      BY <2>4, <3>1, <3>5 DEF Claimed, Blank, NumberSound
    <3>7. FilesTyped'
      BY <2>1, <2>5, <3>1, <3>4, <3>5 DEF FilesInv, FilesTyped
    <3>8. LookingSound(r, filesDisk)
      BY <3>3 DEF LookingSound
    <3>9. \A m \in FileNumbers \ {n} :
            kernel'[m] = kernel[m] /\ held'[m] = held[m] /\ table'[m] = table[m] /\ (m \in bins' <=> m \in bins)
      BY <3>1, <3>5
    <3>10. thread[t].at \in Handling /\ n = thread[t].number
      BY <2>2, <2>3, <2>4
    <3>11. QED
      BY <2>1, <3>3, <3>4, <3>6, <3>7, <3>8, <3>9, <3>10, HandlingStep
  <2>10. CASE Files!Closing(t) /\ c.at # "closing"
    <3>1. /\ c.at = "erased" /\ Blank(n) /\ Files!Ends(t) /\ UNCHANGED <<table, bins, held>>
          /\ kernel' = [kernel EXCEPT ![n] = "free"]
      BY <2>2, <2>4, <2>10 DEF Files!Closing, Files!At, Claimed
    <3>2. kernel' \in [FileNumbers -> FileKind] /\ kernel'[n] = "free"
          /\ \A m \in FileNumbers \ {n} : kernel'[m] = kernel[m]
      BY <2>5, <3>1 DEF FileKind
    <3>3. NumberSound(n)'
      BY <3>1, <3>2 DEF NumberSound, Blank
    <3>4. QED
      BY <2>5, <2>6, <3>1, <3>2, <3>3
  <2>11. QED
    BY <1>4, <2>7, <2>8, <2>9, <2>10
<1>5. QED
  BY <1>1, <1>2, <1>3, <1>4 DEF Files!Next

LEMMA FilesRight == FilesInv => Files!TypeOK /\ Files!Fresh /\ Files!OneReader /\ Files!HandleKept
<1> SUFFICES ASSUME FilesInv PROVE Files!TypeOK /\ Files!Fresh /\ Files!OneReader /\ Files!HandleKept
  OBVIOUS
<1>1. Files!TypeOK
  <2>1. filesDisk \in [FilePaths -> 1..FileVersions] /\ Len(archives) <= Readers /\ bins \subseteq FileNumbers
    BY DEF FilesInv, FilesTyped, FileVersion
  <2>2. Files!Archive = FileArchive
    BY DEF Files!Archive, FileArchive, FileVersion
  <2>3. Files!ToSet(archives) \subseteq Files!Archive
    BY <2>2 DEF FilesInv, FilesTyped, Files!ToSet
  <2> DEFINE Kernel(n) == kernel[n] \in {"free", "event"} \cup Files!Real
             Entry(n) == table[n] # Nothing => table[n] \in Files!Archive
  <2>4. \A n \in FileNumbers : Kernel(n) /\ Entry(n)
    BY <2>2 DEF FilesInv, FilesTyped, FileKind, Files!Real
  <2>5. Files!TypeOK <=> /\ filesDisk \in [FilePaths -> 1..FileVersions]
                         /\ Len(archives) <= Readers /\ Files!ToSet(archives) \subseteq Files!Archive
                         /\ bins \subseteq FileNumbers
                         /\ \A n \in FileNumbers : Kernel(n) /\ Entry(n)
    BY DEF Files!TypeOK
  <2> HIDE DEF Kernel, Entry
  <2>6. QED
    BY <2>1, <2>3, <2>4, <2>5
<1>2. Files!Fresh
  BY DEF FilesInv, FilesTyped, NumberSound, Files!Fresh, FileArchive, FileVersion
<1>3. Files!OneReader
  BY DEF FilesInv, FilesTyped, CacheSound, Files!OneReader
<1>4. Files!HandleKept
  BY DEF FilesInv, NumberSound, Files!HandleKept
<1>5. QED
  BY <1>1, <1>2, <1>3, <1>4

LEMMA FilesStay ==
  ASSUME FilesInv, UNCHANGED FilesVars
  PROVE  FilesInv'
<1>1. UNCHANGED <<filesDisk, archives, table, bins, kernel, held, thread>>
  BY DEF FilesVars
<1>2. FilesTyped'
  BY <1>1 DEF FilesInv, FilesTyped
<1>3. CacheSound(archives)' /\ OwnersApart(thread)'
  BY <1>1 DEF FilesInv
<1>4. \A t \in FileThreads : LookingSound(thread[t], filesDisk)'
  BY <1>1 DEF FilesInv
<1>5. \A t \in FileThreads : ClaimSound(t)'
  BY <1>1 DEF FilesInv, ClaimSound, Claimed, Blank
<1>6. \A n \in FileNumbers : NumberSound(n)'
  BY <1>1 DEF FilesInv, NumberSound, Blank
<1>7. QED
  BY <1>2, <1>3, <1>4, <1>5, <1>6 DEF FilesInv
-----------------------------------------------------------------------------
(***************************************************************************)
(* Streams.  The places from a place on, and the least of two numbers.     *)
(***************************************************************************)
LEMMA PlacesAre ==
  ASSUME NEW a \in Int, NEW n \in Nat
  PROVE  /\ Stream!Places(a, n) \in Seq(Int) /\ Len(Stream!Places(a, n)) = n
         /\ \A i \in 1..n : Stream!Places(a, n)[i] = a + i - 1
         /\ n = 0 => Stream!Places(a, n) = <<>>
<1>1. \A i \in 1..n : a + i - 1 \in Int
  OBVIOUS
<1>2. Stream!Places(a, n) \in Seq(Int)
  BY <1>1, IsASeq DEF Stream!Places
<1>3. DOMAIN Stream!Places(a, n) = 1..n /\ \A i \in 1..n : Stream!Places(a, n)[i] = a + i - 1
  BY DEF Stream!Places
<1>4. Len(Stream!Places(a, n)) = n
  BY <1>2, <1>3, LenProperties
<1>5. n = 0 => Stream!Places(a, n) = <<>>
  BY <1>2, <1>4, EmptySeq
<1>6. QED
  BY <1>2, <1>3, <1>4, <1>5

LEMMA PlacesJoin ==
  ASSUME NEW a \in Int, NEW b \in Int, NEW m \in Nat, NEW n \in Nat, b = a + m \/ n = 0
  PROVE  Stream!Places(a, m) \o Stream!Places(b, n) = Stream!Places(a, m + n)
<1> DEFINE s == Stream!Places(a, m)
           t == Stream!Places(b, n)
           u == Stream!Places(a, m + n)
<1>1. /\ s \in Seq(Int) /\ t \in Seq(Int) /\ u \in Seq(Int) /\ Len(s) = m /\ Len(t) = n /\ Len(u) = m + n
      /\ \A i \in 1..m : s[i] = a + i - 1
      /\ \A i \in 1..n : t[i] = b + i - 1
      /\ \A i \in 1..(m + n) : u[i] = a + i - 1
  <2>1. m + n \in Nat
    OBVIOUS
  <2>2. s \in Seq(Int) /\ Len(s) = m /\ \A i \in 1..m : s[i] = a + i - 1
    BY PlacesAre
  <2>3. t \in Seq(Int) /\ Len(t) = n /\ \A i \in 1..n : t[i] = b + i - 1
    BY PlacesAre
  <2>4. u \in Seq(Int) /\ Len(u) = m + n /\ \A i \in 1..(m + n) : u[i] = a + i - 1
    BY <2>1, PlacesAre
  <2>5. QED
    BY <2>2, <2>3, <2>4
<1> HIDE DEF s, t, u
<1>2. s \o t \in Seq(Int) /\ Len(s \o t) = m + n
      /\ \A i \in 1..(m + n) : (s \o t)[i] = IF i <= m THEN s[i] ELSE t[i - m]
  BY <1>1, ConcatProperties
<1>3. ASSUME NEW i \in 1..(m + n) PROVE (s \o t)[i] = u[i]
  <2>1. CASE i <= m
    BY <1>1, <1>2, <2>1
  <2>2. CASE ~(i <= m)
    <3>1. i - m \in 1..n /\ b = a + m
      BY <2>2
    <3>2. t[i - m] = b + (i - m) - 1 /\ (s \o t)[i] = t[i - m] /\ u[i] = a + i - 1
      BY <1>1, <1>2, <2>2, <3>1
    <3>3. QED
      BY <3>1, <3>2
  <2>3. QED
    BY <2>1, <2>2
<1>4. s \o t = u
  BY <1>1, <1>2, <1>3, SeqEqual
<1>5. QED
  BY <1>4 DEF s, t, u

LEMMA PlacesPart ==
  ASSUME NEW a \in Int, NEW m \in Nat, NEW p \in Int, NEW n \in Nat, a <= p, p - a + n <= m
  PROVE  SubSeq(Stream!Places(a, m), p - a + 1, p - a + n) = Stream!Places(p, n)
<1> DEFINE s == Stream!Places(a, m)
           u == Stream!Places(p, n)
           from == p - a + 1
           to == p - a + n
<1>1. /\ s \in Seq(Int) /\ u \in Seq(Int) /\ Len(s) = m /\ Len(u) = n
      /\ \A i \in 1..m : s[i] = a + i - 1
      /\ \A i \in 1..n : u[i] = p + i - 1
  BY PlacesAre
<1>2. /\ from \in Int /\ to \in Int /\ to - from + 1 = n /\ (IF from <= to THEN to - from + 1 ELSE 0) = n
      /\ \A i \in from..to : i \in 1..m
      /\ \A i \in 1..n : from + i - 1 \in 1..m /\ a + (from + i - 1) - 1 = p + i - 1
  OBVIOUS
<1> HIDE DEF s, u, from, to
<1>3. \A i \in from..to : s[i] \in Int
  <2>1. \A i \in 1..m : s[i] \in Int
    BY <1>1, ElementOfSeq
  <2>2. QED
    BY <1>2, <2>1
<1>4. /\ SubSeq(s, from, to) \in Seq(Int) /\ Len(SubSeq(s, from, to)) = n
      /\ \A i \in 1..n : SubSeq(s, from, to)[i] = s[from + i - 1]
  BY <1>2, <1>3, SubSeqProperties
<1>5. \A i \in 1..n : SubSeq(s, from, to)[i] = u[i]
  BY <1>1, <1>2, <1>4
<1>6. SubSeq(s, from, to) = u
  BY <1>1, <1>4, <1>5, SeqEqual
<1>7. QED
  BY <1>6 DEF s, u, from, to

LEMMA LeastOfTwo ==
  ASSUME NEW a \in Int, NEW b \in Int
  PROVE  Stream!Min({a, b}) = IF a <= b THEN a ELSE b
<1> DEFINE m == IF a <= b THEN a ELSE b
<1>1. m \in {a, b} /\ \A y \in {a, b} : m <= y
  OBVIOUS
<1>2. \A n \in {a, b} : (\A y \in {a, b} : n <= y) => n = m
  OBVIOUS
<1>3. QED
  BY <1>1, <1>2 DEF Stream!Min

LEMMA LeastOfThree ==
  ASSUME NEW a \in Int, NEW b \in Int, NEW c \in Int
  PROVE  /\ Stream!Min({a, b, c}) \in {a, b, c}
         /\ Stream!Min({a, b, c}) <= a /\ Stream!Min({a, b, c}) <= b /\ Stream!Min({a, b, c}) <= c
<1>1. \E m \in {a, b, c} : \A y \in {a, b, c} : m <= y
  OBVIOUS
<1>2. QED
  BY <1>1 DEF Stream!Min

LEMMA StreamConstants == EntrySize \in Nat \ {0} /\ WindowSize \in Nat \ {0} /\ WriteSize \in Nat \ {0}
BY Instances DEF Stream!SizeAssumption

-----------------------------------------------------------------------------
StreamEntry == [large : BOOLEAN, produced : {EntrySize - 1, EntrySize, EntrySize + 1}, damaged : BOOLEAN]
StreamRead == [at : {"done", "reading", "decoding", "copying"}, from : Nat, size : Nat, got : Seq(Int)]
StreamDecoder == [at : Nat, skip : Nat, remaining : Nat, bytes : Seq(Int), stopAfterRange : BOOLEAN]

\* The window of a small entry begins at its first byte; and unless some decoding has
\* failed, or one is under way, a window holds its places, and reaches the entry's end only
\* if the decoder found nothing damaged.
WindowSound(e, r, start, w) ==
  /\ e.large => Len(w) <= WindowSize
  /\ ~e.large => start = 0
  /\ ~failed /\ r.at # "decoding" =>
       /\ w = Stream!Places(start, Len(w))
       /\ w # <<>> /\ start + Len(w) >= EntrySize => ~e.damaged

ReadSound(e, r, start, p) ==
  /\ Len(r.got) <= r.size
  /\ r.at # "done" => p = r.from + Len(r.got)
  /\ r.at \in {"decoding", "copying"} => p < EntrySize /\ start <= p
  /\ ~failed =>
       /\ r.got = Stream!Places(r.from, Len(r.got))
       /\ r.got # <<>> /\ r.from + Len(r.got) = EntrySize => ~e.damaged

\* What the decoder has kept is what there is from the window's start on, up to where it is
\* or until the range is complete; it is stopped only where the range ends before the entry.
DecoderSound(e, start, d) ==
  /\ d.at <= start => d.skip = start - d.at /\ d.bytes = <<>>
  /\ d.at > start => d.skip = 0 /\ (Len(d.bytes) = d.at - start \/ d.remaining = 0)
  /\ d.bytes = Stream!Places(start, Len(d.bytes))
  /\ e.large => Len(d.bytes) + d.remaining <= WindowSize
  /\ d.stopAfterRange => start + Len(d.bytes) + d.remaining < EntrySize

StreamTyped ==
  /\ position \in 0..EntrySize /\ windowStart \in 0..EntrySize /\ failed \in BOOLEAN
  /\ streamWindow \in Seq(Int) /\ streamRead \in StreamRead /\ decoder \in StreamDecoder
StreamUnused ==
  windowStart = 0 /\ streamWindow = <<>> /\ streamRead.at = "done" /\ streamRead.got = <<>>

StreamInv ==
  /\ StreamTyped
  /\ IF entry = Nothing THEN StreamUnused
     ELSE /\ entry \in StreamEntry
          /\ WindowSound(entry, streamRead, windowStart, streamWindow)
          /\ ReadSound(entry, streamRead, windowStart, position)
  /\ IF streamRead.at = "decoding" THEN DecoderSound(entry, windowStart, decoder) ELSE decoder = Stream!NoDecoder

LEMMA StreamStart == Stream!Init => StreamInv
<1> SUFFICES ASSUME Stream!Init PROVE StreamInv
  OBVIOUS
<1>1. <<>> \in Seq(Int)
  BY EmptySeq
<1>2. streamRead \in StreamRead /\ streamRead.at = "done" /\ streamRead.got = <<>>
  BY <1>1 DEF Stream!Init, StreamRead
<1>3. decoder = Stream!NoDecoder /\ Stream!NoDecoder \in StreamDecoder
  BY <1>1 DEF Stream!Init, Stream!NoDecoder, StreamDecoder
<1>4. 0 \in 0..EntrySize /\ FALSE \in BOOLEAN
  BY StreamConstants
<1>5. StreamTyped
  BY <1>1, <1>2, <1>3, <1>4 DEF Stream!Init, StreamTyped
<1>6. StreamUnused /\ entry = Nothing
  BY <1>2 DEF Stream!Init, StreamUnused
<1>7. QED
  BY <1>2, <1>3, <1>5, <1>6 DEF StreamInv

\* Nothing is kept, nothing was read.
LEMMA EmptySound ==
  ASSUME NEW e \in StreamEntry, NEW r \in StreamRead, NEW start, start = 0
  PROVE  /\ WindowSound(e, r, start, <<>>)
         /\ r.at = "done" /\ r.got = <<>> => \A p : ReadSound(e, r, start, p)
<1>1. Len(<<>>) = 0 /\ \A a \in Int : Stream!Places(a, 0) = <<>>
  BY EmptySeq, PlacesAre
<1>2. WindowSound(e, r, start, <<>>)
  BY <1>1, StreamConstants DEF WindowSound
<1>3. ASSUME r.at = "done", r.got = <<>>, NEW p PROVE ReadSound(e, r, start, p)
  <2>1. r.from \in Int /\ r.size \in Nat
    BY DEF StreamRead
  <2>2. Stream!Places(r.from, 0) = <<>>
    BY <1>1, <2>1
  <2>3. QED
    BY <1>1, <1>3, <2>1, <2>2 DEF ReadSound
<1>4. QED
  BY <1>2, <1>3

\* What remains to be read.
LEMMA StreamIs ==
  ASSUME StreamInv, entry # Nothing
  PROVE  \E e \in StreamEntry, r \in StreamRead, p \in 0..EntrySize, start \in 0..EntrySize, w \in Seq(Int) :
           /\ e = entry /\ r = streamRead /\ p = position /\ start = windowStart /\ w = streamWindow
           /\ WindowSound(e, r, start, w) /\ ReadSound(e, r, start, p) /\ Len(w) \in Nat
BY LenProperties DEF StreamInv, StreamTyped

\* Another record of the read, with nothing decoding.
LEMMA StreamTurn ==
  ASSUME StreamInv, entry # Nothing, entry' = entry, NEW e \in StreamEntry, e = entry,
         NEW r \in StreamRead, streamRead' = r, NEW p \in 0..EntrySize, position' = p,
         NEW start \in 0..EntrySize, windowStart' = start, NEW w \in Seq(Int), streamWindow' = w,
         failed' \in BOOLEAN, r.at # "decoding", decoder' = Stream!NoDecoder,
         WindowSound(e, r, start, w)', ReadSound(e, r, start, p)'
  PROVE  StreamInv'
<1>1. Stream!NoDecoder \in StreamDecoder
  BY EmptySeq DEF Stream!NoDecoder, StreamDecoder
<1>2. StreamTyped'
  BY <1>1 DEF StreamTyped
<1>3. QED
  BY <1>2 DEF StreamInv, WindowSound, ReadSound

LEMMA QuietStream ==
  ASSUME StreamInv, Stream!GetData \/ Stream!Return \/ Stream!Fail \/ Stream!Clone
                      \/ (\E p \in 0..EntrySize : Stream!Seek(p))
                      \/ (\E n \in 1..WriteSize : Stream!Read(n))
  PROVE  StreamInv'
<1>1. CASE Stream!GetData
  <2>1. PICK e \in StreamEntry : entry' = e
    BY <1>1 DEF Stream!GetData, Stream!Entry, StreamEntry
  <2>2. /\ UNCHANGED <<position, windowStart, streamWindow, streamRead, decoder, failed>>
        /\ windowStart = 0 /\ streamWindow = <<>> /\ streamRead.at = "done" /\ streamRead.got = <<>>
        /\ streamRead \in StreamRead /\ decoder = Stream!NoDecoder
    BY <1>1 DEF Stream!GetData, StreamInv, StreamTyped, StreamUnused
  <2>3. WindowSound(e, streamRead, windowStart, streamWindow)
    BY <2>2, EmptySound
  <2>4. ReadSound(e, streamRead, windowStart, position)
    BY <2>2, EmptySound
  <2>5. StreamTyped'
    BY <2>2 DEF StreamInv, StreamTyped
  <2>6. QED
    BY <2>1, <2>2, <2>3, <2>4, <2>5 DEF StreamInv, StreamUnused, WindowSound, ReadSound
<1>2. ASSUME ~Stream!GetData, entry # Nothing PROVE StreamInv'
  <2>1. PICK e \in StreamEntry, r \in StreamRead, p \in 0..EntrySize, start \in 0..EntrySize, w \in Seq(Int) :
           /\ e = entry /\ r = streamRead /\ p = position /\ start = windowStart /\ w = streamWindow
           /\ WindowSound(e, r, start, w) /\ ReadSound(e, r, start, p) /\ Len(w) \in Nat
    BY <1>2, StreamIs
  <2>2. failed \in BOOLEAN /\ (r.at # "decoding" => decoder = Stream!NoDecoder)
    BY <2>1 DEF StreamInv, StreamTyped
  <2>3. CASE Stream!Return
    <3>1. PICK s : s = [r EXCEPT !.at = "done"]
      OBVIOUS
    <3>2. s \in StreamRead /\ s.at = "done" /\ s.from = r.from /\ s.size = r.size /\ s.got = r.got
      BY <3>1 DEF StreamRead
    <3>3. /\ streamRead' = s /\ UNCHANGED <<entry, position, windowStart, streamWindow, decoder, failed>>
          /\ r.at = "reading"
      BY <2>1, <2>3, <3>1 DEF Stream!Return
    <3>4. WindowSound(e, s, start, w)' /\ ReadSound(e, s, start, p)'
      BY <2>1, <3>2, <3>3 DEF WindowSound, ReadSound
    <3>5. QED
      BY <1>2, <2>1, <2>2, <3>2, <3>3, <3>4, StreamTurn
  <2>4. CASE Stream!Fail
    <3>1. PICK s : s = [r EXCEPT !.at = "done"]
      OBVIOUS
    <3>2. s \in StreamRead /\ s.at = "done" /\ s.from = r.from /\ s.size = r.size /\ s.got = r.got
      BY <3>1 DEF StreamRead
    <3>3. /\ streamRead' = s /\ UNCHANGED <<entry, position, windowStart, streamWindow>>
          /\ failed' = TRUE /\ decoder' = Stream!NoDecoder
      BY <2>1, <2>4, <3>1 DEF Stream!Fail
    <3>4. WindowSound(e, s, start, w)' /\ ReadSound(e, s, start, p)'
      BY <2>1, <3>2, <3>3 DEF WindowSound, ReadSound
    <3>5. QED
      BY <1>2, <2>1, <2>2, <3>2, <3>3, <3>4, StreamTurn
  <2>5. CASE Stream!Clone
    <3>1. /\ UNCHANGED <<entry, position, streamRead, decoder, failed>> /\ r.at = "done"
          /\ streamWindow' = <<>> /\ windowStart' = 0 /\ e.large
      BY <2>1, <2>5 DEF Stream!Clone
    <3>2. <<>> \in Seq(Int) /\ 0 \in 0..EntrySize
      BY EmptySeq, StreamConstants
    <3>3. WindowSound(e, r, 0, <<>>)'
      BY <3>1, EmptySound DEF WindowSound
    <3>4. ReadSound(e, r, 0, p)'
      BY <2>1, <3>1 DEF ReadSound
    <3>5. QED
      BY <1>2, <2>1, <2>2, <3>1, <3>2, <3>3, <3>4, StreamTurn
  <2>6. ASSUME NEW q \in 0..EntrySize, Stream!Seek(q) PROVE StreamInv'
    <3>1. /\ UNCHANGED <<entry, windowStart, streamWindow, streamRead, decoder, failed>> /\ r.at = "done"
          /\ position' = q
      BY <2>1, <2>6 DEF Stream!Seek
    <3>2. WindowSound(e, r, start, w)' /\ ReadSound(e, r, start, q)'
      BY <2>1, <3>1 DEF WindowSound, ReadSound
    <3>3. QED
      BY <1>2, <2>1, <2>2, <3>1, <3>2, StreamTurn
  <2>7. ASSUME NEW n \in 1..WriteSize, Stream!Read(n) PROVE StreamInv'
    <3>1. PICK s : s = [at |-> "reading", from |-> p, size |-> n, got |-> <<>>]
      OBVIOUS
    <3>2. /\ s \in StreamRead /\ s.at = "reading" /\ s.from = p /\ s.size = n /\ s.got = <<>>
          /\ Len(<<>>) = 0 /\ Stream!Places(p, 0) = <<>>
      <4>1. n \in Nat /\ p \in Nat /\ <<>> \in Seq(Int) /\ Len(<<>>) = 0
        BY StreamConstants, EmptySeq
      <4>2. Stream!Places(p, 0) = <<>>
        BY PlacesAre
      <4>3. QED
        BY <3>1, <4>1, <4>2 DEF StreamRead
    <3>3. /\ streamRead' = s /\ UNCHANGED <<entry, position, windowStart, streamWindow, decoder, failed>>
          /\ r.at = "done"
      BY <2>1, <2>7, <3>1 DEF Stream!Read
    <3>4. WindowSound(e, s, start, w)'
      BY <2>1, <3>2, <3>3 DEF WindowSound
    <3>5. ReadSound(e, s, start, p)'
      BY <2>1, <3>2, <3>3 DEF ReadSound
    <3>6. QED
      BY <1>2, <2>1, <2>2, <3>2, <3>3, <3>4, <3>5, StreamTurn
  <2>8. QED
    BY <1>2, <2>3, <2>4, <2>5, <2>6, <2>7
<1>3. ~Stream!GetData => entry # Nothing
  BY DEF StreamInv, StreamUnused, Stream!Return, Stream!Fail, Stream!Clone, Stream!Seek, Stream!Read
<1>4. QED
  BY <1>1, <1>2, <1>3

LEMMA DecodeStep ==
  ASSUME StreamInv, Stream!Decode
  PROVE  StreamInv'
<1>1. entry # Nothing
  BY DEF StreamInv, StreamUnused, Stream!Decode
<1>2. PICK e \in StreamEntry, r \in StreamRead, p \in 0..EntrySize, start \in 0..EntrySize, w \in Seq(Int) :
         /\ e = entry /\ r = streamRead /\ p = position /\ start = windowStart /\ w = streamWindow
         /\ WindowSound(e, r, start, w) /\ ReadSound(e, r, start, p) /\ Len(w) \in Nat
  BY <1>1, StreamIs
<1>3. PICK length : length = Stream!Min({WindowSize, EntrySize - p})
  OBVIOUS
<1>4. p < EntrySize /\ r.at = "reading" /\ UNCHANGED <<entry, position, streamWindow, failed>>
  BY <1>2 DEF Stream!Decode
<1>5. length \in Nat /\ length <= WindowSize /\ length <= EntrySize - p
  BY <1>3, <1>4, LeastOfTwo, StreamConstants
<1>6. PICK from \in 0..EntrySize, n \in Nat, stop \in BOOLEAN :
         /\ from = IF e.large THEN p ELSE 0
         /\ n = IF e.large THEN length ELSE e.produced
         /\ stop = (e.large /\ Stream!StopAfterRange(p, length))
  <2> DEFINE begin == IF e.large THEN p ELSE 0
             many == IF e.large THEN length ELSE e.produced
             stops == e.large /\ Stream!StopAfterRange(p, length)
  <2>1. begin \in 0..EntrySize
    BY StreamConstants
  <2>2. e.produced \in Nat
    BY StreamConstants DEF StreamEntry
  <2>3. many \in Nat
    BY <1>5, <2>2
  <2>4. stops \in BOOLEAN
    OBVIOUS
  <2>5. QED
    BY <2>1, <2>3, <2>4
<1>7. PICK d, s : /\ d = [at |-> 0, skip |-> from, remaining |-> n, bytes |-> <<>>, stopAfterRange |-> stop]
                  /\ s = [r EXCEPT !.at = "decoding"]
  OBVIOUS
<1>8. /\ d \in StreamDecoder /\ d.at = 0 /\ d.skip = from /\ d.remaining = n /\ d.bytes = <<>>
      /\ d.stopAfterRange = stop
  BY <1>7, EmptySeq DEF StreamDecoder
<1>9. s \in StreamRead /\ s.at = "decoding" /\ s.from = r.from /\ s.size = r.size /\ s.got = r.got
  BY <1>7 DEF StreamRead
<1>10. windowStart' = from /\ decoder' = d /\ streamRead' = s
  BY <1>2, <1>3, <1>6, <1>7 DEF Stream!Decode
<1>11. DecoderSound(e, from, d)
  <2>1. Len(<<>>) = 0 /\ Stream!Places(from, 0) = <<>>
    BY EmptySeq, PlacesAre
  <2>2. stop => from + n < EntrySize
    BY <1>5, <1>6 DEF Stream!StopAfterRange
  <2>3. e.large => n <= WindowSize
    BY <1>5, <1>6
  <2>4. QED
    BY <1>8, <2>1, <2>2, <2>3 DEF DecoderSound
<1>12. WindowSound(e, s, from, w)' /\ ReadSound(e, s, from, p)'
  BY <1>2, <1>4, <1>6, <1>9 DEF WindowSound, ReadSound
<1>13. StreamTyped'
  BY <1>2, <1>4, <1>8, <1>9, <1>10 DEF StreamInv, StreamTyped
<1>14. QED
  BY <1>1, <1>2, <1>4, <1>9, <1>10, <1>11, <1>12, <1>13 DEF StreamInv, WindowSound, ReadSound

\* Of n more bytes some are skipped and some kept: where the decoder stands then.
LEMMA Counted ==
  ASSUME NEW place \in Nat, NEW skip \in Nat, NEW rest \in Nat, NEW start \in Nat, NEW len \in Nat,
         NEW n \in Nat \ {0}, NEW skipped, skipped = IF skip <= n THEN skip ELSE n,
         NEW take, take = IF rest <= n - skipped THEN rest ELSE n - skipped,
         place <= start => skip = start - place /\ len = 0,
         place > start => skip = 0 /\ (len = place - start \/ rest = 0)
  PROVE  /\ skipped \in Nat /\ n - skipped \in Nat /\ take \in Nat /\ take <= rest
         /\ place + n \in Nat /\ skip - skipped \in Nat /\ rest - take \in Nat
         /\ place + skipped = start + len \/ take = 0
         /\ place + n <= start => skip - skipped = start - (place + n) /\ len = 0 /\ take = 0
         /\ place + n > start => /\ skip - skipped = 0
                                 /\ len + take = place + n - start \/ rest - take = 0
OBVIOUS

\* What the decoder produces next is skipped, kept, or beyond the range.
LEMMA WrittenSound ==
  ASSUME NEW e \in StreamEntry, NEW start \in Nat, NEW d \in StreamDecoder, d = decoder,
         DecoderSound(e, start, d), NEW n \in Nat \ {0}
  PROVE  Stream!Written(n) \in StreamDecoder /\ DecoderSound(e, start, Stream!Written(n))
         /\ Stream!Written(n).stopAfterRange = d.stopAfterRange
<1>1. PICK place \in Nat, skip \in Nat, rest \in Nat, kept \in Seq(Int), len \in Nat :
        d.at = place /\ d.skip = skip /\ d.remaining = rest /\ d.bytes = kept /\ Len(kept) = len
  BY LenProperties DEF StreamDecoder
<1>2. PICK skipped \in Nat : skipped = IF skip <= n THEN skip ELSE n
  OBVIOUS
<1>3. n - skipped \in Nat
  BY <1>2
<1>4. PICK take \in Nat : take = IF rest <= n - skipped THEN rest ELSE n - skipped
  BY <1>3
<1>5. /\ place <= start => skip = start - place /\ kept = <<>>
      /\ place > start => skip = 0 /\ (len = place - start \/ rest = 0)
      /\ kept = Stream!Places(start, len)
      /\ e.large => len + rest <= WindowSize
      /\ d.stopAfterRange => start + len + rest < EntrySize
  BY <1>1 DEF DecoderSound
<1>6. kept = <<>> <=> len = 0
  BY <1>1, EmptySeq
<1>7. /\ take <= rest
      /\ place + n \in Nat /\ skip - skipped \in Nat /\ rest - take \in Nat
      /\ place + skipped = start + len \/ take = 0
      /\ place + n <= start => skip - skipped = start - (place + n) /\ len = 0 /\ take = 0
      /\ place + n > start => /\ skip - skipped = 0
                              /\ len + take = place + n - start \/ rest - take = 0
  <2>1. /\ place <= start => skip = start - place /\ len = 0
        /\ place > start => skip = 0 /\ (len = place - start \/ rest = 0)
    BY <1>5, <1>6
  <2>2. QED
    BY <1>2, <1>4, <2>1, Counted
<1>8. skipped = Stream!Min({skip, n}) /\ take = Stream!Min({rest, n - skipped}) /\ Stream!Min({rest, take}) = take
  <2>1. skipped = Stream!Min({skip, n})
    BY <1>2, LeastOfTwo
  <2>2. take = Stream!Min({rest, n - skipped})
    BY <1>3, <1>4, LeastOfTwo
  <2>3. Stream!Min({rest, take}) = IF rest <= take THEN rest ELSE take
    BY LeastOfTwo
  <2>4. QED
    BY <1>7, <2>1, <2>2, <2>3
<1>9. PICK more \in Seq(Int) : more = Stream!Places(place + skipped, take) /\ Len(more) = take
  <2>1. place + skipped \in Int
    OBVIOUS
  <2>2. QED
    BY <2>1, PlacesAre
<1>10. PICK c : c = [d EXCEPT !.at = place + n, !.skip = skip - skipped, !.remaining = rest - take,
                              !.bytes = kept \o more]
  OBVIOUS
<1>11. c = Stream!Written(n)
  BY <1>1, <1>8, <1>9, <1>10 DEF Stream!Written, Stream!Appended
<1>12. kept \o more \in Seq(Int) /\ Len(kept \o more) = len + take
  <2>1. Len(kept) = len /\ Len(more) = take
    BY <1>1, <1>9
  <2>2. kept \o more \in Seq(Int) /\ Len(kept \o more) = Len(kept) + Len(more)
    BY ConcatProperties
  <2>3. QED
    BY <2>1, <2>2
<1>13. /\ c \in StreamDecoder /\ c.at = place + n /\ c.skip = skip - skipped
       /\ c.remaining = rest - take /\ c.bytes = kept \o more /\ c.stopAfterRange = d.stopAfterRange
  BY <1>7, <1>10, <1>12 DEF StreamDecoder
<1>14. kept \o more = Stream!Places(start, len + take)
  <2>1. PICK b : b = place + skipped
    OBVIOUS
  <2>2. start \in Int /\ b \in Int /\ len \in Nat /\ take \in Nat /\ (b = start + len \/ take = 0)
    BY <1>1, <1>2, <1>4, <1>7, <2>1
  <2>3. Stream!Places(start, len) \o Stream!Places(b, take) = Stream!Places(start, len + take)
    BY <2>2, PlacesJoin, ZenonT(60)
  <2>4. QED
    BY <1>5, <1>9, <2>1, <2>3
<1>15. len + take = 0 => kept \o more = <<>>
  BY <1>12, EmptySeq
<1>16. PICK size \in Nat, left \in Nat : /\ size = len + take /\ left = rest - take
                                         /\ size + left = len + rest /\ start + size + left = start + len + rest
  BY <1>7
<1>17. /\ c.at <= start => c.skip = start - c.at /\ c.bytes = <<>>
       /\ c.at > start => c.skip = 0 /\ (Len(c.bytes) = c.at - start \/ c.remaining = 0)
  <2>1. CASE place + n <= start
    <3>1. skip - skipped = start - (place + n) /\ len + take = 0
      BY <1>7, <2>1
    <3>2. ~(place + n > start)
      BY <2>1
    <3>3. QED
      BY <1>13, <1>15, <2>1, <3>1, <3>2
  <2>2. CASE ~(place + n <= start)
    <3>1. skip - skipped = 0 /\ (len + take = place + n - start \/ rest - take = 0)
      BY <1>7, <2>2
    <3>2. Len(c.bytes) = c.at - start \/ c.remaining = 0
      <4>1. Len(c.bytes) = len + take
        BY <1>12, <1>13
      <4>2. c.at = place + n /\ c.remaining = rest - take
        BY <1>13
      <4>3. QED
        BY <3>1, <4>1, <4>2
    <3>3. c.skip = 0 /\ ~(c.at <= start)
      BY <1>13, <2>2, <3>1
    <3>4. QED
      BY <3>2, <3>3
  <2>3. QED
    BY <2>1, <2>2
<1>18. /\ c.bytes = Stream!Places(start, Len(c.bytes))
       /\ Len(c.bytes) + c.remaining = len + rest
       /\ start + Len(c.bytes) + c.remaining = start + len + rest
  BY <1>12, <1>13, <1>14, <1>16
<1>19. DecoderSound(e, start, c)
  BY <1>5, <1>13, <1>17, <1>18 DEF DecoderSound
<1>20. QED
  BY <1>11, <1>13, <1>19

\* A window takes what the decoder has kept.
LEMMA FilledSound ==
  ASSUME StreamInv, entry # Nothing, streamRead.at = "decoding", NEW d \in StreamDecoder,
         DecoderSound(entry, windowStart, d),
         ~entry.damaged \/ windowStart + Len(d.bytes) < EntrySize, Stream!Filled(d.bytes)
  PROVE  StreamInv'
<1>1. PICK e \in StreamEntry, r \in StreamRead, p \in 0..EntrySize, start \in 0..EntrySize, w \in Seq(Int) :
         /\ e = entry /\ r = streamRead /\ p = position /\ start = windowStart /\ w = streamWindow
         /\ WindowSound(e, r, start, w) /\ ReadSound(e, r, start, p) /\ Len(w) \in Nat
  BY StreamIs
<1>2. d.bytes \in Seq(Int) /\ d.remaining \in Nat /\ Len(d.bytes) \in Nat
  BY LenProperties DEF StreamDecoder
<1>3. PICK s : s = [r EXCEPT !.at = "copying"]
  OBVIOUS
<1>4. s \in StreamRead /\ s.at = "copying" /\ s.from = r.from /\ s.size = r.size /\ s.got = r.got
  BY <1>3 DEF StreamRead
<1>5. /\ streamRead' = s /\ streamWindow' = d.bytes /\ decoder' = Stream!NoDecoder
      /\ UNCHANGED <<entry, position, windowStart, failed>>
  BY <1>1, <1>3 DEF Stream!Filled
<1>6. /\ e.large => Len(d.bytes) <= WindowSize
      /\ ~e.large => start = 0
      /\ d.bytes = Stream!Places(start, Len(d.bytes))
      /\ start + Len(d.bytes) >= EntrySize => ~e.damaged
  <2>1. e.large => Len(d.bytes) + d.remaining <= WindowSize
    BY <1>1 DEF DecoderSound
  <2>2. e.large => Len(d.bytes) <= WindowSize
    BY <1>2, <2>1, StreamConstants
  <2>3. (~e.large => start = 0) /\ d.bytes = Stream!Places(start, Len(d.bytes))
    BY <1>1 DEF DecoderSound, WindowSound
  <2>4. start + Len(d.bytes) >= EntrySize => ~e.damaged
    BY <1>1, <1>2, StreamConstants
  <2>5. QED
    BY <2>2, <2>3, <2>4
<1>7. WindowSound(e, s, start, d.bytes)'
  BY <1>6 DEF WindowSound
<1>8. ReadSound(e, s, start, p)'
  BY <1>1, <1>4, <1>5 DEF ReadSound
<1>9. failed' \in BOOLEAN
  BY <1>5 DEF StreamInv, StreamTyped
<1>10. QED
  BY <1>1, <1>2, <1>4, <1>5, <1>7, <1>8, <1>9, StreamTurn

LEMMA WriteStep ==
  ASSUME StreamInv, NEW n \in 1..WriteSize, Stream!Write(n)
  PROVE  StreamInv'
<1>1. entry # Nothing /\ streamRead.at = "decoding" /\ n \in Nat \ {0}
  BY StreamConstants DEF StreamInv, StreamUnused, Stream!Write
<1>2. PICK e \in StreamEntry, r \in StreamRead, p \in 0..EntrySize, start \in 0..EntrySize, w \in Seq(Int) :
         /\ e = entry /\ r = streamRead /\ p = position /\ start = windowStart /\ w = streamWindow
         /\ WindowSound(e, r, start, w) /\ ReadSound(e, r, start, p) /\ Len(w) \in Nat
  BY <1>1, StreamIs
<1>3. decoder \in StreamDecoder /\ DecoderSound(e, start, decoder) /\ start \in Nat
  BY <1>1, <1>2, StreamConstants DEF StreamInv, StreamTyped
<1>4. PICK c : c = Stream!Written(n)
  OBVIOUS
<1>5. c \in StreamDecoder /\ DecoderSound(e, start, c) /\ c.stopAfterRange = decoder.stopAfterRange
  BY <1>1, <1>3, <1>4, WrittenSound
<1>6. CASE Stream!Aborts(n)
  <2>1. Stream!Filled(c.bytes) /\ c.remaining = 0 /\ c.stopAfterRange
    BY <1>4, <1>5, <1>6 DEF Stream!Write, Stream!Aborts
  <2>2. start + Len(c.bytes) + c.remaining < EntrySize /\ Len(c.bytes) \in Nat
    BY <1>5, <2>1, LenProperties DEF DecoderSound, StreamDecoder
  <2>3. start + Len(c.bytes) < EntrySize
    BY <2>1, <2>2
  <2>4. QED
    BY <1>1, <1>2, <1>5, <2>1, <2>3, FilledSound
<1>7. CASE ~Stream!Aborts(n)
  <2>1. decoder' = c /\ UNCHANGED <<entry, position, windowStart, streamWindow, streamRead, failed>>
    BY <1>4, <1>7 DEF Stream!Write
  <2>2. StreamTyped'
    BY <1>5, <2>1 DEF StreamInv, StreamTyped
  <2>3. WindowSound(e, r, start, w)' /\ ReadSound(e, r, start, p)'
    BY <1>2, <2>1 DEF WindowSound, ReadSound
  <2>4. /\ entry' = e /\ windowStart' = start /\ streamRead' = r /\ position' = p /\ streamWindow' = w
        /\ r.at = "decoding" /\ e # Nothing
    BY <1>1, <1>2, <2>1
  <2>5. DecoderSound(entry, windowStart, decoder)'
    BY <1>5, <2>1, <2>4 DEF DecoderSound
  <2>6. QED
    BY <1>1, <1>5, <2>1, <2>2, <2>3, <2>4, <2>5 DEF StreamInv, WindowSound, ReadSound
<1>8. QED
  BY <1>6, <1>7

LEMMA CompleteStep ==
  ASSUME StreamInv, Stream!Complete
  PROVE  StreamInv'
<1>1. entry # Nothing /\ streamRead.at = "decoding" /\ ~entry.damaged /\ Stream!Filled(decoder.bytes)
  BY DEF StreamInv, StreamUnused, Stream!Complete
<1>2. PICK d \in StreamDecoder : d = decoder
  BY DEF StreamInv, StreamTyped
<1>3. DecoderSound(entry, windowStart, d) /\ Stream!Filled(d.bytes)
  BY <1>1, <1>2 DEF StreamInv
<1>4. QED
  BY <1>1, <1>3, FilledSound

\* A part of a window, which may be empty.
LEMMA PartOfWindow ==
  ASSUME NEW w \in Seq(Int), NEW from \in Nat, NEW n \in Nat, n = 0 \/ from + n <= Len(w)
  PROVE  SubSeq(w, from + 1, from + n) \in Seq(Int) /\ Len(SubSeq(w, from + 1, from + n)) = n
<1>1. Len(w) \in Nat /\ \A i \in 1..Len(w) : w[i] \in Int
  BY LenProperties, ElementOfSeq
<1>2. PICK first \in Int, last \in Int : first = from + 1 /\ last = from + n
  OBVIOUS
<1>3. \A i \in first..last : i \in 1..Len(w)
  BY <1>1, <1>2
<1>4. \A i \in first..last : w[i] \in Int
  BY <1>1, <1>3
<1>5. SubSeq(w, first, last) \in Seq(Int)
      /\ Len(SubSeq(w, first, last)) = IF first <= last THEN last - first + 1 ELSE 0
  BY <1>4, SubSeqProperties
<1>6. (IF first <= last THEN last - first + 1 ELSE 0) = n
  BY <1>2
<1>7. QED
  BY <1>2, <1>5, <1>6

\* Bytes go from the window to the reader, from its position on.
LEMMA CopyStep ==
  ASSUME StreamInv, Stream!Copy
  PROVE  StreamInv'
<1>1. entry # Nothing
  BY DEF StreamInv, StreamUnused, Stream!Copy
<1>2. PICK e \in StreamEntry, r \in StreamRead, p \in 0..EntrySize, start \in 0..EntrySize, w \in Seq(Int) :
         /\ e = entry /\ r = streamRead /\ p = position /\ start = windowStart /\ w = streamWindow
         /\ WindowSound(e, r, start, w) /\ ReadSound(e, r, start, p) /\ Len(w) \in Nat
  BY <1>1, StreamIs
<1>3. PICK got \in Seq(Int), from \in Nat, size \in Nat, had \in Nat, len \in Nat :
        r.got = got /\ r.from = from /\ r.size = size /\ Len(got) = had /\ Len(w) = len /\ had <= size
  BY <1>2, LenProperties DEF StreamRead, ReadSound
<1>4. /\ UNCHANGED <<entry, windowStart, streamWindow, decoder, failed>>
      /\ r.at \in {"copying", "reading"} /\ r.at # "decoding" /\ r.at # "done" /\ decoder = Stream!NoDecoder
  BY <1>2 DEF Stream!Copy, StreamInv
<1>5. p < EntrySize /\ start <= p
  <2>1. CASE r.at = "copying"
    BY <1>2, <2>1 DEF ReadSound
  <2>2. CASE r.at = "reading"
    <3>1. position < EntrySize /\ ~Stream!Missed
      BY <1>2, <2>2 DEF Stream!Copy
    <3>2. p < EntrySize
      BY <1>2, <3>1
    <3>3. e.large => start <= p
      BY <1>2, <3>1 DEF Stream!Missed
    <3>4. ~e.large => start <= p
      BY <1>2, StreamConstants DEF WindowSound
    <3>5. QED
      BY <3>2, <3>3, <3>4
  <2>3. QED
    BY <1>4, <2>1, <2>2
<1>6. PICK kept \in Int, ahead \in Nat : kept = len - (p - start) /\ ahead = p - start
  BY <1>5, StreamConstants
<1>7. PICK n : n = Stream!Min({size - had, EntrySize - p, IF kept > 0 THEN kept ELSE 0})
  OBVIOUS
<1>8. n \in Nat /\ n <= size - had /\ n <= EntrySize - p /\ (n = 0 \/ ahead + n <= len)
  <2>1. PICK a \in Nat, b \in Nat, c \in Nat :
          a = size - had /\ b = EntrySize - p /\ c = IF kept > 0 THEN kept ELSE 0
    BY <1>3, <1>5, StreamConstants
  <2>2. n \in {a, b, c} /\ n <= a /\ n <= b /\ n <= c
    <3>1. n = Stream!Min({a, b, c})
      BY <1>7, <2>1
    <3>2. a \in Int /\ b \in Int /\ c \in Int
      OBVIOUS
    <3>3. QED
      BY <3>1, <3>2, LeastOfThree
  <2>3. n \in Nat
    BY <2>2
  <2>4. n <= size - had /\ n <= EntrySize - p
    BY <2>1, <2>2
  <2>5. n = 0 \/ ahead + n <= len
    BY <1>6, <2>1, <2>2, <2>3
  <2>6. QED
    BY <2>3, <2>4, <2>5
<1>9. PICK more : more = SubSeq(w, ahead + 1, ahead + n)
  OBVIOUS
<1>10. more \in Seq(Int) /\ Len(more) = n
  BY <1>3, <1>8, <1>9, PartOfWindow
<1>11. PICK whole : whole = got \o more
  OBVIOUS
<1>12. whole \in Seq(Int) /\ Len(whole) = had + n
  <2>1. Len(got) = had
    BY <1>3
  <2>2. got \o more \in Seq(Int) /\ Len(got \o more) = Len(got) + Len(more)
    BY <1>10, ConcatProperties
  <2>3. QED
    BY <1>10, <1>11, <2>1, <2>2
<1>13. PICK next, s : /\ next \in {"done", "reading"} /\ next = IF n = 0 THEN "done" ELSE "reading"
                      /\ s = [r EXCEPT !.at = next, !.got = whole]
  OBVIOUS
<1>14. s \in StreamRead /\ s.at = next /\ s.from = from /\ s.size = size /\ s.got = whole
  BY <1>3, <1>12, <1>13 DEF StreamRead
<1>15. PICK q \in 0..EntrySize : q = p + n
  BY <1>5, <1>8, StreamConstants
<1>16. position' = q /\ streamRead' = s
  <2>1. Stream!Wanted = size - had
    BY <1>2, <1>3 DEF Stream!Wanted
  <2>2. n = Stream!Min({Stream!Wanted, EntrySize - position,
              IF Len(streamWindow) - (position - windowStart) > 0
              THEN Len(streamWindow) - (position - windowStart) ELSE 0})
    BY <1>2, <1>3, <1>6, <1>7, <2>1
  <2>3. position' = position + n
    BY <2>2 DEF Stream!Copy
  <2>4. streamRead' = [streamRead EXCEPT !.at = IF n = 0 THEN "done" ELSE "reading", !.got =
           @ \o SubSeq(streamWindow, position - windowStart + 1, position - windowStart + n)]
    BY <2>2 DEF Stream!Copy
  <2>5. QED
    BY <1>2, <1>3, <1>6, <1>9, <1>11, <1>13, <1>15, <2>3, <2>4
<1>17. p = from + had
  BY <1>2, <1>3, <1>4 DEF ReadSound
<1>18. q = from + (had + n) /\ had + n <= size
  BY <1>3, <1>8, <1>15, <1>17
<1>19. ASSUME ~failed PROVE whole = Stream!Places(from, had + n)
  <2>1. got = Stream!Places(from, had) /\ w = Stream!Places(start, len)
    BY <1>2, <1>3, <1>4, <1>19 DEF ReadSound, WindowSound
  <2>2. more = Stream!Places(p, n)
    <3>1. CASE n = 0
      BY <1>10, <3>1, EmptySeq, PlacesAre
    <3>2. CASE ahead + n <= len
      <4>1. SubSeq(Stream!Places(start, len), p - start + 1, p - start + n) = Stream!Places(p, n)
        <5>1. start \in Int /\ p \in Int /\ start <= p /\ p - start + n <= len
          BY <1>5, <1>6, <3>2
        <5>2. QED
          BY <1>8, <5>1, PlacesPart
      <4>2. QED
        BY <1>6, <1>9, <2>1, <4>1
    <3>3. QED
      BY <1>8, <3>1, <3>2
  <2>3. Stream!Places(from, had) \o Stream!Places(p, n) = Stream!Places(from, had + n)
    <3>1. from \in Int /\ p \in Int /\ had \in Nat /\ n \in Nat /\ (p = from + had \/ n = 0)
      BY <1>3, <1>8, <1>17
    <3>2. QED
      BY <3>1, PlacesJoin, ZenonT(60)
  <2>4. QED
    BY <1>11, <2>1, <2>2, <2>3
<1>20. ASSUME ~failed, q = EntrySize PROVE ~e.damaged
  <2>1. n # 0
    BY <1>5, <1>15, <1>20
  <2>2. start + len >= EntrySize /\ len # 0
    BY <1>6, <1>8, <1>15, <1>20, <2>1, StreamConstants
  <2>3. w # <<>>
    BY <1>3, <2>2, EmptySeq
  <2>4. QED
    BY <1>2, <1>3, <1>4, <1>20, <2>2, <2>3 DEF WindowSound
<1>21. WindowSound(e, s, start, w)'
  BY <1>2, <1>4 DEF WindowSound
<1>22. ReadSound(e, s, start, q)'
  <2>1. Len(s.got) <= s.size /\ q = s.from + Len(s.got)
    BY <1>12, <1>14, <1>18
  <2>2. s.at \notin {"decoding", "copying"}
    BY <1>13, <1>14
  <2>3. ~failed => s.got = Stream!Places(s.from, Len(s.got))
    BY <1>12, <1>14, <1>19
  <2>4. ~failed /\ s.from + Len(s.got) = EntrySize => ~e.damaged
    BY <1>20, <2>1
  <2>5. QED
    BY <1>4, <2>1, <2>2, <2>3, <2>4 DEF ReadSound
<1>23. failed' \in BOOLEAN
  BY <1>4 DEF StreamInv, StreamTyped
<1>24. QED
  <2>1. /\ entry' = entry /\ windowStart' = start /\ streamWindow' = w /\ decoder' = Stream!NoDecoder
        /\ s.at # "decoding"
    BY <1>2, <1>4, <1>13, <1>14
  <2>2. QED
    BY <1>1, <1>2, <1>14, <1>15, <1>16, <1>21, <1>22, <1>23, <2>1, StreamTurn

LEMMA StreamStep ==
  ASSUME StreamInv, Stream!Next
  PROVE  StreamInv'
<1>1. CASE Stream!Decode
  BY <1>1, DecodeStep
<1>2. CASE Stream!Complete
  BY <1>2, CompleteStep
<1>3. CASE Stream!Copy
  BY <1>3, CopyStep
<1>4. CASE \E n \in 1..WriteSize : Stream!Write(n)
  BY <1>4, WriteStep
<1>5. ASSUME ~Stream!Decode, ~Stream!Complete, ~Stream!Copy, ~(\E n \in 1..WriteSize : Stream!Write(n))
      PROVE  StreamInv'
  BY <1>5, QuietStream DEF Stream!Next
<1>6. QED
  BY <1>1, <1>2, <1>3, <1>4, <1>5

LEMMA StreamStays ==
  ASSUME StreamInv, UNCHANGED StreamVars
  PROVE  StreamInv'
<1>1. UNCHANGED <<entry, position, windowStart, streamWindow, streamRead, decoder, failed>>
  BY DEF StreamVars
<1>2. QED
  BY <1>1 DEF StreamInv, StreamTyped, StreamUnused, WindowSound, ReadSound, DecoderSound

\* What is kept in the invariant is what is said of the stream.
LEMMA StreamRight == StreamInv => Stream!TypeOK /\ Stream!ReadsRight /\ Stream!EndMeansWhole
<1> SUFFICES ASSUME StreamInv PROVE Stream!TypeOK /\ Stream!ReadsRight /\ Stream!EndMeansWhole
  OBVIOUS
<1>1. StreamTyped
  BY DEF StreamInv
<1>2. CASE entry = Nothing
  <2>1. StreamUnused /\ Len(<<>>) = 0 /\ streamRead \in StreamRead
    BY <1>1, <1>2, EmptySeq DEF StreamInv, StreamTyped
  <2>2. streamRead.from \in Int /\ streamRead.size \in Nat
    BY <2>1 DEF StreamRead
  <2>3. Stream!TypeOK
    BY <1>1, <1>2, <2>1, <2>2 DEF StreamTyped, StreamUnused, Stream!TypeOK
  <2>4. Stream!ReadsRight
    BY <2>1, <2>2, PlacesAre DEF StreamUnused, Stream!ReadsRight, Stream!Right
  <2>5. Stream!EndMeansWhole
    BY <2>1 DEF StreamUnused, Stream!EndMeansWhole
  <2>6. QED
    BY <2>3, <2>4, <2>5
<1>3. CASE entry # Nothing
  <2>1. PICK e \in StreamEntry, r \in StreamRead, p \in 0..EntrySize, start \in 0..EntrySize, w \in Seq(Int) :
           /\ e = entry /\ r = streamRead /\ p = position /\ start = windowStart /\ w = streamWindow
           /\ WindowSound(e, r, start, w) /\ ReadSound(e, r, start, p) /\ Len(w) \in Nat
    BY <1>3, StreamIs
  <2>2. e.large => Len(decoder.bytes) <= WindowSize
    <3>1. CASE r.at = "decoding"
      <4>1. PICK d \in StreamDecoder : d = decoder /\ DecoderSound(e, start, d)
        BY <1>1, <2>1, <3>1 DEF StreamInv, StreamTyped
      <4>2. Len(d.bytes) \in Nat /\ d.remaining \in Nat /\ (e.large => Len(d.bytes) + d.remaining <= WindowSize)
        BY <4>1, LenProperties DEF DecoderSound, StreamDecoder
      <4>3. QED
        BY <4>1, <4>2, StreamConstants
    <3>2. CASE r.at # "decoding"
      BY <2>1, <3>2, EmptySeq, StreamConstants DEF StreamInv, Stream!NoDecoder
    <3>3. QED
      BY <3>1, <3>2
  <2>3. e.large => Len(w) <= WindowSize
    BY <2>1 DEF WindowSound
  <2>4. r.at \in {"done", "reading", "decoding", "copying"} /\ Len(r.got) <= r.size
    BY <2>1 DEF StreamRead, ReadSound
  <2>5. e \in Stream!Entry
    BY DEF StreamEntry, Stream!Entry
  <2>6. Stream!TypeOK
    BY <1>1, <2>1, <2>2, <2>3, <2>4, <2>5 DEF StreamTyped, Stream!TypeOK
  <2>7. Stream!ReadsRight
    BY <2>1 DEF ReadSound, Stream!ReadsRight, Stream!Right
  <2>8. Stream!EndMeansWhole
    BY <2>1 DEF ReadSound, Stream!EndMeansWhole
  <2>9. QED
    BY <2>6, <2>7, <2>8
<1>4. QED
  BY <1>2, <1>3

-----------------------------------------------------------------------------
(***************************************************************************)
(* Listings.                                                               *)
(***************************************************************************)
ListedItem == [path : Listing!Path, directory : BOOLEAN]
TreeItem == [directory : BOOLEAN, reported : BOOLEAN]
ListingHandle ==
  [folder : {Nothing, <<>>} \cup Listing!Path, entries : Seq(ListedNames), cursor : Nat,
   pattern : {ListedNames, ShortNames}]
ListingCall ==
  [kind : {"none", "query", "find"}, room : Int, single : BOOLEAN, any : BOOLEAN,
   status : {"none", "calling", "some", "overflow", "no more"}]
ListingSeen == [names : Seq(ListedNames), from : Nat]

\* The tree is finite and holds, with a path, the paths above it.
TreeSound(t) ==
  /\ IsFiniteSet(DOMAIN t) /\ t \in [DOMAIN t -> TreeItem]
  /\ \A q \in DOMAIN t : q \in Listing!Path /\ \A n \in 1..Len(q) : SubSeq(q, 1, n) \in DOMAIN t

\* A reported path is in the tree, as the first item of that path has it.
FirstOf(all, p, i) == all[i].path = p /\ \A k \in 1..(i - 1) : all[k].path # p
ItemsSound(t, all) ==
  /\ all \in Seq(ListedItem)
  /\ \A i \in 1..Len(all) : all[i].path \in DOMAIN t /\ t[all[i].path].reported
  /\ \A p \in DOMAIN t : t[p].reported =>
       \E i \in 1..Len(all) : FirstOf(all, p, i) /\ t[p].directory = all[i].directory

\* What the caller has been given is what matches, up to the cursor.
GivenBy(h, s, place) ==
  /\ \A i, j \in 1..Len(s.names) : i < j => place[i] < place[j]
  /\ \A i \in 1..Len(s.names) : s.names[i] = h.entries[place[i]]
  /\ \A k \in (s.from + 1)..h.cursor : h.entries[k] \in h.pattern <=> \E i \in 1..Len(s.names) : place[i] = k
CursorSound(h, s) ==
  /\ h \in ListingHandle /\ s \in ListingSeen
  /\ h.cursor <= Len(h.entries) /\ s.from <= h.cursor
  /\ \E place \in [1..Len(s.names) -> (s.from + 1)..h.cursor] : GivenBy(h, s, place)

ListingInv ==
  /\ TreeSound(tree) /\ ItemsSound(tree, items)
  /\ CursorSound(handle, listingSeen)
  /\ listingCall \in ListingCall
  /\ listingCall.status = "no more" => handle.cursor = Len(handle.entries)
  /\ handle.folder = Nothing => handle = Listing!NoHandle /\ listingCall.status = "none"

LEMMA SameCount == ASSUME NEW S PROVE Listing!Cardinality(S) = Cardinality(S)
BY DEF Listing!Cardinality, Cardinality

LEMMA Listable ==
  ASSUME NEW S, IsFiniteSet(S)
  PROVE  Listing!SetToSeq(S) \in Seq(S)
<1>1. Cardinality(S) \in Nat /\ ExistsBijection(1..Cardinality(S), S)
  BY FS_CardinalityType
<1>2. PICK f \in [1..Cardinality(S) -> S] : \A a, b \in 1..Cardinality(S) : f[a] = f[b] => a = b
  BY <1>1 DEF ExistsBijection, Bijection, Injection, IsInjective
<1>3. \E g \in [1..Listing!Cardinality(S) -> S] : Listing!IsInjective(g)
  BY <1>2, SameCount DEF Listing!IsInjective
<1>4. Listing!SetToSeq(S) \in [1..Cardinality(S) -> S]
  BY <1>3, SameCount DEF Listing!SetToSeq
<1>5. QED
  BY <1>1, <1>4, SeqDef

\* A path is not empty, and each path above it is one.
LEMMA PathFacts ==
  ASSUME NEW p \in Listing!Path
  PROVE  /\ p \in Seq(ListedNames) /\ Len(p) \in Nat \ {0}
         /\ SubSeq(p, 1, Len(p)) = p
         /\ \A n \in 1..Len(p) :
              /\ SubSeq(p, 1, n) \in Listing!Path /\ Len(SubSeq(p, 1, n)) = n
              /\ SubSeq(p, 1, n)[n] = p[n]
              /\ \A m \in 0..n : SubSeq(SubSeq(p, 1, n), 1, m) = SubSeq(p, 1, m)
<1>1. PathDepth \in Nat
  BY Instances DEF Listing!ListingAssumption
<1>2. PICK d \in 1..PathDepth : p \in [1..d -> ListedNames]
  BY DEF Listing!Path
<1>3. p \in Seq(ListedNames) /\ Len(p) = d
  <2>1. d \in Nat
    BY <1>1
  <2>2. p \in Seq(ListedNames)
    BY <1>2, <2>1, SeqDef
  <2>3. DOMAIN p = 1..d
    BY <1>2
  <2>4. Len(p) = d
    BY <2>1, <2>2, <2>3, LenProperties
  <2>5. QED
    BY <2>2, <2>4
<1>4. \A i \in 1..d : p[i] \in ListedNames
  BY <1>2
<1>5. ASSUME NEW n \in 0..d
      PROVE  /\ SubSeq(p, 1, n) \in Seq(ListedNames) /\ Len(SubSeq(p, 1, n)) = n
             /\ \A i \in 1..n : SubSeq(p, 1, n)[i] = p[i]
  <2>1. n \in Int /\ 1 \in Int /\ \A i \in 1..n : i \in 1..d
    BY <1>1
  <2>2. \A i \in 1..n : p[i] \in ListedNames
    BY <1>4, <2>1
  <2>3. /\ SubSeq(p, 1, n) \in Seq(ListedNames)
        /\ Len(SubSeq(p, 1, n)) = IF 1 <= n THEN n - 1 + 1 ELSE 0
        /\ \A i \in 1..(n - 1 + 1) : SubSeq(p, 1, n)[i] = p[1 + i - 1]
    BY <2>1, <2>2, SubSeqProperties
  <2>4. (IF 1 <= n THEN n - 1 + 1 ELSE 0) = n /\ n - 1 + 1 = n /\ \A i \in 1..n : 1 + i - 1 = i
    BY <1>1
  <2>5. QED
    BY <2>3, <2>4
<1>6. SubSeq(p, 1, d) = p
  <2>1. d \in 0..d
    BY <1>1
  <2>2. /\ SubSeq(p, 1, d) \in Seq(ListedNames) /\ Len(SubSeq(p, 1, d)) = d
        /\ \A i \in 1..d : SubSeq(p, 1, d)[i] = p[i]
    BY <1>5, <2>1
  <2>3. QED
    BY <1>3, <2>2, SeqEqual
<1>7. ASSUME NEW n \in 1..d
      PROVE  /\ SubSeq(p, 1, n) \in Listing!Path /\ Len(SubSeq(p, 1, n)) = n
             /\ SubSeq(p, 1, n)[n] = p[n]
             /\ \A m \in 0..n : SubSeq(SubSeq(p, 1, n), 1, m) = SubSeq(p, 1, m)
  <2>1. n \in 0..d /\ n \in 1..n /\ n \in 1..PathDepth
    BY <1>1
  <2>2. PICK q : q = SubSeq(p, 1, n)
    OBVIOUS
  <2>3. q \in Seq(ListedNames) /\ Len(q) = n /\ \A i \in 1..n : q[i] = p[i]
    BY <1>5, <2>1, <2>2
  <2>4. q \in [1..n -> ListedNames]
    BY <2>3, LenProperties
  <2>5. q \in Listing!Path
    BY <2>1, <2>4 DEF Listing!Path
  <2>6. ASSUME NEW m \in 0..n PROVE SubSeq(q, 1, m) = SubSeq(p, 1, m)
    <3>1. m \in 0..d /\ m \in Int /\ \A i \in 1..m : i \in 1..n /\ i \in 1..d
      BY <1>1
    <3>2. /\ SubSeq(p, 1, m) \in Seq(ListedNames) /\ Len(SubSeq(p, 1, m)) = m
          /\ \A i \in 1..m : SubSeq(p, 1, m)[i] = p[i]
      BY <1>5, <3>1
    <3>3. \A i \in 1..m : q[i] \in ListedNames
      BY <1>4, <2>3, <3>1
    <3>4. /\ SubSeq(q, 1, m) \in Seq(ListedNames)
          /\ Len(SubSeq(q, 1, m)) = IF 1 <= m THEN m - 1 + 1 ELSE 0
          /\ \A i \in 1..(m - 1 + 1) : SubSeq(q, 1, m)[i] = q[1 + i - 1]
      BY <3>1, <3>3, SubSeqProperties
    <3>5. (IF 1 <= m THEN m - 1 + 1 ELSE 0) = m /\ m - 1 + 1 = m /\ \A i \in 1..m : 1 + i - 1 = i
      BY <1>1
    <3>6. Len(SubSeq(q, 1, m)) = m /\ \A i \in 1..m : SubSeq(q, 1, m)[i] = q[i]
      BY <3>4, <3>5
    <3>7. \A i \in 1..m : SubSeq(q, 1, m)[i] = SubSeq(p, 1, m)[i]
      BY <2>3, <3>1, <3>2, <3>6
    <3>8. QED
      BY <3>2, <3>4, <3>6, <3>7, SeqEqual
  <2>7. QED
    BY <2>1, <2>2, <2>3, <2>5, <2>6
<1>8. d \in Nat \ {0}
  BY <1>1
<1>9. QED
  BY <1>3, <1>6, <1>7, <1>8

\* What a function gives of a finite set is finite.
LEMMA ImageFinite ==
  ASSUME NEW S, IsFiniteSet(S), NEW f, DOMAIN f = S, NEW T, T = {f[arg] : arg \in S}
  PROVE  IsFiniteSet(T)
<1>1. PICK g : g = [arg \in S |-> f[arg]]
  OBVIOUS
<1>2. g \in [S -> T] /\ \A y \in T : \E arg \in S : g[arg] = y
  BY <1>1
<1>3. g \in Surjection(S, T)
  BY <1>2 DEF Surjection
<1>4. QED
  BY <1>3, FS_Surjection

LEMMA ParentsFinite ==
  ASSUME NEW p \in Listing!Path
  PROVE  /\ IsFiniteSet(Listing!Parents(p))
         /\ \A q \in Listing!Parents(p) : \E n \in 1..(Len(p) - 1) : q = SubSeq(p, 1, n)
         /\ \A n \in 1..(Len(p) - 1) : SubSeq(p, 1, n) \in Listing!Parents(p)
<1>1. Len(p) - 1 \in Int
  BY PathFacts
<1>2. IsFiniteSet(1..(Len(p) - 1))
  BY <1>1, FS_Interval
<1>3. PICK f : f = [n \in 1..(Len(p) - 1) |-> SubSeq(p, 1, n)]
  OBVIOUS
<1>4. DOMAIN f = 1..(Len(p) - 1) /\ Listing!Parents(p) = {f[n] : n \in 1..(Len(p) - 1)}
  BY <1>3 DEF Listing!Parents
<1>5. IsFiniteSet(Listing!Parents(p))
  BY <1>2, <1>4, ImageFinite
<1>6. QED
  BY <1>5 DEF Listing!Parents

\* The children of a folder are names, and there are only so many.
LEMMA ChildrenAre ==
  ASSUME TreeSound(tree), NEW p
  PROVE  /\ IsFiniteSet(Listing!Children(p)) /\ Listing!Children(p) \subseteq ListedNames
         /\ \A q \in DOMAIN tree : SubSeq(q, 1, Len(q) - 1) = p => q[Len(q)] \in Listing!Children(p)
<1>1. PICK S : S = {c \in DOMAIN tree : Listing!Front(c) = p}
  OBVIOUS
<1>2. IsFiniteSet(S) /\ S \subseteq DOMAIN tree
  <2>1. IsFiniteSet(DOMAIN tree) /\ S \in SUBSET DOMAIN tree
    BY <1>1 DEF TreeSound
  <2>2. QED
    BY <2>1, FS_Subset
<1>3. PICK f : f = [q \in S |-> Listing!Last(q)]
  OBVIOUS
<1>4. DOMAIN f = S /\ Listing!Children(p) = {f[q] : q \in S}
  BY <1>1, <1>3 DEF Listing!Children
<1>5. IsFiniteSet(Listing!Children(p))
  BY <1>2, <1>4, ImageFinite
<1>6. ASSUME NEW q \in DOMAIN tree PROVE q[Len(q)] \in ListedNames
  <2>1. q \in Listing!Path
    BY <1>6 DEF TreeSound
  <2>2. q \in Seq(ListedNames) /\ Len(q) \in 1..Len(q)
    BY <2>1, PathFacts
  <2>3. QED
    BY <2>2, ElementOfSeq
<1>7. Listing!Children(p) = {q[Len(q)] : q \in S}
  BY <1>1 DEF Listing!Children, Listing!Last
<1>8. \A q \in S : q[Len(q)] \in ListedNames
  BY <1>2, <1>6
<1>9. \A q \in DOMAIN tree : SubSeq(q, 1, Len(q) - 1) = p => q \in S
  BY <1>1 DEF Listing!Front
<1>10. QED
  BY <1>5, <1>7, <1>8, <1>9

\* The tree with one more item.
Kept(t, p) == p \in DOMAIN t /\ t[p].reported
GrownTree(t, p, item, made) ==
  [q \in DOMAIN t \cup {p} \cup Listing!Parents(p) |->
     IF q = p /\ ~Kept(t, p) THEN item ELSE IF q \in DOMAIN t THEN t[q] ELSE made]

Grown(t, p, item, made, u) ==
  /\ DOMAIN t \subseteq DOMAIN u /\ p \in DOMAIN u
  /\ u[p] = IF Kept(t, p) THEN t[p] ELSE item
  /\ \A q \in DOMAIN t : q # p => u[q] = t[q]
  /\ \A q \in DOMAIN u : q # p /\ q \notin DOMAIN t => u[q] = made

LEMMA GrownSound ==
  ASSUME NEW t, TreeSound(t), NEW p \in Listing!Path, NEW item \in TreeItem, NEW made \in TreeItem,
         NEW u, u = GrownTree(t, p, item, made)
  PROVE  TreeSound(u) /\ Grown(t, p, item, made, u)
<1>1. DOMAIN u = DOMAIN t \cup {p} \cup Listing!Parents(p)
  BY DEF GrownTree
<1>2. \A q \in DOMAIN u : u[q] = IF q = p /\ ~Kept(t, p) THEN item ELSE IF q \in DOMAIN t THEN t[q] ELSE made
  BY DEF GrownTree
<1>3. IsFiniteSet(DOMAIN u)
  <2>1. IsFiniteSet(DOMAIN t)
    BY DEF TreeSound
  <2>2. IsFiniteSet(DOMAIN t \cup {p})
    BY <2>1, FS_AddElement
  <2>3. IsFiniteSet(Listing!Parents(p))
    BY ParentsFinite
  <2>4. QED
    BY <1>1, <2>2, <2>3, FS_Union
<1>4. \A q \in DOMAIN t : t[q] \in TreeItem
  BY DEF TreeSound
<1>5. u \in [DOMAIN u -> TreeItem]
  <2>1. \A q \in DOMAIN u : u[q] \in TreeItem
    BY <1>2, <1>4 DEF Kept
  <2>2. u = [q \in DOMAIN u |-> u[q]]
    BY DEF GrownTree
  <2>3. QED
    BY <2>1, <2>2
<1>6. Len(p) \in Nat \ {0} /\ SubSeq(p, 1, Len(p)) = p
  BY PathFacts
<1>7. \A n \in 1..Len(p) : SubSeq(p, 1, n) \in DOMAIN u
  <2> SUFFICES ASSUME NEW n \in 1..Len(p) PROVE SubSeq(p, 1, n) \in DOMAIN u
    OBVIOUS
  <2>1. CASE n = Len(p)
    BY <1>1, <1>6, <2>1
  <2>2. CASE n # Len(p)
    <3>1. n \in 1..(Len(p) - 1)
      <4>1. PICK len \in Nat : len = Len(p)
        BY <1>6
      <4>2. n \in 1..len /\ n # len
        BY <2>2, <4>1
      <4>3. n \in 1..(len - 1)
        BY <4>2
      <4>4. QED
        BY <4>1, <4>3
    <3>2. QED
      BY <1>1, <3>1, ParentsFinite
  <2>3. QED
    BY <2>1, <2>2
<1>8. ASSUME NEW q \in DOMAIN u
      PROVE  q \in Listing!Path /\ \A n \in 1..Len(q) : SubSeq(q, 1, n) \in DOMAIN u
  <2>1. CASE q \in DOMAIN t
    BY <1>1, <2>1 DEF TreeSound
  <2>2. CASE q = p
    BY <1>7, <2>2
  <2>3. CASE q \in Listing!Parents(p)
    <3>1. PICK m \in 1..(Len(p) - 1) : q = SubSeq(p, 1, m)
      BY <2>3, ParentsFinite
    <3>2. m \in 1..Len(p)
      BY <1>6
    <3>3. q \in Listing!Path /\ Len(q) = m /\ \A k \in 0..m : SubSeq(q, 1, k) = SubSeq(p, 1, k)
      BY <3>1, <3>2, PathFacts
    <3>4. ASSUME NEW n \in 1..Len(q) PROVE SubSeq(q, 1, n) \in DOMAIN u
      <4>1. n \in 0..m /\ n \in 1..Len(p)
        BY <1>6, <3>2, <3>3
      <4>2. SubSeq(q, 1, n) = SubSeq(p, 1, n)
        BY <3>3, <4>1
      <4>3. QED
        BY <1>7, <4>1, <4>2
    <3>5. QED
      BY <3>3, <3>4
  <2>4. QED
    BY <1>1, <2>1, <2>2, <2>3
<1>9. TreeSound(u)
  BY <1>3, <1>5, <1>8 DEF TreeSound
<1>10. QED
  BY <1>1, <1>2, <1>9 DEF Kept, Grown

LEMMA ReportedSound ==
  ASSUME NEW t, NEW all, TreeSound(t), ItemsSound(t, all), NEW p \in Listing!Path,
         NEW item \in TreeItem, item.reported, NEW made \in TreeItem, ~made.reported,
         NEW new \in ListedItem, new.path = p, new.directory = item.directory,
         NEW u, u = GrownTree(t, p, item, made), NEW more, more = Append(all, new)
  PROVE  TreeSound(u) /\ ItemsSound(u, more)
<1>1. TreeSound(u) /\ Grown(t, p, item, made, u)
  BY GrownSound
<1>2. all \in Seq(ListedItem) /\ Len(all) \in Nat
  BY LenProperties DEF ItemsSound
<1>3. /\ more \in Seq(ListedItem) /\ Len(more) = Len(all) + 1
      /\ (\A i \in 1..Len(all) : more[i] = all[i]) /\ more[Len(all) + 1] = new
  BY <1>2, AppendProperties
<1>4. \A i \in 1..Len(more) : i \in 1..Len(all) \/ i = Len(all) + 1
  BY <1>2, <1>3
<1>5. \A i \in 1..Len(all) : i \in 1..Len(more) /\ \A k \in 1..(i - 1) : k \in 1..Len(all)
  BY <1>2, <1>3
<1>6. u[p].reported
  BY <1>1 DEF Kept, Grown
<1>7. ASSUME NEW i \in 1..Len(more) PROVE more[i].path \in DOMAIN u /\ u[more[i].path].reported
  <2>1. CASE more[i].path = p
    BY <1>1, <1>6, <2>1 DEF Grown
  <2>2. CASE more[i].path # p
    <3>1. i \in 1..Len(all) /\ more[i] = all[i]
      BY <1>3, <1>4, <2>2
    <3>2. all[i].path \in DOMAIN t /\ t[all[i].path].reported
      BY <3>1 DEF ItemsSound
    <3>3. QED
      BY <1>1, <2>2, <3>1, <3>2 DEF Grown
  <2>3. QED
    BY <2>1, <2>2
<1>8. ASSUME NEW q \in DOMAIN u, u[q].reported
       PROVE  \E i \in 1..Len(more) : FirstOf(more, q, i) /\ u[q].directory = more[i].directory
  <2>1. CASE q \in DOMAIN t /\ t[q].reported
    <3>1. PICK i \in 1..Len(all) : FirstOf(all, q, i) /\ t[q].directory = all[i].directory
      BY <2>1 DEF ItemsSound
    <3>2. u[q] = t[q]
      BY <1>1, <2>1 DEF Grown, Kept
    <3>3. FirstOf(more, q, i) /\ i \in 1..Len(more) /\ more[i] = all[i]
      BY <1>3, <1>5, <3>1 DEF FirstOf
    <3>4. QED
      BY <3>1, <3>2, <3>3
  <2>2. CASE ~(q \in DOMAIN t /\ t[q].reported)
    <3>1. q = p
      BY <1>1, <1>8, <2>2 DEF Grown
    <3>2. ~Kept(t, p) /\ u[q] = item
      BY <1>1, <2>2, <3>1 DEF Kept, Grown
    <3>3. \A k \in 1..Len(all) : all[k].path # p
      BY <2>2, <3>1 DEF ItemsSound
    <3>4. PICK i \in 1..Len(more) : i = Len(all) + 1 /\ \A k \in 1..(i - 1) : k \in 1..Len(all)
      BY <1>2, <1>3
    <3>5. \A k \in 1..(i - 1) : more[k].path # p
      BY <1>3, <3>3, <3>4
    <3>6. FirstOf(more, q, i)
      BY <1>3, <3>1, <3>4, <3>5 DEF FirstOf
    <3>7. u[q].directory = more[i].directory
      BY <1>3, <3>2, <3>4
    <3>8. QED
      BY <3>6, <3>7
  <2>3. QED
    BY <2>1, <2>2
<1>9. ItemsSound(u, more)
  BY <1>3, <1>7, <1>8 DEF ItemsSound
<1>10. QED
  BY <1>1, <1>9

\* A caller that has been given nothing, with the cursor where it was.
LEMMA NothingGiven ==
  ASSUME NEW h \in ListingHandle, NEW s \in ListingSeen, h.cursor <= Len(h.entries),
         s.from = h.cursor, s.names = <<>>
  PROVE  CursorSound(h, s)
<1>1. Len(s.names) = 0 /\ h.cursor \in Nat
  BY EmptySeq DEF ListingHandle
<1>2. 1..Len(s.names) = {} /\ (s.from + 1)..h.cursor = {}
  BY <1>1
<1>3. PICK place : place = [i \in {} |-> 0]
  OBVIOUS
<1>4. place \in [1..Len(s.names) -> (s.from + 1)..h.cursor]
  BY <1>2, <1>3
<1>5. GivenBy(h, s, place)
  BY <1>2 DEF GivenBy
<1>6. s.from <= h.cursor
  BY <1>1
<1>7. QED
  BY <1>4, <1>5, <1>6 DEF CursorSound

\* The cursor passes over an entry that does not match.
LEMMA SkipSound ==
  ASSUME NEW h \in ListingHandle, NEW s \in ListingSeen, CursorSound(h, s), h.cursor < Len(h.entries),
         h.entries[h.cursor + 1] \notin h.pattern, NEW g, g = [h EXCEPT !.cursor = @ + 1]
  PROVE  CursorSound(g, s)
<1>1. PICK c \in Nat, from \in Nat, n \in Nat :
        c = h.cursor /\ from = s.from /\ n = Len(s.names) /\ from <= c /\ Len(h.entries) \in Nat
  BY LenProperties DEF ListingHandle, ListingSeen, CursorSound
<1>2. /\ g \in ListingHandle /\ g.cursor = c + 1 /\ g.entries = h.entries /\ g.pattern = h.pattern
  BY <1>1 DEF ListingHandle
<1>3. PICK place \in [1..n -> (from + 1)..c] : GivenBy(h, s, place)
  BY <1>1 DEF CursorSound
<1>4. \A k \in (from + 1)..(c + 1) : k \in (from + 1)..c \/ k = c + 1
  BY <1>1
<1>5. /\ \A i \in 1..n : place[i] \in (from + 1)..c
      /\ (from + 1)..c \subseteq (from + 1)..(c + 1) /\ c + 1 \notin (from + 1)..c
  BY <1>1, <1>3
<1>6. place \in [1..n -> (from + 1)..(c + 1)]
  BY <1>3, <1>5
<1>7. /\ \A i, j \in 1..n : i < j => place[i] < place[j]
      /\ \A i \in 1..n : s.names[i] = g.entries[place[i]]
      /\ \A k \in (from + 1)..c : g.entries[k] \in g.pattern <=> \E i \in 1..n : place[i] = k
  BY <1>1, <1>2, <1>3 DEF GivenBy
<1>8. g.entries[c + 1] \notin g.pattern /\ ~(\E i \in 1..n : place[i] = c + 1)
  BY <1>1, <1>2, <1>5
<1>9. \A k \in (from + 1)..(c + 1) : g.entries[k] \in g.pattern <=> \E i \in 1..n : place[i] = k
  BY <1>4, <1>7, <1>8
<1>10. GivenBy(g, s, place)
  BY <1>1, <1>2, <1>7, <1>9 DEF GivenBy
<1>11. g.cursor <= Len(g.entries) /\ s.from <= g.cursor
  BY <1>1, <1>2
<1>12. QED
  BY <1>1, <1>2, <1>6, <1>10, <1>11 DEF CursorSound

\* The caller is given the entry at the cursor, which matches.
LEMMA ReturnSound ==
  ASSUME NEW h \in ListingHandle, NEW s \in ListingSeen, CursorSound(h, s), h.cursor < Len(h.entries),
         NEW name, name = h.entries[h.cursor + 1], name \in h.pattern,
         NEW g, g = [h EXCEPT !.cursor = @ + 1], NEW z, z = [s EXCEPT !.names = Append(@, name)]
  PROVE  CursorSound(g, z)
<1>1. PICK c \in Nat, from \in Nat, n \in Nat :
        c = h.cursor /\ from = s.from /\ n = Len(s.names) /\ from <= c /\ Len(h.entries) \in Nat
  BY LenProperties DEF ListingHandle, ListingSeen, CursorSound
<1>2. /\ g \in ListingHandle /\ g.cursor = c + 1 /\ g.entries = h.entries /\ g.pattern = h.pattern
  BY <1>1 DEF ListingHandle
<1>3. name \in ListedNames
  <2>1. h.entries \in Seq(ListedNames) /\ c + 1 \in 1..Len(h.entries)
    BY <1>1 DEF ListingHandle
  <2>2. QED
    BY <1>1, <2>1, ElementOfSeq
<1>4. s.names \in Seq(ListedNames)
  BY DEF ListingSeen
<1>5. PICK more \in Seq(ListedNames) : /\ more = Append(s.names, name) /\ Len(more) = n + 1
                                       /\ (\A i \in 1..n : more[i] = s.names[i]) /\ more[n + 1] = name
  <2>1. PICK more : more = Append(s.names, name)
    OBVIOUS
  <2>2. /\ more \in Seq(ListedNames) /\ Len(more) = Len(s.names) + 1
        /\ (\A i \in 1..Len(s.names) : more[i] = s.names[i]) /\ more[Len(s.names) + 1] = name
    BY <1>3, <1>4, <2>1, AppendProperties
  <2>3. QED
    BY <1>1, <2>1, <2>2
<1>6. z \in ListingSeen /\ z.names = more /\ z.from = from
  BY <1>1, <1>5 DEF ListingSeen
<1>7. PICK place \in [1..n -> (from + 1)..c] : GivenBy(h, s, place)
  BY <1>1 DEF CursorSound
<1>8. PICK next : next = [i \in 1..(n + 1) |-> IF i = n + 1 THEN c + 1 ELSE place[i]]
  OBVIOUS
<1>9. \A k \in (from + 1)..(c + 1) : k \in (from + 1)..c \/ k = c + 1
  BY <1>1
<1>10. \A i \in 1..(n + 1) : i \in 1..n \/ i = n + 1
  BY <1>1
<1>11. /\ \A i \in 1..n : i \in 1..(n + 1) /\ i # n + 1 /\ place[i] \in (from + 1)..c
       /\ (from + 1)..c \subseteq (from + 1)..(c + 1) /\ c + 1 \notin (from + 1)..c
       /\ c + 1 \in (from + 1)..(c + 1) /\ n + 1 \in 1..(n + 1)
       /\ \A k \in (from + 1)..c : k < c + 1
  BY <1>1, <1>7
<1>12. next[n + 1] = c + 1 /\ \A i \in 1..n : next[i] = place[i]
  BY <1>8, <1>11
<1>13. next \in [1..(n + 1) -> (from + 1)..(c + 1)]
  <2>1. \A i \in 1..(n + 1) : next[i] \in (from + 1)..(c + 1)
    BY <1>10, <1>11, <1>12
  <2>2. QED
    BY <1>8, <2>1
<1>14. /\ \A i, j \in 1..n : i < j => place[i] < place[j]
       /\ \A i \in 1..n : s.names[i] = g.entries[place[i]]
       /\ \A k \in (from + 1)..c : g.entries[k] \in g.pattern <=> \E i \in 1..n : place[i] = k
  BY <1>1, <1>2, <1>7 DEF GivenBy
<1>15. ASSUME NEW i \in 1..(n + 1), NEW j \in 1..(n + 1), i < j PROVE next[i] < next[j]
  <2>1. i \in 1..n
    BY <1>1, <1>15
  <2>2. CASE j = n + 1
    BY <1>11, <1>12, <2>1, <2>2
  <2>3. CASE j \in 1..n
    BY <1>12, <1>14, <1>15, <2>1, <2>3
  <2>4. QED
    BY <1>10, <2>2, <2>3
<1>16. \A i \in 1..(n + 1) : more[i] = g.entries[next[i]]
  <2> SUFFICES ASSUME NEW i \in 1..(n + 1) PROVE more[i] = g.entries[next[i]]
    OBVIOUS
  <2>1. CASE i \in 1..n
    BY <1>5, <1>12, <1>14, <2>1
  <2>2. CASE i = n + 1
    BY <1>1, <1>2, <1>5, <1>12, <2>2
  <2>3. QED
    BY <1>10, <2>1, <2>2
<1>17. \A k \in (from + 1)..(c + 1) : g.entries[k] \in g.pattern <=> \E i \in 1..(n + 1) : next[i] = k
  <2> SUFFICES ASSUME NEW k \in (from + 1)..(c + 1)
               PROVE  g.entries[k] \in g.pattern <=> \E i \in 1..(n + 1) : next[i] = k
    OBVIOUS
  <2>1. CASE k = c + 1
    BY <1>1, <1>2, <1>11, <1>12, <2>1
  <2>2. CASE k \in (from + 1)..c
    <3>1. g.entries[k] \in g.pattern <=> \E i \in 1..n : place[i] = k
      BY <1>14, <2>2
    <3>2. k # c + 1
      BY <1>11, <2>2
    <3>3. (\E i \in 1..n : place[i] = k) <=> \E i \in 1..(n + 1) : next[i] = k
      BY <1>10, <1>11, <1>12, <3>2
    <3>4. QED
      BY <3>1, <3>3
  <2>3. QED
    BY <1>9, <2>1, <2>2
<1>18. GivenBy(g, z, next)
  BY <1>2, <1>5, <1>6, <1>15, <1>16, <1>17 DEF GivenBy
<1>19. g.cursor <= Len(g.entries) /\ z.from <= g.cursor
  BY <1>1, <1>2, <1>6
<1>20. QED
  BY <1>2, <1>5, <1>6, <1>13, <1>18, <1>19 DEF CursorSound

-----------------------------------------------------------------------------
LEMMA ReturnedTyped == Listing!Returned \in ListingCall
BY DEF Listing!Returned, ListingCall

LEMMA ListingStart == Listing!Init => ListingInv
<1> SUFFICES ASSUME Listing!Init PROVE ListingInv
  OBVIOUS
<1>1. /\ items = <<>> /\ tree = [p \in {} |-> 0] /\ handle = Listing!NoHandle
      /\ listingCall = Listing!Returned /\ listingSeen = [names |-> <<>>, from |-> 0]
  BY DEF Listing!Init
<1>2. Len(<<>>) = 0 /\ <<>> \in Seq(ListedNames) /\ <<>> \in Seq(ListedItem)
  BY EmptySeq
<1>3. TreeSound(tree)
  <2>1. DOMAIN tree = {} /\ tree = [q \in DOMAIN tree |-> tree[q]]
    BY <1>1
  <2>2. IsFiniteSet(DOMAIN tree)
    BY <2>1, FS_EmptySet
  <2>3. tree \in [DOMAIN tree -> TreeItem]
    BY <2>1
  <2>4. QED
    BY <2>1, <2>2, <2>3 DEF TreeSound
<1>4. ItemsSound(tree, items)
  <2>1. DOMAIN tree = {}
    BY <1>1
  <2>2. \A i \in 1..0 : FALSE
    OBVIOUS
  <2>3. QED
    BY <1>1, <1>2, <2>1, <2>2 DEF ItemsSound
<1>5. /\ handle \in ListingHandle /\ handle.entries = <<>> /\ handle.cursor = 0
      /\ listingSeen \in ListingSeen /\ listingSeen.names = <<>> /\ listingSeen.from = 0
  BY <1>1, <1>2 DEF Listing!NoHandle, ListingHandle, ListingSeen
<1>6. CursorSound(handle, listingSeen)
  <2>1. /\ handle.cursor <= Len(handle.entries) /\ listingSeen.from <= handle.cursor
        /\ Len(listingSeen.names) = 0
    BY <1>2, <1>5
  <2>2. QED
    BY <1>2, <1>5, <2>1, NothingGiven
<1>7. listingCall \in ListingCall /\ listingCall.status = "none"
  BY <1>1, ReturnedTyped DEF Listing!Returned
<1>8. QED
  BY <1>1, <1>3, <1>4, <1>6, <1>7 DEF ListingInv

LEMMA NotLess == \A a, b \in Nat : ~(a < b) /\ a <= b => a = b
OBVIOUS

LEMMA ListingStep ==
  ASSUME ListingInv, Listing!Next
  PROVE  ListingInv'
<1>1. PICK h \in ListingHandle, s \in ListingSeen, c \in ListingCall :
        /\ h = handle /\ s = listingSeen /\ c = listingCall /\ CursorSound(h, s)
        /\ TreeSound(tree) /\ ItemsSound(tree, items)
        /\ c.status = "no more" => h.cursor = Len(h.entries)
        /\ h.folder = Nothing => h = Listing!NoHandle /\ c.status = "none"
  <2>1. /\ handle \in ListingHandle /\ listingSeen \in ListingSeen /\ listingCall \in ListingCall
        /\ CursorSound(handle, listingSeen)
    BY DEF ListingInv, CursorSound
  <2>2. /\ TreeSound(tree) /\ ItemsSound(tree, items)
        /\ listingCall.status = "no more" => handle.cursor = Len(handle.entries)
        /\ handle.folder = Nothing => handle = Listing!NoHandle /\ listingCall.status = "none"
    BY DEF ListingInv
  <2>3. QED
    BY <2>1, <2>2
<1>2. PICK cursor \in Nat, len \in Nat : cursor = h.cursor /\ len = Len(h.entries) /\ cursor <= len
  BY <1>1, LenProperties DEF CursorSound, ListingHandle
<1>3. ASSUME UNCHANGED <<items, tree>>, NEW g, handle' = g, NEW z, listingSeen' = z, CursorSound(g, z),
             NEW d \in ListingCall, listingCall' = d, d.status = "no more" => g.cursor = Len(g.entries), g.folder # Nothing
      PROVE  ListingInv'
  <2>1. TreeSound(tree)' /\ ItemsSound(tree, items)'
    BY <1>1, <1>3
  <2>2. CursorSound(handle, listingSeen)'
    BY <1>3
  <2>3. QED
    BY <1>3, <2>1, <2>2 DEF ListingInv
<1>4. ASSUME NEW p \in Listing!Path, NEW directory \in BOOLEAN, Listing!Report(p, directory)
      PROVE  ListingInv'
  <2>1. PICK t, all : t = tree /\ all = items
    OBVIOUS
  <2>2. PICK item, made, new : /\ item = [directory |-> directory, reported |-> TRUE]
                               /\ made = [directory |-> TRUE, reported |-> FALSE]
                               /\ new = [path |-> p, directory |-> directory]
    OBVIOUS
  <2>3. PICK u, more : u = GrownTree(t, p, item, made) /\ more = Append(all, new)
    OBVIOUS
  <2>4. tree' = u /\ items' = more /\ UNCHANGED <<handle, listingCall, listingSeen>>
    BY <1>4, <2>1, <2>2, <2>3 DEF Listing!Report, Listing!Indexed, GrownTree, Kept
  <2>5. TreeSound(t) /\ ItemsSound(t, all)
    BY <1>1, <2>1
  <2>6. TreeSound(u) /\ ItemsSound(u, more)
    <3>1. /\ item \in TreeItem /\ item.reported /\ made \in TreeItem /\ ~made.reported
          /\ new \in ListedItem /\ new.path = p /\ new.directory = item.directory
      BY <1>4, <2>2 DEF TreeItem, ListedItem
    <3>2. QED
      BY <2>3, <2>5, <3>1, ReportedSound
  <2>7. TreeSound(tree)' /\ ItemsSound(tree, items)'
    BY <2>4, <2>6
  <2>8. CursorSound(handle, listingSeen)'
    BY <1>1, <2>4
  <2>9. QED
    BY <1>1, <2>4, <2>7, <2>8 DEF ListingInv, Listing!NoHandle
<1>5. ASSUME NEW p \in {<<>>} \cup DOMAIN tree, Listing!Open(p)
      PROVE  ListingInv'
  <2>1. PICK names : names = Listing!SetToSeq(Listing!Children(p))
    OBVIOUS
  <2>2. names \in Seq(ListedNames)
    <3>1. IsFiniteSet(Listing!Children(p)) /\ Listing!Children(p) \subseteq ListedNames
      BY <1>1, ChildrenAre
    <3>2. QED
      BY <2>1, <3>1, Listable, SeqMonotonic
  <2>3. PICK g : g = [Listing!NoHandle EXCEPT !.folder = p, !.entries = names]
    OBVIOUS
  <2>4. p \in {Nothing, <<>>} \cup Listing!Path
    BY <1>1, <1>5 DEF TreeSound
  <2>5. g \in ListingHandle /\ g.cursor = 0 /\ g.entries = names
    BY <2>2, <2>3, <2>4 DEF Listing!NoHandle, ListingHandle
  <2>6. handle' = g /\ UNCHANGED <<items, tree, listingCall, listingSeen>> /\ h = Listing!NoHandle
    BY <1>1, <1>5, <2>1, <2>3 DEF Listing!Open
  <2>7. h.cursor = 0 /\ h.entries = <<>>
    BY <2>6 DEF Listing!NoHandle
  <2>8. s.from = 0 /\ s.names = <<>>
    <3>1. s.from \in Nat /\ s.names \in Seq(ListedNames) /\ Len(s.names) \in Nat
      BY <1>1, LenProperties DEF ListingSeen
    <3>2. s.from = 0
      BY <1>1, <2>7, <3>1 DEF CursorSound
    <3>3. PICK place \in [1..Len(s.names) -> (0 + 1)..0] : TRUE
      BY <1>1, <2>7, <3>2 DEF CursorSound
    <3>4. Len(s.names) = 0
      <4>1. SUFFICES ASSUME Len(s.names) # 0 PROVE FALSE
        OBVIOUS
      <4>2. 1 \in 1..Len(s.names)
        BY <3>1, <4>1
      <4>3. place[1] \in (0 + 1)..0
        BY <3>3, <4>2
      <4>4. QED
        BY <4>3
    <3>5. QED
      BY <3>1, <3>2, <3>4, EmptySeq
  <2>9. g.cursor <= Len(g.entries)
    BY <2>2, <2>5, LenProperties
  <2>10. CursorSound(g, s)
    BY <1>1, <2>5, <2>8, <2>9, NothingGiven
  <2>11. c.status = "none"
    BY <1>1, <2>6 DEF Listing!NoHandle
  <2>12. g.folder # Nothing
    <3>1. p # Nothing
      BY <1>1, <1>5, Instances DEF TreeSound, Listing!ListingAssumption
    <3>2. QED
      BY <2>3, <3>1 DEF Listing!NoHandle
  <2>13. QED
    BY <1>1, <1>3, <2>6, <2>10, <2>11, <2>12
<1>6. Listing!Returned \in ListingCall
  BY ReturnedTyped
<1>7. ASSUME NEW room \in Int, NEW single \in BOOLEAN, NEW restart \in BOOLEAN,
             NEW pattern \in {ListedNames, ShortNames}, Listing!Query(room, single, restart, pattern)
      PROVE  ListingInv'
  <2>1. PICK start \in Nat : start = (IF restart THEN 0 ELSE h.cursor) /\ start <= Len(h.entries)
    <3>1. \A start \in {0, cursor} : start \in Nat /\ start <= len
      BY <1>2
    <3>2. PICK start : start = IF restart THEN 0 ELSE cursor
      OBVIOUS
    <3>3. start \in {0, cursor}
      BY <3>2
    <3>4. QED
      BY <1>2, <3>1, <3>2, <3>3
  <2>2. PICK g, z, d : /\ g = [h EXCEPT !.cursor = start, !.pattern = pattern]
                       /\ z = [names |-> <<>>, from |-> start]
                       /\ d = [Listing!Returned EXCEPT !.kind = "query", !.room = room, !.single = single,
                                                       !.status = "calling"]
    OBVIOUS
  <2>3. /\ g \in ListingHandle /\ g.cursor = start /\ g.pattern = pattern
        /\ g.entries = h.entries /\ g.folder = h.folder
    BY <1>1, <2>2 DEF ListingHandle
  <2>4. z \in ListingSeen /\ z.names = <<>> /\ z.from = start
    BY <2>2, EmptySeq DEF ListingSeen
  <2>5. d \in ListingCall /\ d.status = "calling"
    BY <1>6, <2>2 DEF ListingCall
  <2>6. /\ handle' = g /\ listingCall' = d /\ UNCHANGED <<items, tree>> /\ h # Listing!NoHandle
        /\ IF restart \/ pattern # h.pattern THEN listingSeen' = z ELSE listingSeen' = s
    <3>1. handle' = g /\ UNCHANGED <<items, tree>> /\ h # Listing!NoHandle
      BY <1>1, <1>7, <2>1, <2>2 DEF Listing!Query, Listing!Ready
    <3>2. IF restart \/ pattern # h.pattern THEN listingSeen' = z ELSE listingSeen' = s
      BY <1>1, <1>7, <2>1, <2>2 DEF Listing!Query, Listing!Restarted
    <3>3. listingCall' = d
      BY <1>7, <2>2 DEF Listing!Query
    <3>4. QED
      BY <3>1, <3>2, <3>3
  <2>7. g.folder # Nothing
    BY <1>1, <2>3, <2>6
  <2>8. CursorSound(g, z)
    BY <1>1, <2>1, <2>3, <2>4, NothingGiven
  <2>9. CASE restart \/ pattern # h.pattern
    BY <1>3, <2>5, <2>6, <2>7, <2>8, <2>9
  <2>10. CASE ~(restart \/ pattern # h.pattern)
    <3>1. start = h.cursor /\ g.pattern = h.pattern /\ listingSeen' = s
      BY <2>1, <2>3, <2>6, <2>10
    <3>2. CursorSound(g, s)
      <4>1. PICK place \in [1..Len(s.names) -> (s.from + 1)..h.cursor] : GivenBy(h, s, place)
        BY <1>1 DEF CursorSound
      <4>2. GivenBy(g, s, place)
        BY <2>3, <3>1, <4>1 DEF GivenBy
      <4>3. g.cursor = h.cursor /\ g.entries = h.entries
        BY <2>3, <3>1
      <4>4. QED
        BY <1>1, <2>3, <4>1, <4>2, <4>3 DEF CursorSound
    <3>3. QED
      BY <1>3, <2>5, <2>6, <2>7, <3>1, <3>2
  <2>11. QED
    BY <2>9, <2>10
<1>8. CASE Listing!FindNext
  <2>1. PICK d : d = [Listing!Returned EXCEPT !.kind = "find", !.status = "calling"]
    OBVIOUS
  <2>2. d \in ListingCall /\ d.status = "calling"
    BY <1>6, <2>1 DEF ListingCall
  <2>3. /\ listingCall' = d /\ UNCHANGED <<items, tree>> /\ handle' = h /\ listingSeen' = s
        /\ h # Listing!NoHandle
    BY <1>1, <1>8, <2>1 DEF Listing!FindNext, Listing!Ready
  <2>4. QED
    BY <1>1, <1>3, <2>2, <2>3
<1>9. ASSUME Listing!Calling PROVE h.folder # Nothing /\ c.status = "calling"
  BY <1>1, <1>9 DEF Listing!Calling
<1>10. CASE Listing!Skip
  <2>1. PICK g : g = [h EXCEPT !.cursor = @ + 1]
    OBVIOUS
  <2>2. /\ handle' = g /\ UNCHANGED <<items, tree>> /\ listingSeen' = s /\ listingCall' = c
        /\ h.cursor < Len(h.entries) /\ h.entries[h.cursor + 1] \notin h.pattern
    BY <1>1, <1>10, <2>1 DEF Listing!Skip, Listing!Rest, Listing!Matches, Listing!Entry
  <2>3. g.folder = h.folder
    BY <1>1, <2>1 DEF ListingHandle
  <2>4. CursorSound(g, s)
    BY <1>1, <2>1, <2>2, SkipSound
  <2>5. h.folder # Nothing /\ c.status = "calling"
    BY <1>9, <1>10 DEF Listing!Skip
  <2>6. QED
    BY <1>1, <1>3, <2>2, <2>3, <2>4, <2>5
<1>11. CASE Listing!Return
  <2>1. PICK name, g, z, d :
          /\ name = h.entries[h.cursor + 1]
          /\ g = [h EXCEPT !.cursor = @ + 1] /\ z = [s EXCEPT !.names = Append(@, name)]
          /\ d = IF c.kind = "find" \/ c.single THEN [c EXCEPT !.status = "some"]
                 ELSE [c EXCEPT !.any = TRUE, !.room = @ - Bytes(name)]
    OBVIOUS
  <2>2. /\ handle' = g /\ UNCHANGED <<items, tree>> /\ listingSeen' = z /\ listingCall' = d
        /\ h.cursor < Len(h.entries) /\ name \in h.pattern
    <3>1. name = Listing!Entry
      BY <1>1, <2>1 DEF Listing!Entry
    <3>2. /\ handle' = g /\ UNCHANGED <<items, tree>> /\ h.cursor < Len(h.entries)
          /\ Listing!Entry \in h.pattern
      BY <1>1, <1>11, <2>1 DEF Listing!Return, Listing!Rest, Listing!Matches
    <3>3. listingSeen' = z
      BY <1>1, <1>11, <2>1, <3>1 DEF Listing!Return
    <3>4. listingCall' = d
      BY <1>1, <1>11, <2>1, <3>1 DEF Listing!Return
    <3>5. QED
      BY <3>1, <3>2, <3>3, <3>4
  <2>3. name \in ListedNames
    <3>1. h.entries \in Seq(ListedNames)
      BY DEF ListingHandle
    <3>2. cursor < len
      BY <1>2, <2>2
    <3>3. cursor + 1 \in 1..Len(h.entries)
      BY <1>2, <3>2
    <3>4. QED
      BY <1>2, <2>1, <3>1, <3>3, ElementOfSeq
  <2>4. Bytes(name) \in Int
    BY <2>3, Instances DEF Listing!ListingAssumption
  <2>5. h.folder # Nothing /\ c.status = "calling"
    BY <1>9, <1>11 DEF Listing!Return
  <2>6. d \in ListingCall /\ d.status # "no more"
    <3>1. PICK room \in Int, bytes \in Int : room = c.room /\ bytes = Bytes(name) /\ room - bytes \in Int
      <4>1. c.room \in Int
        BY DEF ListingCall
      <4>2. \A a, e \in Int : a - e \in Int
        OBVIOUS
      <4>3. QED
        BY <2>4, <4>1, <4>2
    <3>2. CASE c.kind = "find" \/ c.single
      BY <1>1, <2>1, <3>2 DEF ListingCall
    <3>3. CASE ~(c.kind = "find" \/ c.single)
      BY <1>1, <2>1, <2>5, <3>1, <3>3 DEF ListingCall
    <3>4. QED
      BY <3>2, <3>3
  <2>7. g.folder = h.folder
    BY <1>1, <2>1 DEF ListingHandle
  <2>8. CursorSound(g, z)
    BY <1>1, <2>1, <2>2, ReturnSound
  <2>9. QED
    BY <1>3, <2>2, <2>5, <2>6, <2>7, <2>8
<1>12. ASSUME NEW status \in {"some", "overflow", "no more"}, Listing!Ended(status), Listing!Calling,
              UNCHANGED <<items, tree, handle, listingSeen>>,
              status = "no more" => h.cursor = Len(h.entries)
       PROVE  ListingInv'
  <2>1. PICK d : d = [c EXCEPT !.status = status]
    OBVIOUS
  <2>2. d \in ListingCall /\ d.status = status
    BY <1>1, <2>1 DEF ListingCall
  <2>3. listingCall' = d /\ handle' = h /\ listingSeen' = s
    BY <1>1, <1>12, <2>1 DEF Listing!Ended
  <2>4. QED
    BY <1>1, <1>3, <1>9, <1>12, <2>2, <2>3
<1>13. CASE Listing!Full
  <2>1. PICK status \in {"some", "overflow"} : status = IF listingCall.any THEN "some" ELSE "overflow"
    OBVIOUS
  <2>2. Listing!Ended(status) /\ Listing!Calling /\ UNCHANGED <<items, tree, handle, listingSeen>>
    BY <1>13, <2>1 DEF Listing!Full
  <2>3. QED
    BY <1>12, <2>2
<1>14. CASE Listing!Exhausted
  <2>1. PICK status \in {"some", "no more"} : status = IF listingCall.any THEN "some" ELSE "no more"
    OBVIOUS
  <2>2. Listing!Ended(status) /\ Listing!Calling /\ UNCHANGED <<items, tree, handle, listingSeen>>
    BY <1>14, <2>1 DEF Listing!Exhausted
  <2>3. h.cursor = Len(h.entries)
    <3>1. ~(cursor < len)
      BY <1>1, <1>2, <1>14 DEF Listing!Exhausted, Listing!Rest
    <3>2. cursor <= len
      BY <1>2
    <3>3. cursor = len
      <4>1. cursor \in Nat /\ len \in Nat
        BY <1>2
      <4>2. QED
        BY <3>1, <3>2, <4>1, NotLess
    <3>4. QED
      BY <1>2, <3>3
  <2>4. QED
    BY <1>12, <2>2, <2>3
<1>15. ASSUME NEW room \in 0..Listing!MaxRoom, NEW single \in BOOLEAN, NEW restart \in BOOLEAN,
              NEW pattern \in {ListedNames, ShortNames}, Listing!Query(room, single, restart, pattern)
       PROVE  ListingInv'
  <2>1. room \in Int
    OBVIOUS
  <2>2. QED
    BY <1>7, <1>15, <2>1
<1>16. QED
  BY <1>4, <1>5, <1>8, <1>10, <1>11, <1>13, <1>14, <1>15 DEF Listing!Next

LEMMA ListingStays ==
  ASSUME ListingInv, UNCHANGED ListingVars
  PROVE  ListingInv'
<1>1. UNCHANGED <<items, tree, handle, listingCall, listingSeen>>
  BY DEF ListingVars
<1>2. TreeSound(tree)' /\ ItemsSound(tree, items)' /\ CursorSound(handle, listingSeen)'
  BY <1>1 DEF ListingInv
<1>3. QED
  BY <1>1, <1>2 DEF ListingInv, Listing!NoHandle

\* What is kept in the invariant is what is said of the listing.
LEMMA ListingRight == ListingInv => Listing!TypeOK /\ Listing!Reached /\ Listing!EachOnce
<1> SUFFICES ASSUME ListingInv PROVE Listing!TypeOK /\ Listing!Reached /\ Listing!EachOnce
  OBVIOUS
<1>1. PICK h \in ListingHandle, z \in ListingSeen :
        h = handle /\ z = listingSeen /\ CursorSound(h, z) /\ Len(h.entries) \in Nat
  BY LenProperties DEF ListingInv, CursorSound, ListingHandle
<1>2. Listing!TypeOK
  <2>1. DOMAIN tree \subseteq Listing!Path
    BY DEF ListingInv, TreeSound
  <2>2. h.cursor \in 0..Len(h.entries) /\ z.from \in 0..h.cursor
    BY <1>1 DEF CursorSound, ListingHandle, ListingSeen
  <2>3. listingCall.status \in {"none", "calling", "some", "overflow", "no more"}
    BY DEF ListingInv, ListingCall
  <2>4. QED
    BY <1>1, <2>1, <2>2, <2>3 DEF Listing!TypeOK
<1>3. Listing!Reached
  <2>1. items \in Seq(ListedItem) /\ DOMAIN items = 1..Len(items) /\ Len(items) \in Nat
    BY LenProperties DEF ListingInv, ItemsSound
  <2>2. SUFFICES ASSUME NEW i \in DOMAIN items, NEW p, p = items[i].path,
                        NEW first, first = CHOOSE j \in DOMAIN items :
                                             items[j].path = p /\ \A k \in 1..(j - 1) : items[k].path # p
                 PROVE  /\ tree[p].directory = items[first].directory
                        /\ \A n \in 1..Len(p) : p[n] \in Listing!Children(SubSeq(p, 1, n - 1))
    BY DEF Listing!Reached
  <2>3. p \in DOMAIN tree /\ tree[p].reported
    BY <2>1, <2>2 DEF ListingInv, ItemsSound
  <2>4. PICK j \in 1..Len(items) : FirstOf(items, p, j) /\ tree[p].directory = items[j].directory
    BY <2>3 DEF ListingInv, ItemsSound
  <2>5. ASSUME NEW l \in 1..Len(items), FirstOf(items, p, l) PROVE l = j
    <3>1. l < j => l \in 1..(j - 1)
      BY <2>1
    <3>2. j < l => j \in 1..(l - 1)
      BY <2>1
    <3>3. ~(l < j) /\ ~(j < l)
      BY <2>4, <2>5, <3>1, <3>2 DEF FirstOf
    <3>4. QED
      BY <2>1, <3>3
  <2>6. first \in 1..Len(items) /\ FirstOf(items, p, first)
    BY <2>1, <2>2, <2>4 DEF FirstOf
  <2>7. tree[p].directory = items[first].directory
    BY <2>4, <2>5, <2>6
  <2>8. ASSUME NEW n \in 1..Len(p) PROVE p[n] \in Listing!Children(SubSeq(p, 1, n - 1))
    <3>1. p \in Listing!Path /\ SubSeq(p, 1, n) \in DOMAIN tree
      BY <2>3, <2>8 DEF ListingInv, TreeSound
    <3>2. n - 1 \in 0..n
      BY <3>1, PathFacts
    <3>3. PICK q : q = SubSeq(p, 1, n)
      OBVIOUS
    <3>4. Len(q) = n /\ q[n] = p[n] /\ SubSeq(q, 1, n - 1) = SubSeq(p, 1, n - 1)
      BY <3>1, <3>2, <3>3, PathFacts
    <3>5. TreeSound(tree) /\ q \in DOMAIN tree
      BY <3>1, <3>3 DEF ListingInv
    <3>6. q[Len(q)] \in Listing!Children(SubSeq(p, 1, n - 1))
      BY <3>4, <3>5, ChildrenAre
    <3>7. QED
      BY <3>4, <3>6
  <2>9. QED
    BY <2>7, <2>8
<1>4. Listing!EachOnce
  <2>1. SUFFICES ASSUME listingCall.status = "no more"
                 PROVE  \E place \in [1..Len(listingSeen.names) -> (listingSeen.from + 1)..Len(handle.entries)] :
                          /\ \A i, j \in 1..Len(listingSeen.names) : i < j => place[i] < place[j]
                          /\ \A i \in 1..Len(listingSeen.names) :
                               listingSeen.names[i] = handle.entries[place[i]]
                          /\ \A k \in (listingSeen.from + 1)..Len(handle.entries) :
                               handle.entries[k] \in handle.pattern
                                 <=> \E i \in 1..Len(listingSeen.names) : place[i] = k
    BY DEF Listing!EachOnce
  <2>2. handle.cursor = Len(handle.entries) /\ CursorSound(handle, listingSeen)
    BY <2>1 DEF ListingInv
  <2>3. PICK place \in [1..Len(listingSeen.names) -> (listingSeen.from + 1)..Len(handle.entries)] :
          GivenBy(handle, listingSeen, place)
    BY <2>2 DEF CursorSound
  <2>4. QED
    BY <2>2, <2>3 DEF GivenBy
<1>5. QED
  BY <1>2, <1>3, <1>4

-----------------------------------------------------------------------------
(***************************************************************************)
(* The specification: a component moves, and the others do not.            *)
(***************************************************************************)
LEMMA FilesHolds == Spec => [](On("files") => FilesInv)
<1>1. Init => (On("files") => FilesInv)
  BY FilesStart DEF Init, FilesInit
<1>2. (On("files") => FilesInv) /\ [Next]_vars => (On("files") => FilesInv)'
  <2> SUFFICES ASSUME On("files") => FilesInv, [Next]_vars, On("files")' PROVE FilesInv'
    OBVIOUS
  <2>1. CASE UNCHANGED vars
    <3>1. UNCHANGED moving /\ UNCHANGED FilesVars
      BY <2>1 DEF vars
    <3>2. FilesInv
      BY <3>1 DEF On
    <3>3. QED
      BY <3>1, <3>2, FilesStay
  <2>2. CASE Next
    <3>1. FilesInv /\ Files!Next
      BY <2>2 DEF Next, FilesNext, On
    <3>2. QED
      BY <3>1, FilesStep
  <2>3. QED
    BY <2>1, <2>2
<1>3. QED
  BY <1>1, <1>2, PTL DEF Spec

LEMMA StreamHolds == Spec => [](On("stream") => StreamInv)
<1>1. Init => (On("stream") => StreamInv)
  BY StreamStart DEF Init, StreamInit
<1>2. (On("stream") => StreamInv) /\ [Next]_vars => (On("stream") => StreamInv)'
  <2> SUFFICES ASSUME On("stream") => StreamInv, [Next]_vars, On("stream")' PROVE StreamInv'
    OBVIOUS
  <2>1. CASE UNCHANGED vars
    <3>1. UNCHANGED moving /\ UNCHANGED StreamVars
      BY <2>1 DEF vars
    <3>2. StreamInv
      BY <3>1 DEF On
    <3>3. QED
      BY <3>1, <3>2, StreamStays
  <2>2. CASE Next
    <3>1. StreamInv /\ Stream!Next
      BY <2>2 DEF Next, StreamNext, On
    <3>2. QED
      BY <3>1, StreamStep
  <2>3. QED
    BY <2>1, <2>2
<1>3. QED
  BY <1>1, <1>2, PTL DEF Spec

LEMMA ListingHolds == Spec => [](On("listing") => ListingInv)
<1>1. Init => (On("listing") => ListingInv)
  BY ListingStart DEF Init, ListingInit
<1>2. (On("listing") => ListingInv) /\ [Next]_vars => (On("listing") => ListingInv)'
  <2> SUFFICES ASSUME On("listing") => ListingInv, [Next]_vars, On("listing")' PROVE ListingInv'
    OBVIOUS
  <2>1. CASE UNCHANGED vars
    <3>1. UNCHANGED moving /\ UNCHANGED ListingVars
      BY <2>1 DEF vars
    <3>2. ListingInv
      BY <3>1 DEF On
    <3>3. QED
      BY <3>1, <3>2, ListingStays
  <2>2. CASE Next
    <3>1. ListingInv /\ Listing!Next
      BY <2>2 DEF Next, ListingNext, On
    <3>2. QED
      BY <3>1, ListingStep
  <2>3. QED
    BY <2>1, <2>2
<1>3. QED
  BY <1>1, <1>2, PTL DEF Spec

\* What is read from archives is what they hold, whatever calls are made of their
\* handles (winfs.cpp, backend.cpp), however a stream is read, sought and cloned while
\* its decoder writes as it likes (shell_transfer.cpp), and whatever buffers a folder is
\* listed with (winfs.cpp query).
THEOREM ArchivesAreRead == Spec => []ArchivesRead
<1>1. (On("files") => FilesInv) /\ (On("stream") => StreamInv) /\ (On("listing") => ListingInv) => ArchivesRead
  BY FilesRight, StreamRight, ListingRight DEF ArchivesRead
<1>2. QED
  BY <1>1, FilesHolds, StreamHolds, ListingHolds, PTL
=============================================================================
