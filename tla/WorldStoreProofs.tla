-------------------------- MODULE WorldStoreProofs --------------------------
(***************************************************************************)
(* Proofs about WorldStore, for any chunks, regions and seeds, and for any *)
(* number of edits, starts and faults: what a crash can set back, and that *)
(* the store keeps the promise of DurableWorld; about SavedRegions, that   *)
(* region files can be read back; and about SavedColumns, that height maps *)
(* are right.                                                              *)
(***************************************************************************)
EXTENDS SavedRegions, SavedColumns, CommonLemmas

-----------------------------------------------------------------------------
(* The order of a save *)

\* The seed file is not one of the regions.
LEMMA SeedFileApart == SeedFile \in Int /\ SeedFile \notin Regions
BY SeedFileLast, RegionsType

\* While a save has files to write, the next of them is the least.
LEMMA NextFileLeast ==
  ASSUME TypeOK, Saving
  PROVE  NextFile \in todo /\ \A f \in todo : NextFile <= f
<1>1. IsFiniteSet(Regions \cup {SeedFile})
  BY RegionsType, FS_AddElement
<1>2. IsFiniteSet(todo)
  BY <1>1, FS_Subset DEF TypeOK
<1>3. todo \in SUBSET Int
  BY RegionsType, SeedFileApart DEF TypeOK
<1>4. \E f \in todo : \A g \in todo : f <= g
  BY <1>2, <1>3, LeastExists DEF Saving
<1>. QED BY <1>4 DEF NextFile

\* The seed file comes last.
LEMMA SeedFileEndsSave ==
  ASSUME TypeOK, Saving, NextFile = SeedFile
  PROVE  todo = {SeedFile}
<1>1. \A f \in todo : f \in Regions => FALSE
  BY NextFileLeast, SeedFileLast, RegionsType DEF TypeOK
<1>. QED BY <1>1, NextFileLeast DEF TypeOK

-----------------------------------------------------------------------------
(* Type correctness *)

\* What is in memory, and what a start would bring back, are chunks.
LEMMA ChunkTypes ==
  ASSUME TypeOK, NEW c \in Chunks
  PROVE  InMemory(c) \in Content /\ Reloaded(c) \in Content
<1>1. \A s \in Seeds : Generated(s) \in Content
  BY DEF Generated, Content
<1>2. SavedSeed \in Seeds
  BY SeedsType DEF SavedSeed, TypeOK
<1>3. InMemory(c) \in Content
  BY <1>1 DEF InMemory, TypeOK
<1>4. Reloaded(c) \in Content
  <2>1. RegionOf[c] \in Regions
    BY RegionOfType
  <2>. QED BY <1>1, <1>2, <2>1 DEF Reloaded, TypeOK
<1>. QED BY <1>3, <1>4

\* A region file that holds part of the cache is well formed.
LEMMA PartType ==
  ASSUME TypeOK, NEW r \in Regions, NEW S \in SUBSET ChunksOf(r)
  PROVE  LET file == Part(cache, ToWrite \cap S)
         IN  DOMAIN file \subseteq ChunksOf(r) /\ file \in [DOMAIN file -> Content]
<1>1. ToWrite = DOMAIN cache
  BY DEF ToWrite
<1>. QED BY <1>1 DEF Part, TypeOK

\* What is left of a file whose write was cut short is still a file of its kind, and
\* every other file is as it was.
LEMMA TornFiles ==
  ASSUME TypeOK, Saving, Torn
  PROVE  /\ DOMAIN regions' = Regions
         /\ \A r \in Regions : /\ DOMAIN regions'[r] \subseteq ChunksOf(r)
                               /\ regions'[r] \in [DOMAIN regions'[r] -> Content]
                               /\ r # NextFile => regions'[r] = regions[r]
         /\ seed_file' \in Seeds \cup {NoSeed}
         /\ seed_file' # seed_file => NextFile = SeedFile /\ seed_file' = NoSeed
<1>1. CASE UNCHANGED disk
  BY <1>1 DEF disk, TypeOK
<1>2. ASSUME NextFile \in Regions, NEW kept \in SUBSET ChunksOf(NextFile),
             regions' = [regions EXCEPT ![NextFile] = Part(cache, ToWrite \cap kept)],
             UNCHANGED seed_file
      PROVE  /\ DOMAIN regions' = Regions
             /\ \A r \in Regions : /\ DOMAIN regions'[r] \subseteq ChunksOf(r)
                                   /\ regions'[r] \in [DOMAIN regions'[r] -> Content]
                                   /\ r # NextFile => regions'[r] = regions[r]
             /\ seed_file' \in Seeds \cup {NoSeed}
  <2>. DEFINE file == Part(cache, ToWrite \cap kept)
  <2>1. DOMAIN file \subseteq ChunksOf(NextFile) /\ file \in [DOMAIN file -> Content]
    BY <1>2, PartType
  <2>. HIDE DEF file
  <2>. QED BY <1>2, <2>1 DEF TypeOK, file
<1>3. CASE NextFile = SeedFile /\ seed_file' = NoSeed /\ UNCHANGED regions
  BY <1>3 DEF TypeOK
<1>. QED BY <1>1, <1>2, <1>3 DEF Torn, disk

\* Edits and generated chunks leave a cache of chunks.
LEMMA CacheType ==
  ASSUME TypeOK, NEW c \in Chunks, Generate(c) \/ Edit(c)
  PROVE  /\ DOMAIN cache' = DOMAIN cache \cup {c}
         /\ cache' \in [DOMAIN cache' -> Content]
         /\ \A d \in DOMAIN cache : d # c => cache'[d] = cache[d]
<1>1. CASE Generate(c)
  <2>1. \A d \in DOMAIN cache : InMemory(d) = cache[d]
    BY DEF InMemory
  <2>2. \A d \in DOMAIN cache \cup {c} : InMemory(d) \in Content
    BY ChunkTypes DEF TypeOK
  <2>. QED BY <1>1, <2>1, <2>2 DEF Generate
<1>2. CASE Edit(c)
  <2>1. [InMemory(c) EXCEPT !.edit = edits'] \in Content
    BY <1>2, ChunkTypes DEF Edit, Content, TypeOK
  <2>. QED BY <1>2, <2>1 DEF Edit, TypeOK
<1>. QED BY <1>1, <1>2

\* TypeOK holds in every reachable state: files hold only chunks of their own region,
\* whatever was cut short, and only cached chunks are dirty.
THEOREM TypeCorrect == Spec => []TypeOK
<1>1. Init => TypeOK
  BY SeedsType, BoundsType DEF Init, TypeOK, NoChunks
<1>2. TypeOK /\ [Next]_vars => TypeOK'
  <2>. SUFFICES ASSUME TypeOK, [Next]_vars PROVE TypeOK'
    OBVIOUS
  <2>. USE BoundsType
  <2>1. CASE Start
    <3>1. SavedSeed \in Seeds
      BY SeedsType DEF SavedSeed, TypeOK
    <3>2. \A readable \in SUBSET Regions :
            /\ DOMAIN Loaded(readable) \subseteq Chunks
            /\ Loaded(readable) \in [DOMAIN Loaded(readable) -> Content]
      BY RegionOfType DEF Loaded, TypeOK
    <3>3. seed' \in Seeds
      BY <2>1, <3>1 DEF Start
    <3>4. faults' \in 0 .. MaxFaults
      BY <2>1 DEF Start, TypeOK
    <3>5. starts' \in 0 .. MaxStarts
      BY <2>1 DEF Start, TypeOK
    <3>6. suspect' \subseteq Regions \cup {SeedFile}
      BY <2>1 DEF Start
    <3>7. DOMAIN cache' \subseteq Chunks /\ cache' \in [DOMAIN cache' -> Content]
      BY <2>1, <3>2 DEF Start
    <3>. QED BY <2>1, <3>3, <3>4, <3>5, <3>6, <3>7 DEF Start, TypeOK, disk
  <2>2. ASSUME NEW c \in Chunks, Generate(c) PROVE TypeOK'
    BY <2>2, CacheType DEF Generate, TypeOK, disk
  <2>3. ASSUME NEW c \in Chunks, Edit(c) PROVE TypeOK'
    BY <2>3, CacheType DEF Edit, TypeOK, disk
  <2>4. CASE Autosave \/ FinalSave
    <3>1. todo' \subseteq Regions \cup {SeedFile}
      BY <2>4, RegionOfType DEF Autosave, FinalSave, BeginSave, ToWrite, TypeOK
    <3>. QED BY <2>4, <3>1 DEF Autosave, FinalSave, TypeOK, disk
  <2>5. CASE WriteRegion
    <3>. DEFINE file == RegionPart(NextFile)
    <3>1. DOMAIN file \subseteq ChunksOf(NextFile) /\ file \in [DOMAIN file -> Content]
      BY <2>5, PartType DEF WriteRegion, RegionPart
    <3>2. regions' = [regions EXCEPT ![NextFile] = file] /\ NextFile \in Regions
      BY <2>5 DEF WriteRegion
    <3>. HIDE DEF file
    <3>3. \A r \in Regions : /\ DOMAIN regions'[r] \subseteq ChunksOf(r)
                             /\ regions'[r] \in [DOMAIN regions'[r] -> Content]
      BY <3>1, <3>2 DEF TypeOK
    <3>. QED BY <2>5, <3>2, <3>3 DEF WriteRegion, TypeOK
  <2>6. CASE WriteSeed
    BY <2>6 DEF WriteSeed, AfterSave, TypeOK
  <2>7. CASE ShutdownSignal
    BY <2>7 DEF ShutdownSignal, TypeOK, disk
  <2>8. CASE SaveFails
    <3>1. NextFile \in Regions \cup {SeedFile}
      BY <2>8, NextFileLeast DEF SaveFails, TypeOK
    <3>2. faults' \in 0 .. MaxFaults
      BY <2>8 DEF SaveFails, TypeOK
    <3>. QED BY <2>8, <3>1, <3>2, TornFiles DEF SaveFails, AfterSave, StillDirty, TypeOK
  <2>9. CASE Exit
    BY <2>9, SeedsType DEF Exit, Forget, NoChunks, TypeOK, disk
  <2>10. CASE Crash
    <3>1. faults' \in 0 .. MaxFaults
      BY <2>10 DEF Crash, TypeOK
    <3>2. CASE Saving
      BY <2>10, <3>1, <3>2, TornFiles, SeedsType DEF Crash, Forget, NoChunks, TypeOK
    <3>3. CASE ~Saving
      BY <2>10, <3>1, <3>3, SeedsType DEF Crash, Forget, NoChunks, TypeOK, disk
    <3>. QED BY <3>2, <3>3
  <2>11. CASE UNCHANGED vars
    BY <2>11 DEF TypeOK, vars, memory, disk
  <2>. QED
    BY <2>1, <2>2, <2>3, <2>4, <2>5, <2>6, <2>7, <2>8, <2>9, <2>10, <2>11
       DEF Next, Saves
<1>. QED BY <1>1, <1>2, PTL DEF Spec

-----------------------------------------------------------------------------
(* What a crash can set back *)

\* A server that is down has nothing to save and nothing at risk.
DownIsClean == ~Up => dirty = {} /\ todo = {} /\ suspect = {}

\* The terrain's seed is the saved one, unless the sidecar is suspect.
SeedSaved == Up /\ SeedFile \notin suspect => SavedSeed = seed

\* Every chunk on a file that is not suspect was loaded, or written from memory.
FilesCached ==
  Up => \A c \in Chunks : OnFile(c) /\ RegionOf[c] \notin suspect => c \in DOMAIN cache

\* The regions a save is past hold every cached chunk of theirs as it is in memory: what
\* lets the save forget, at its end, that chunks were dirty.
WrittenAsCached ==
  Saving => /\ SeedFile \in todo
            /\ \A c \in DOMAIN cache : RegionOf[c] \notin todo =>
                 OnFile(c) /\ regions[RegionOf[c]][c] = cache[c]

StoreInv ==
  /\ DownIsClean
  /\ SeedSaved
  /\ FilesCached
  /\ WrittenAsCached
  /\ OnlyRiskedLost

\* A chunk whose file and seed file are left alone comes back as before.
LEMMA SameReloaded ==
  ASSUME NEW c \in Chunks, regions'[RegionOf[c]] = regions[RegionOf[c]]
  PROVE  /\ OnFile(c)' = OnFile(c)
         /\ OnFile(c) \/ seed_file' = seed_file => Reloaded(c)' = Reloaded(c)
BY DEF OnFile, Reloaded, SavedSeed

\* A start puts at risk what it could not read, and what the seed it was given changes.
LEMMA StartKeepsInv ==
  ASSUME TypeOK, StoreInv, Start
  PROVE  StoreInv'
<1>1. Up' /\ ~Saving'
  BY DEF Start, StoreInv, DownIsClean, Up, Saving
<1>2. UNCHANGED disk
  BY DEF Start
<1>3. PICK readable \in SUBSET Regions :
        /\ cache' = Loaded(readable)
        /\ suspect' = {r \in Regions \ readable : regions[r] # NoChunks}
                        \cup (IF seed' = SavedSeed THEN {} ELSE {SeedFile})
  BY DEF Start
<1>4. SeedSaved'
  BY <1>2, <1>3 DEF SeedSaved, SavedSeed, disk
<1>5. ASSUME NEW c \in Chunks, OnFile(c), RegionOf[c] \notin suspect'
      PROVE  c \in DOMAIN cache' /\ cache'[c] = regions[RegionOf[c]][c]
  <2>1. RegionOf[c] \in Regions
    BY RegionOfType
  <2>2. regions[RegionOf[c]] # NoChunks
    BY <1>5 DEF OnFile, NoChunks
  <2>3. RegionOf[c] \in readable
    BY <1>3, <1>5, <2>1, <2>2
  <2>. QED BY <1>3, <1>5, <2>3 DEF Loaded, OnFile
<1>6. FilesCached'
  BY <1>2, <1>5 DEF FilesCached, OnFile, disk
<1>7. OnlyRiskedLost'
  <2>. SUFFICES ASSUME NEW c \in Chunks, c \notin AtRisk'
                PROVE  Reloaded(c)' = InMemory(c)'
    BY DEF OnlyRiskedLost
  <2>1. RegionOf[c] \notin suspect' /\ (SeedFile \notin suspect' \/ OnFile(c))
    BY <1>2 DEF AtRisk, OnFile, disk
  <2>2. CASE OnFile(c)
    BY <1>2, <1>5, <2>1, <2>2 DEF Reloaded, OnFile, InMemory, disk
  <2>3. CASE ~OnFile(c)
    <3>1. c \notin DOMAIN cache'
      BY <1>3, <2>3 DEF Loaded, OnFile
    <3>2. seed' = SavedSeed
      BY <1>3, <2>1, <2>3
    <3>. QED BY <1>2, <2>3, <3>1, <3>2 DEF Reloaded, OnFile, InMemory, SavedSeed, disk
  <2>. QED BY <2>2, <2>3
<1>. QED BY <1>1, <1>4, <1>6, <1>7 DEF StoreInv, DownIsClean, WrittenAsCached

\* Generating a chunk changes nothing that anybody sees; an edit puts its chunk at risk.
LEMMA EditKeepsInv ==
  ASSUME TypeOK, StoreInv, NEW c \in Chunks, Generate(c) \/ Edit(c)
  PROVE  /\ StoreInv'
         /\ \A d \in Chunks : Generate(c) \/ d # c => InMemory(d)' = InMemory(d)
<1>1. /\ Up /\ Up' /\ ~Saving /\ ~Saving'
      /\ UNCHANGED <<disk, seed, suspect>>
      /\ dirty \subseteq dirty'
      /\ Edit(c) => c \in dirty'
  BY DEF Generate, Edit, Up, Saving
<1>2. \A d \in Chunks : Generate(c) \/ d # c => InMemory(d)' = InMemory(d)
  BY <1>1, CacheType DEF Generate, InMemory, Generated
<1>3. \A d \in Chunks : /\ OnFile(d)' = OnFile(d)
                        /\ Reloaded(d)' = Reloaded(d)
  BY <1>1, SameReloaded DEF disk
<1>4. FilesCached'
  BY <1>1, <1>3, CacheType DEF StoreInv, FilesCached
<1>5. \A d \in Chunks : d \notin AtRisk' => d \notin AtRisk /\ (Generate(c) \/ d # c)
  BY <1>1, <1>3 DEF AtRisk
<1>6. OnlyRiskedLost'
  BY <1>1, <1>2, <1>3, <1>5 DEF StoreInv, OnlyRiskedLost
<1>7. SeedSaved'
  BY <1>1 DEF StoreInv, SeedSaved, SavedSeed, disk
<1>. QED BY <1>1, <1>2, <1>4, <1>6, <1>7 DEF StoreInv, DownIsClean, WrittenAsCached

\* A region file that has been written holds its part of the cache.
LEMMA WriteRegionKeepsInv ==
  ASSUME TypeOK, StoreInv, WriteRegion
  PROVE  StoreInv'
<1>. DEFINE r == NextFile
            file == RegionPart(r)
<1>1. /\ Saving /\ r \in Regions /\ r # SeedFile
      /\ regions' = [regions EXCEPT ![r] = file]
      /\ todo' = todo \ {r}
      /\ suspect' = suspect \ {r}
      /\ UNCHANGED <<phase, seed, cache, dirty, seed_file>>
  BY SeedFileApart DEF WriteRegion
<1>2. /\ DOMAIN file = DOMAIN cache \cap ChunksOf(r)
      /\ \A c \in DOMAIN file : file[c] = cache[c]
  BY DEF RegionPart, Part, ToWrite
<1>. HIDE DEF r, file
<1>3. Up /\ Up' /\ SeedFile \in todo
  BY <1>1 DEF StoreInv, DownIsClean, WrittenAsCached, Up, Saving
<1>4. ASSUME NEW c \in Chunks
      PROVE  /\ InMemory(c)' = InMemory(c)
             /\ RegionOf[c] = r =>
                  /\ OnFile(c)' <=> c \in DOMAIN cache
                  /\ c \in DOMAIN cache => regions'[RegionOf[c]][c] = cache[c]
             /\ RegionOf[c] # r =>
                  /\ regions'[RegionOf[c]] = regions[RegionOf[c]]
                  /\ OnFile(c)' = OnFile(c)
                  /\ Reloaded(c)' = Reloaded(c)
                  /\ c \notin AtRisk' => c \notin AtRisk
  <2>1. InMemory(c)' = InMemory(c)
    BY <1>1 DEF InMemory
  <2>2. RegionOf[c] = r => regions'[RegionOf[c]] = file
    BY <1>1 DEF TypeOK
  <2>3. RegionOf[c] = r => c \in ChunksOf(r)
    BY DEF ChunksOf
  <2>4. RegionOf[c] # r => regions'[RegionOf[c]] = regions[RegionOf[c]]
    BY <1>1, RegionOfType DEF TypeOK
  <2>5. RegionOf[c] # r =>
          /\ OnFile(c)' = OnFile(c)
          /\ Reloaded(c)' = Reloaded(c)
    BY <1>1, <2>4, SameReloaded
  <2>6. RegionOf[c] # r /\ c \notin AtRisk' => c \notin AtRisk
    BY <1>1, <2>5 DEF AtRisk
  <2>. QED BY <1>2, <2>1, <2>2, <2>3, <2>4, <2>5, <2>6 DEF OnFile
<1>5. SeedSaved'
  BY <1>1, <1>3 DEF StoreInv, SeedSaved, SavedSeed
<1>6. FilesCached'
  BY <1>1, <1>3, <1>4 DEF StoreInv, FilesCached
<1>7. WrittenAsCached'
  <2>1. \A c \in DOMAIN cache : c \in Chunks
    BY DEF TypeOK
  <2>. QED BY <1>1, <1>3, <1>4, <2>1 DEF StoreInv, WrittenAsCached, OnFile
<1>8. OnlyRiskedLost'
  <2>. SUFFICES ASSUME NEW c \in Chunks, c \notin AtRisk'
                PROVE  Reloaded(c)' = InMemory(c)'
    BY DEF OnlyRiskedLost
  <2>1. CASE RegionOf[c] # r
    BY <1>3, <1>4, <2>1 DEF StoreInv, OnlyRiskedLost
  <2>2. CASE RegionOf[c] = r /\ c \in DOMAIN cache
    BY <1>1, <1>4, <2>2 DEF Reloaded, OnFile, InMemory
  <2>3. CASE RegionOf[c] = r /\ c \notin DOMAIN cache
    <3>1. ~OnFile(c)'
      BY <1>4, <2>3
    <3>2. SeedFile \notin suspect
      BY <1>1, <3>1 DEF AtRisk
    <3>3. SavedSeed = seed
      BY <1>3, <3>2 DEF StoreInv, SeedSaved
    <3>. QED BY <1>1, <2>3, <3>1, <3>3 DEF Reloaded, OnFile, InMemory, SavedSeed
  <2>. QED BY <2>1, <2>2, <2>3
<1>. QED BY <1>3, <1>5, <1>6, <1>7, <1>8 DEF StoreInv, DownIsClean

\* A save that reaches the seed file has written everything: nothing is dirty any more.
LEMMA WriteSeedKeepsInv ==
  ASSUME TypeOK, StoreInv, WriteSeed
  PROVE  StoreInv'
<1>1. /\ Saving /\ ~Saving' /\ Up /\ Up'
      /\ seed_file' = seed
      /\ suspect' = suspect \ {SeedFile}
      /\ dirty' = {}
      /\ UNCHANGED <<seed, cache, regions>>
  BY DEF WriteSeed, AfterSave, Saving, Up, StoreInv, DownIsClean
<1>2. todo = {SeedFile}
  BY SeedFileEndsSave DEF WriteSeed
<1>3. \A c \in Chunks : OnFile(c)' = OnFile(c) /\ RegionOf[c] # SeedFile
  BY <1>1, RegionOfType, SeedFileApart DEF OnFile
<1>4. SeedSaved'
  BY <1>1, SeedsType DEF SeedSaved, SavedSeed, TypeOK
<1>5. FilesCached'
  BY <1>1, <1>3 DEF StoreInv, FilesCached
<1>6. OnlyRiskedLost'
  <2>. SUFFICES ASSUME NEW c \in Chunks, c \notin AtRisk'
                PROVE  Reloaded(c)' = InMemory(c)'
    BY DEF OnlyRiskedLost
  <2>1. RegionOf[c] \notin suspect
    BY <1>1, <1>3 DEF AtRisk
  <2>2. CASE c \in DOMAIN cache
    <3>1. OnFile(c) /\ regions[RegionOf[c]][c] = cache[c]
      BY <1>1, <1>2, <1>3, <2>2 DEF StoreInv, WrittenAsCached
    <3>. QED BY <1>1, <2>2, <3>1 DEF Reloaded, OnFile, InMemory
  <2>3. CASE c \notin DOMAIN cache
    <3>1. ~OnFile(c)
      BY <1>1, <2>1, <2>3 DEF StoreInv, FilesCached
    <3>2. SavedSeed' = seed
      BY <1>1, SeedsType DEF SavedSeed, TypeOK
    <3>. QED BY <1>1, <2>3, <3>1, <3>2 DEF Reloaded, OnFile, InMemory
  <2>. QED BY <2>2, <2>3
<1>. QED BY <1>1, <1>4, <1>5, <1>6 DEF StoreInv, DownIsClean, WrittenAsCached

\* A file whose write failed is suspect, unless the failure left it as it was.
LEMMA SaveFailsKeepsInv ==
  ASSUME TypeOK, StoreInv, SaveFails
  PROVE  StoreInv'
<1>1. /\ Saving /\ ~Saving' /\ Up /\ Up' /\ Torn
      /\ suspect' = IF disk' = disk THEN suspect ELSE suspect \cup {NextFile}
      /\ UNCHANGED <<seed, cache, dirty>>
  BY DEF SaveFails, StillDirty, AfterSave, Saving, Up, StoreInv, DownIsClean
<1>2. \A c \in Chunks : RegionOf[c] \notin suspect' =>
        regions'[RegionOf[c]] = regions[RegionOf[c]]
  BY <1>1, TornFiles, RegionOfType DEF disk
<1>3. SeedFile \notin suspect' => seed_file' = seed_file
  BY <1>1, TornFiles DEF disk
<1>4. suspect \subseteq suspect'
  BY <1>1
<1>5. SeedSaved'
  BY <1>1, <1>3, <1>4 DEF StoreInv, SeedSaved, SavedSeed
<1>6. FilesCached'
  BY <1>1, <1>2, <1>4 DEF StoreInv, FilesCached, OnFile
<1>7. OnlyRiskedLost'
  <2>. SUFFICES ASSUME NEW c \in Chunks, c \notin AtRisk'
                PROVE  Reloaded(c)' = InMemory(c)'
    BY DEF OnlyRiskedLost
  <2>1. RegionOf[c] \notin suspect'
    BY DEF AtRisk
  <2>2. /\ OnFile(c)' = OnFile(c)
        /\ OnFile(c) \/ seed_file' = seed_file => Reloaded(c)' = Reloaded(c)
    BY <1>2, <2>1, SameReloaded
  <2>3. c \notin AtRisk
    BY <1>1, <1>4, <2>2 DEF AtRisk
  <2>4. Reloaded(c)' = Reloaded(c)
    BY <1>3, <2>2 DEF AtRisk
  <2>. QED BY <1>1, <2>3, <2>4 DEF StoreInv, OnlyRiskedLost, InMemory
<1>. QED BY <1>1, <1>5, <1>6, <1>7 DEF StoreInv, DownIsClean, WrittenAsCached

\* Every step of the store keeps its invariant, also one that is cut short.
LEMMA StoreStep ==
  ASSUME TypeOK, StoreInv, [Next]_vars
  PROVE  StoreInv'
<1>1. CASE Start
  BY <1>1, StartKeepsInv
<1>2. ASSUME NEW c \in Chunks, Generate(c) \/ Edit(c) PROVE StoreInv'
  BY <1>2, EditKeepsInv
<1>3. CASE Autosave \/ FinalSave
  <2>1. /\ Up /\ Up'
        /\ todo' = {RegionOf[c] : c \in DOMAIN cache} \cup {SeedFile}
        /\ UNCHANGED <<seed, cache, dirty, regions, seed_file, suspect>>
    BY <1>3 DEF Autosave, FinalSave, BeginSave, ToWrite, Up, disk
  <2>2. WrittenAsCached'
    BY <2>1 DEF WrittenAsCached
  <2>. QED
    BY <2>1, <2>2 DEF StoreInv, DownIsClean, SeedSaved, FilesCached, OnlyRiskedLost, AtRisk,
         SavedSeed, OnFile, Reloaded, InMemory
<1>4. CASE WriteRegion
  BY <1>4, WriteRegionKeepsInv
<1>5. CASE WriteSeed
  BY <1>5, WriteSeedKeepsInv
<1>6. CASE ShutdownSignal
  BY <1>6 DEF ShutdownSignal, Up, disk, StoreInv, DownIsClean, SeedSaved, FilesCached,
       WrittenAsCached, Saving, OnlyRiskedLost, AtRisk, SavedSeed, OnFile, Reloaded, InMemory
<1>7. CASE SaveFails
  BY <1>7, SaveFailsKeepsInv
<1>8. CASE Exit \/ Crash
  BY <1>8 DEF Exit, Crash, Forget, Up, Saving, StoreInv, DownIsClean, SeedSaved, FilesCached,
       WrittenAsCached, OnlyRiskedLost
<1>9. CASE UNCHANGED vars
  BY <1>9 DEF vars, memory, disk, Up, StoreInv, DownIsClean, SeedSaved, FilesCached,
       WrittenAsCached, Saving, OnlyRiskedLost, AtRisk, SavedSeed, OnFile, Reloaded, InMemory
<1>. QED
  BY <1>1, <1>2, <1>3, <1>4, <1>5, <1>6, <1>7, <1>8, <1>9 DEF Next, Saves

\* The invariant holds in every state of the store.
LEMMA StoreInvariant == Spec => [](TypeOK /\ StoreInv)
<1>1. Init => StoreInv
  BY DEF Init, Up, Saving, StoreInv, DownIsClean, SeedSaved, FilesCached, WrittenAsCached,
       OnlyRiskedLost
<1>. QED BY <1>1, StoreStep, TypeCorrect, PTL DEF Spec

\* OnlyRiskedLost holds in every reachable state: a chunk that is neither dirty nor on a
\* suspect file comes back from a crash, at any moment, as players saw it last.
THEOREM OnlyRiskedLostAlways == Spec => []OnlyRiskedLost
BY StoreInvariant, PTL DEF StoreInv

-----------------------------------------------------------------------------
(* The store implements DurableWorld *)

\* What DurableWorld sees of a state.
Live == [c \in Chunks |-> IF Up THEN InMemory(c) ELSE Reloaded(c)]
Kept == [c \in Chunks |-> Reloaded(c)]

WorldTyped ==
  /\ Live \in [Chunks -> Content]
  /\ Kept \in [Chunks -> Content]
  /\ AtRisk \subseteq Chunks
  /\ Writing \subseteq Chunks

\* What DurableWorld reads off the store has the types it expects,
LEMMA WorldTypes == TypeOK => WorldTyped
BY ChunkTypes DEF WorldTyped, Live, Kept, AtRisk, Writing, ChunksOf

\* and so has what it reads off the next state.
LEMMA WorldTypesNext == TypeOK' => WorldTyped'
BY WorldTypes, PTL

\* The actions of DurableWorld, in terms of the store.
LEMMA StartMeans ==
  Durable!Start <=>
    /\ ~Up /\ Up'
    /\ Live' \in [Chunks -> Content]
    /\ AtRisk' \in SUBSET Chunks
    /\ \A c \in Chunks \ AtRisk' : Live'[c] = Kept[c]
    /\ Kept' = Kept /\ Writing' = Writing
BY Zenon DEF Durable!Start, Live, Kept

\* An edit changes the live world and puts the chunk at risk.
LEMMA EditMeans ==
  \A c : Durable!Edit(c) <=>
    /\ Up /\ Up' = Up
    /\ Writing = {}
    /\ Live' \in [Chunks -> Content]
    /\ \A d \in Chunks \ {c} : Live'[d] = Live[d]
    /\ AtRisk' = AtRisk \cup {c}
    /\ Kept' = Kept /\ Writing' = Writing
BY Zenon DEF Durable!Edit, Live, Kept

\* A write, torn or whole, changes the part that is being written and no other.
LEMMA WrittenMeans ==
  Durable!Written <=>
    /\ Kept' \in [Chunks -> Content]
    /\ \A c \in Chunks \ Writing : Kept'[c] = Kept[c]
BY Zenon DEF Durable!Written, Kept

\* A write ends and another one may begin; only what is durable as it is leaves the risk.
LEMMA WriteMeans ==
  Durable!Write <=>
    /\ Up /\ Up' = Up
    /\ Durable!Written
    /\ AtRisk' \in SUBSET (AtRisk \cup Writing)
    /\ \A c \in (AtRisk \cup Writing) \ AtRisk' : Kept'[c] = Live[c]
    /\ Writing' \in SUBSET Chunks
    /\ Live' = Live
BY Zenon DEF Durable!Write, Live, Kept

\* A process that ends leaves what is durable, with one part perhaps half written.
LEMMA StopMeans ==
  Durable!Stop <=>
    /\ Up /\ ~Up'
    /\ Durable!Written
    /\ Live' = Kept'
    /\ AtRisk' = {}
    /\ Writing' = {}
BY Zenon DEF Durable!Stop, Live, Kept, Up

\* The write of a file, torn or whole, changes what the next start finds in the part that
\* is being written and nowhere else.
LEMMA OnlyWrittenChanges ==
  ASSUME TypeOK, Saving, NEW c \in Chunks \ Writing,
         Torn \/ WriteRegion \/ WriteSeed
  PROVE  OnFile(c)' = OnFile(c) /\ Reloaded(c)' = Reloaded(c)
<1>1. NextFile \in Regions \/ NextFile = SeedFile
  BY NextFileLeast DEF TypeOK
<1>2. RegionOf[c] \in Regions /\ RegionOf[c] # NextFile
  BY RegionOfType, SeedFileApart DEF Writing, ChunksOf
<1>3. NextFile = SeedFile => OnFile(c)
  BY SeedFileApart DEF Writing
<1>4. CASE Torn
  BY <1>1, <1>2, <1>3, <1>4, TornFiles, SameReloaded, SeedFileApart
<1>5. CASE WriteRegion
  BY <1>2, <1>5, SameReloaded DEF WriteRegion, TypeOK
<1>6. CASE WriteSeed
  BY <1>3, <1>6, SameReloaded DEF WriteSeed
<1>. QED BY <1>4, <1>5, <1>6

\* A step of a save is a write of DurableWorld: a chunk is no longer at risk only when the
\* files have it as it is in memory.
LEMMA SaveIsWrite ==
  ASSUME TypeOK, TypeOK', StoreInv, OnlyRiskedLost', WriteRegion \/ WriteSeed \/ SaveFails
  PROVE  Durable!Write
<1>1. /\ Saving /\ Up /\ Up'
      /\ NextFile \in Regions \/ NextFile = SeedFile
      /\ UNCHANGED <<cache, seed>>
      /\ dirty' \subseteq dirty
      /\ suspect' \subseteq suspect \cup {NextFile}
  BY NextFileLeast DEF WriteRegion, WriteSeed, SaveFails, StillDirty, AfterSave, Saving, Up,
       StoreInv, DownIsClean, TypeOK
<1>2. \A c \in Chunks \ Writing : OnFile(c)' = OnFile(c) /\ Reloaded(c)' = Reloaded(c)
  BY <1>1, OnlyWrittenChanges DEF SaveFails
<1>3. Live' = Live
  BY <1>1 DEF Live, InMemory
<1>4. AtRisk' \subseteq AtRisk \cup Writing
  <2>. SUFFICES ASSUME NEW c \in Chunks, c \in AtRisk', c \notin Writing
                PROVE  c \in AtRisk
    BY DEF AtRisk
  <2>1. RegionOf[c] # NextFile
    BY <1>1, RegionOfType, SeedFileApart DEF Writing, ChunksOf
  <2>2. NextFile = SeedFile => OnFile(c)
    BY <1>1, SeedFileApart DEF Writing
  <2>. QED BY <1>1, <1>2, <2>1, <2>2 DEF AtRisk
<1>5. \A c \in Chunks \ AtRisk' : Kept'[c] = Live[c]
  <2>1. \A c \in Chunks \ AtRisk' : Kept'[c] = Live'[c]
    BY <1>1 DEF OnlyRiskedLost, Kept, Live
  <2>. QED BY <1>3, <2>1
<1>6. \A c \in Chunks \ Writing : Kept'[c] = Kept[c]
  BY <1>2 DEF Kept
<1>. QED
  BY <1>1, <1>3, <1>4, <1>5, <1>6, WorldTypes, WorldTypesNext, WrittenMeans, WriteMeans
     DEF WorldTyped

\* Every step of the store is a step of DurableWorld or changes nothing of it.
LEMMA StoreImplementsStep ==
  ASSUME TypeOK, TypeOK', StoreInv, OnlyRiskedLost', Next
  PROVE  Durable!Next \/ UNCHANGED <<Up, Live, Kept, AtRisk, Writing>>
<1>1. CASE Start
  <2>1. /\ ~Up /\ Up' /\ ~Saving /\ ~Saving'
        /\ UNCHANGED disk
    BY <1>1 DEF Start, Up, Saving, StoreInv, DownIsClean
  <2>2. Kept' = Kept
    BY <2>1 DEF Kept, Reloaded, SavedSeed, disk
  <2>3. \A c \in Chunks \ AtRisk' : Live'[c] = Kept[c]
    <3>1. \A c \in Chunks \ AtRisk' : Live'[c] = Kept'[c]
      BY <2>1 DEF OnlyRiskedLost, Live, Kept
    <3>. QED BY <2>2, <3>1
  <2>4. Durable!Start
    BY <2>1, <2>2, <2>3, WorldTypes, WorldTypesNext, StartMeans
       DEF WorldTyped, Writing
  <2>. QED BY <2>4 DEF Durable!Next
<1>2. ASSUME NEW c \in Chunks, Generate(c)
      PROVE  UNCHANGED <<Up, Live, Kept, AtRisk, Writing>>
  <2>1. \A d \in Chunks : InMemory(d)' = InMemory(d)
    BY <1>2, EditKeepsInv
  <2>2. Up /\ Up' /\ ~Saving /\ ~Saving' /\ UNCHANGED <<disk, dirty, suspect, seed>>
    BY <1>2 DEF Generate, Up, Saving
  <2>. QED BY <2>1, <2>2 DEF Live, Kept, Reloaded, SavedSeed, AtRisk, OnFile, Writing, disk
<1>3. ASSUME NEW c \in Chunks, Edit(c) PROVE Durable!Edit(c)
  <2>1. \A d \in Chunks : d # c => InMemory(d)' = InMemory(d)
    BY <1>3, EditKeepsInv
  <2>2. /\ Up /\ Up' /\ ~Saving /\ ~Saving'
        /\ dirty' = dirty \cup {c}
        /\ UNCHANGED <<disk, suspect, seed>>
    BY <1>3 DEF Edit, Up, Saving
  <2>3. Kept' = Kept
    BY <2>2 DEF Kept, Reloaded, SavedSeed, disk
  <2>4. AtRisk' = AtRisk \cup {c}
    BY <2>2 DEF AtRisk, OnFile, disk
  <2>5. \A d \in Chunks \ {c} : Live'[d] = Live[d]
    BY <2>1, <2>2 DEF Live
  <2>. QED BY <2>2, <2>3, <2>4, <2>5, WorldTypes, WorldTypesNext, EditMeans
       DEF WorldTyped, Writing
<1>4. CASE Autosave \/ FinalSave
  <2>1. /\ Up /\ Up' /\ ~Saving
        /\ UNCHANGED <<cache, seed, disk, dirty, suspect>>
    BY <1>4 DEF Autosave, FinalSave, Up, Saving
  <2>2. Live' = Live /\ Kept' = Kept /\ AtRisk' = AtRisk
    BY <2>1 DEF Live, Kept, InMemory, Reloaded, SavedSeed, AtRisk, OnFile, disk
  <2>3. Durable!Write
    BY <2>1, <2>2, WorldTypes, WorldTypesNext, WrittenMeans, WriteMeans
       DEF WorldTyped, Writing
  <2>. QED BY <2>3 DEF Durable!Next
<1>5. CASE WriteRegion \/ WriteSeed \/ SaveFails
  BY <1>5, SaveIsWrite DEF Durable!Next
<1>6. CASE ShutdownSignal
  BY <1>6 DEF ShutdownSignal, Up, Saving, Live, Kept, InMemory, Reloaded, SavedSeed, AtRisk,
       OnFile, Writing, NextFile, disk
<1>7. CASE Exit \/ Crash
  <2>1. /\ ~Up' /\ dirty' = {} /\ suspect' = {} /\ todo' = {}
        /\ UNCHANGED disk \/ (Saving /\ Torn)
    BY <1>7 DEF Exit, Crash, Forget, Up
  <2>2. Up
    BY <1>7 DEF Exit, Crash, Up
  <2>3. AtRisk' = {} /\ Writing' = {}
    BY <2>1 DEF AtRisk, Writing, Saving
  <2>4. \A c \in Chunks \ Writing : Kept'[c] = Kept[c]
    <3>1. CASE UNCHANGED disk
      BY <3>1 DEF Kept, Reloaded, SavedSeed, disk
    <3>2. CASE Saving /\ Torn
      BY <3>2, OnlyWrittenChanges DEF Kept
    <3>. QED BY <2>1, <3>1, <3>2
  <2>5. Live' = Kept'
    BY <2>1 DEF Live, Kept
  <2>6. Durable!Stop
    BY <2>1, <2>2, <2>3, <2>4, <2>5, WorldTypes, WorldTypesNext, WrittenMeans, StopMeans
       DEF WorldTyped
  <2>. QED BY <2>6 DEF Durable!Next
<1>. QED
  BY <1>1, <1>2, <1>3, <1>4, <1>5, <1>6, <1>7 DEF Next, Saves, Durable!Next

\* The store implements DurableWorld: whatever the order of its files, and wherever it is
\* stopped, a save makes the world durable part by part, exposes only the part it is
\* writing, and believes a chunk safe only when it is.
THEOREM StoreImplementsDurableWorld == Spec => ImplementsDurableWorld
<1>1. Init => Durable!Init
  <2>. SUFFICES ASSUME Init PROVE Durable!Init
    OBVIOUS
  <2>1. TypeOK
    BY SeedsType, BoundsType DEF Init, TypeOK, NoChunks
  <2>2. ~Up /\ AtRisk = {} /\ Writing = {}
    BY DEF Init, Up, AtRisk, Writing, Saving
  <2>3. Live = Kept
    BY <2>2 DEF Live, Kept
  <2>. QED BY <2>1, <2>2, <2>3, WorldTypes DEF WorldTyped, Durable!Init, Live, Kept
<1>2. TypeOK /\ TypeOK' /\ StoreInv /\ StoreInv' /\ [Next]_vars => [Durable!Next]_(Durable!vars)
  <2>. SUFFICES ASSUME TypeOK, TypeOK', StoreInv, StoreInv', [Next]_vars
                PROVE  Durable!Next \/ UNCHANGED <<Up, Live, Kept, AtRisk, Writing>>
    BY DEF Durable!vars, Live, Kept
  <2>1. CASE Next
    BY <2>1, StoreImplementsStep DEF StoreInv
  <2>2. CASE UNCHANGED vars
    BY <2>2 DEF vars, memory, disk, Up, Saving, Live, Kept, InMemory, Reloaded, SavedSeed,
         AtRisk, OnFile, Writing, NextFile
  <2>. QED BY <2>1, <2>2
<1>. QED BY <1>1, <1>2, StoreInvariant, PTL DEF Spec, ImplementsDurableWorld, Durable!Spec

-----------------------------------------------------------------------------
(* Region files: numbers as bytes *)

\* A byte takes more than one value.
LEMMA RadixType == Radix \in Nat /\ Radix > 1
BY VarIntType DEF Radix

\* The bytes of a number are shifted out one at a time.
LEMMA ShiftedSteps ==
  ASSUME NEW w \in Nat, NEW n \in Nat
  PROVE  /\ Shifted(w, n) \in [0 .. w -> Nat]
         /\ Shifted(w, n)[0] = n
         /\ \A k \in 1 .. w : Shifted(w, n)[k] = Shifted(w, n)[k - 1] \div Radix
<1>. DEFINE Goes(g) == g = [k \in 0 .. w |-> IF k = 0 THEN n ELSE g[k - 1] \div Radix]
            step == [k \in 1 .. w |-> [x \in Nat |-> x \div Radix]]
            c == Shifted(w, n)
<1>1. step \in [1 .. w -> [Nat -> Nat]]
  BY RadixType
<1>2. \A k \in 1 .. w : \A x \in Nat : step[k][x] = x \div Radix
  OBVIOUS
<1>. HIDE DEF step
<1>3. PICK g : Stepping(g, Nat, n, w, step)
  BY <1>1, Recursion
<1>4. Goes(g)
  <2>1. ASSUME NEW k \in 1 .. w PROVE g[k] = g[k - 1] \div Radix
    <3>1. g[k - 1] \in Nat /\ g[k] = step[k][g[k - 1]]
      BY <1>3 DEF Stepping
    <3>. QED BY <1>2, <3>1
  <2>. QED BY <1>3, <2>1 DEF Stepping
<1>5. Goes(c)
  <2>1. c = CHOOSE f : Goes(f)
    BY DEF Shifted
  <2>. QED BY <1>4, <2>1
<1>. HIDE DEF c
<1>6. c = [k \in 0 .. w |-> c[k]] /\ c[0] = n /\ \A k \in 1 .. w : c[k] = c[k - 1] \div Radix
  <2>1. PICK d : d = [k \in 0 .. w |-> IF k = 0 THEN n ELSE c[k - 1] \div Radix]
    OBVIOUS
  <2>2. c = d
    BY <1>5, <2>1
  <2>. QED BY <2>1, <2>2
<1>7. \A k \in 1 .. w : c[k - 1] \in Nat => c[k] = step[k][c[k - 1]]
  BY <1>2, <1>6
<1>8. Stepping(c, Nat, n, w, step)
  BY <1>1, <1>6, <1>7, StepsStay
<1>. QED BY <1>6, <1>8 DEF Stepping, c

\* One byte more has as many times more values.
LEMMA SpanSteps ==
  ASSUME NEW w \in Nat
  PROVE  /\ Span(w) \in [0 .. w -> Nat \ {0}]
         /\ Span(w)[0] = 1
         /\ \A k \in 1 .. w : Span(w)[k] = Span(w)[k - 1] * Radix
<1>. DEFINE Goes(g) == g = [k \in 0 .. w |-> IF k = 0 THEN 1 ELSE g[k - 1] * Radix]
            X == Nat \ {0}
            step == [k \in 1 .. w |-> [x \in X |-> x * Radix]]
            c == Span(w)
<1>1. step \in [1 .. w -> [X -> X]]
  <2>1. \A x \in X : x * Radix \in X
    BY RadixType
  <2>. QED BY <2>1
<1>2. \A k \in 1 .. w : \A x \in X : step[k][x] = x * Radix
  OBVIOUS
<1>. HIDE DEF step
<1>0. 1 \in X
  OBVIOUS
<1>. HIDE DEF X
<1>3. PICK g : Stepping(g, X, 1, w, step)
  BY <1>0, <1>1, Recursion
<1>4. Goes(g)
  <2>1. ASSUME NEW k \in 1 .. w PROVE g[k] = g[k - 1] * Radix
    <3>1. g[k - 1] \in X /\ g[k] = step[k][g[k - 1]]
      BY <1>3 DEF Stepping
    <3>. QED BY <1>2, <3>1
  <2>. QED BY <1>3, <2>1 DEF Stepping
<1>5. Goes(c)
  <2>1. c = CHOOSE f : Goes(f)
    BY DEF Span
  <2>. QED BY <1>4, <2>1
<1>. HIDE DEF c
<1>6. c = [k \in 0 .. w |-> c[k]] /\ c[0] = 1 /\ \A k \in 1 .. w : c[k] = c[k - 1] * Radix
  <2>1. PICK d : d = [k \in 0 .. w |-> IF k = 0 THEN 1 ELSE c[k - 1] * Radix]
    OBVIOUS
  <2>2. c = d
    BY <1>5, <2>1
  <2>. QED BY <2>1, <2>2
<1>7. \A k \in 1 .. w : c[k - 1] \in X => c[k] = step[k][c[k - 1]]
  BY <1>2, <1>6
<1>8. Stepping(c, X, 1, w, step)
  BY <1>0, <1>1, <1>6, <1>7, StepsStay
<1>. QED BY <1>6, <1>8 DEF Stepping, c, X

\* The bytes that travel, and what zlib makes of a chunk.
Symbol == [byte : Nat, deflated : {<<>>} \cup (Chunks \X Nat \X Nat)]

\* A byte is a symbol of a file, and holds the number it was made of.
LEMMA ByteIsSymbol == ASSUME NEW b \in Nat PROVE Byte(b) \in Symbol /\ Byte(b).byte = b
BY DEF Byte, Symbol

\* The number that bytes make up, read one byte after the other.
ReadsTo(c, s) ==
  /\ c \in [0 .. Len(s) -> Nat]
  /\ c[0] = 0
  /\ \A k \in 1 .. Len(s) : c[k] = c[k - 1] * Radix + s[k].byte
  /\ Natural(s) = c[Len(s)]

\* The number that bytes make up is read by adding one byte after the other.
LEMMA NaturalSteps ==
  ASSUME NEW s \in Seq(Symbol)
  PROVE  \E c : ReadsTo(c, s)
<1>. DEFINE w == Len(s)
            Goes(g) == g = [k \in 0 .. w |-> IF k = 0 THEN 0 ELSE g[k - 1] * Radix + s[k].byte]
            step == [k \in 1 .. w |-> [x \in Nat |-> x * Radix + s[k].byte]]
            c == CHOOSE f : Goes(f)
<1>0. w \in Nat /\ \A k \in 1 .. w : s[k].byte \in Nat
  <2>1. \A k \in 1 .. w : s[k] \in Symbol
    BY ElementOfSeq
  <2>2. \A x \in Symbol : x.byte \in Nat
    BY DEF Symbol
  <2>. QED BY <2>1, <2>2
<1>1. step \in [1 .. w -> [Nat -> Nat]]
  <2>1. \A k \in 1 .. w : \A x \in Nat : x * Radix + s[k].byte \in Nat
    BY <1>0, RadixType
  <2>. QED BY <2>1
<1>2. \A k \in 1 .. w : \A x \in Nat : step[k][x] = x * Radix + s[k].byte
  OBVIOUS
<1>. HIDE DEF step
<1>3. PICK g : Stepping(g, Nat, 0, w, step)
  BY <1>0, <1>1, Recursion
<1>4. Goes(g)
  <2>1. ASSUME NEW k \in 1 .. w PROVE g[k] = g[k - 1] * Radix + s[k].byte
    <3>1. g[k - 1] \in Nat /\ g[k] = step[k][g[k - 1]]
      <4>1. k - 1 \in 0 .. w
        BY <1>0
      <4>. QED BY <1>3, <4>1 DEF Stepping
    <3>. QED BY <1>2, <3>1
  <2>. QED BY <1>0, <1>3, <2>1 DEF Stepping
<1>5. Goes(c)
  BY <1>4
<1>9. Natural(s) = c[w]
  BY DEF Natural
<1>. HIDE DEF c
<1>6. /\ c = [k \in 0 .. w |-> c[k]] /\ c[0] = 0
      /\ \A k \in 1 .. w : c[k] = c[k - 1] * Radix + s[k].byte
  <2>1. PICK d : d = [k \in 0 .. w |-> IF k = 0 THEN 0 ELSE c[k - 1] * Radix + s[k].byte]
    OBVIOUS
  <2>2. c = d
    BY <1>5, <2>1
  <2>. QED BY <1>0, <2>1, <2>2
<1>7. \A k \in 1 .. w : c[k - 1] \in Nat => c[k] = step[k][c[k - 1]]
  BY <1>2, <1>6
<1>8. Stepping(c, Nat, 0, w, step)
  BY <1>0, <1>1, <1>6, <1>7, StepsStay
<1>. QED BY <1>6, <1>8, <1>9 DEF Stepping, ReadsTo

\* Nothing is left of a number that fits.
LEMMA NothingLeft ==
  ASSUME NEW w \in Nat, NEW n \in Nat, n < Span(w)[w]
  PROVE  Shifted(w, n)[w] = 0
<1>. DEFINE A == {k \in 0 .. w : Shifted(w, n)[k] < Span(w)[w - k]}
<1>1. 0 \in A
  <2>1. Shifted(w, n)[0] = n /\ w - 0 = w
    BY ShiftedSteps
  <2>. QED BY <2>1
<1>2. ASSUME NEW k \in 0 .. w - 1, k \in A PROVE k + 1 \in A
  <2>1. PICK m \in 1 .. w : m = k + 1 /\ m - 1 = k
    OBVIOUS
  <2>2. PICK j \in 1 .. w : j = w - k /\ j - 1 = w - m
    BY <2>1
  <2>3. PICK x \in Nat, r \in Nat \ {0}, p \in Nat :
          x = Shifted(w, n)[k] /\ r = Radix /\ r > 1 /\ p = Span(w)[j - 1]
    <3>1. Shifted(w, n)[k] \in Nat
      BY ShiftedSteps
    <3>2. Span(w)[j - 1] \in Nat
      <4>1. j - 1 \in 0 .. w
        OBVIOUS
      <4>. QED BY <4>1, SpanSteps
    <3>. QED BY <3>1, <3>2, RadixType
  <2>4. x < p * r
    BY <1>2, <2>2, <2>3, SpanSteps
  <2>5. PICK q \in Nat : q = x \div r
    BY <2>3
  <2>6. r * q <= x
    <3>1. PICK d \in 0 .. r - 1 : d = x % r
      BY <2>3, Quotient
    <3>2. x = r * q + d
      BY <2>3, <2>5, <3>1, Quotient
    <3>. QED BY <3>2
  <2>7. q < p
    <3>1. ASSUME p <= q PROVE FALSE
      <4>1. r * p <= r * q
        BY <3>1, <2>3
      <4>2. r * p = p * r
        OBVIOUS
      <4>. QED BY <4>1, <4>2, <2>4, <2>6
    <3>. QED BY <3>1
  <2>8. Shifted(w, n)[m] = q
    BY <2>1, <2>3, <2>5, ShiftedSteps
  <2>. QED BY <2>1, <2>2, <2>3, <2>7, <2>8
<1>3. \A k \in 0 .. w : k \in A
  <2>. HIDE DEF A
  <2>. QED BY <1>1, <1>2, InductionTo
<1>4. Shifted(w, n)[w] < Span(w)[0]
  <2>1. w \in A /\ w - w = 0
    BY <1>3
  <2>. QED BY <2>1
<1>5. Shifted(w, n)[w] \in Nat /\ Span(w)[0] = 1
  BY ShiftedSteps, SpanSteps
<1>. QED BY <1>4, <1>5

\* A number that fits its bytes is read back from them.
LEMMA NumberRead ==
  ASSUME NEW w \in Nat, NEW n \in Nat, n < Span(w)[w]
  PROVE  /\ Number(w, n) \in Seq(Symbol) /\ Len(Number(w, n)) = w
         /\ Natural(Number(w, n)) = n
<1>. DEFINE s == Number(w, n)
            left == Shifted(w, n)
<1>1. left \in [0 .. w -> Nat] /\ left[0] = n /\ left[w] = 0
      /\ \A k \in 1 .. w : left[k] = left[k - 1] \div Radix
  BY ShiftedSteps, NothingLeft
<1>2. s = [k \in 1 .. w |-> Byte(left[w - k] % Radix)]
  BY DEF Number
<1>. HIDE DEF s, left
<1>3. ASSUME NEW k \in 1 .. w
      PROVE  s[k] \in Symbol /\ s[k].byte = left[w - k] % Radix
  <2>1. left[w - k] \in Nat
    BY <1>1
  <2>2. left[w - k] % Radix \in Nat
    BY <2>1, RadixType
  <2>. QED BY <1>2, <2>2, ByteIsSymbol
<1>4. s \in Seq(Symbol) /\ Len(s) = w
  BY <1>2, <1>3, SeqDef
<1>5. PICK c : ReadsTo(c, s)
  BY <1>4, NaturalSteps
<1>. DEFINE A == {k \in 0 .. w : c[k] = left[w - k]}
<1>6. 0 \in A
  BY <1>1, <1>5 DEF ReadsTo
<1>7. ASSUME NEW k \in 0 .. w - 1, k \in A PROVE k + 1 \in A
  <2>1. PICK m \in 1 .. w : m = k + 1 /\ m - 1 = k
    OBVIOUS
  <2>2. PICK j \in 1 .. w : j = w - k /\ j - 1 = w - m
    BY <2>1
  <2>3. PICK x \in Nat, r \in Nat \ {0} : x = left[j - 1] /\ r = Radix /\ r > 1
    BY <1>1, RadixType
  <2>4. left[j] = x \div r /\ s[m].byte = x % r
    BY <1>1, <1>3, <2>2, <2>3
  <2>5. c[m] = (x \div r) * r + (x % r)
    BY <1>4, <1>5, <1>7, <2>1, <2>2, <2>3, <2>4 DEF ReadsTo
  <2>6. (x \div r) * r + (x % r) = x
    <3>1. PICK q \in Nat : q = x \div r
      BY <2>3
    <3>2. PICK d \in 0 .. r - 1 : d = x % r
      BY <2>3, Quotient
    <3>3. x = r * q + d
      BY <2>3, <3>1, <3>2, Quotient
    <3>4. r * q = q * r
      OBVIOUS
    <3>. QED BY <3>1, <3>2, <3>3, <3>4
  <2>. QED BY <2>1, <2>2, <2>3, <2>5, <2>6
<1>8. \A k \in 0 .. w : k \in A
  <2>. HIDE DEF A
  <2>. QED BY <1>6, <1>7, InductionTo
<1>9. c[w] = n
  <2>1. w \in A /\ w - w = 0
    BY <1>8
  <2>. QED BY <1>1, <2>1
<1>. QED BY <1>4, <1>5, <1>9 DEF ReadsTo, s

-----------------------------------------------------------------------------
(* Records *)

\* What lies n symbols long behind the first o ones, where there are that many.
LEMMA BytesBehind ==
  ASSUME NEW body \in Seq(Symbol), NEW o \in Nat, NEW n \in Nat \ {0},
         NEW read, read = Bytes(n, SubSeq(body, o + 1, Len(body)))
  PROVE  /\ o + n > Len(body) => ~read.ok
         /\ o + n <= Len(body) =>
              /\ read.ok
              /\ read.value \in Seq(Symbol) /\ Len(read.value) = n
              /\ \A k \in 1 .. n : read.value[k] = body[o + k]
<1>. DEFINE rest == SubSeq(body, o + 1, Len(body))
<1>1. Len(body) \in Nat
  BY LenProperties
<1>2. CASE o + n > Len(body)
  <2>1. Len(rest) < n
    BY <1>1, <1>2
  <2>2. read = Failed
    BY <2>1 DEF Bytes
  <2>. QED BY <1>2, <1>1, <2>2 DEF Failed
<1>3. CASE o + n <= Len(body)
  <2>1. /\ rest \in Seq(Symbol) /\ Len(rest) = Len(body) - o
        /\ \A k \in 1 .. Len(body) - o : rest[k] = body[o + k]
    <3>1. o + 1 \in 1 .. Len(body) + 1
      BY <1>1, <1>3
    <3>2. \A k \in 1 .. Len(body) - o : o + 1 + k - 1 = o + k
      BY <1>1
    <3>. QED BY <1>1, <1>3, <3>1, <3>2
  <2>. HIDE DEF rest
  <2>2. ~(n < 0 \/ Len(rest) < n)
    BY <1>1, <1>3, <2>1
  <2>3. read = Got(SubSeq(rest, 1, n), SubSeq(rest, n + 1, Len(rest)))
    BY <2>2 DEF Bytes, rest
  <2>4. read.ok /\ read.value = SubSeq(rest, 1, n)
    BY <2>3 DEF Got
  <2>5. /\ SubSeq(rest, 1, n) \in Seq(Symbol) /\ Len(SubSeq(rest, 1, n)) = n
        /\ \A k \in 1 .. n : SubSeq(rest, 1, n)[k] = rest[k]
    BY <1>1, <1>3, <2>1
  <2>6. \A k \in 1 .. n : rest[k] = body[o + k]
    BY <1>1, <1>3, <2>1
  <2>7. ~(o + n > Len(body))
    BY <1>1, <1>3
  <2>8. \A k \in 1 .. n : read.value[k] = body[o + k]
    BY <2>4, <2>5, <2>6
  <2>. QED BY <2>4, <2>5, <2>7, <2>8
<1>. QED BY <1>1, <1>2, <1>3

Writable == [pos : Int \X Int, data : Chunks, size : Sizes]

\* An int has as many values as its bytes.
LEMMA IntWidth == Width["int"] \in Nat \ {0} /\ Span(Width["int"])[Width["int"]] = Word
BY WidthType

\* What zlib makes of a chunk is at least a byte.
LEMMA SizeType ==
  ASSUME NEW size \in Sizes
  PROVE  size \in Nat \ {0} /\ size + 1 < Word
BY SizesType

\* Zlib makes as many symbols of a chunk as its size says, and all of them inflate to it.
LEMMA CompressedShape ==
  ASSUME NEW chunk \in Writable
  PROVE  /\ Compressed(chunk) \in Seq(Symbol) /\ Len(Compressed(chunk)) = chunk.size
         /\ Inflated(Compressed(chunk)) = Got(chunk.data, <<>>)
<1>. DEFINE s == Compressed(chunk)
            symbol(k) == [byte |-> 0, deflated |-> <<chunk.data, chunk.size, k>>]
<1>1. chunk.data \in Chunks /\ chunk.size \in Nat \ {0}
  BY SizeType DEF Writable
<1>2. ASSUME NEW k \in 1 .. chunk.size PROVE symbol(k) \in Symbol
  BY <1>1 DEF Symbol
<1>3. s = [k \in 1 .. chunk.size |-> symbol(k)]
  BY DEF Compressed
<1>4. s \in Seq(Symbol) /\ Len(s) = chunk.size
  <2>. HIDE DEF s, symbol
  <2>. QED BY <1>1, <1>2, <1>3, SeqDef
<1>5. s # <<>> /\ s[1] = symbol(1)
  <2>1. 1 \in 1 .. chunk.size
    BY <1>1
  <2>2. s[1] = symbol(1)
    BY <1>3, <2>1
  <2>. HIDE DEF s, symbol
  <2>3. s # <<>>
    BY <1>1, <1>4
  <2>. QED BY <2>2, <2>3
<1>6. s[1].deflated = <<chunk.data, chunk.size, 1>>
  BY <1>5
<1>7. s = Compressed([data |-> s[1].deflated[1], size |-> s[1].deflated[2]])
  <2>1. s[1].deflated[1] = chunk.data /\ s[1].deflated[2] = chunk.size
    BY <1>6
  <2>. HIDE DEF s
  <2>2. Compressed([data |-> s[1].deflated[1], size |-> s[1].deflated[2]]) = s
    BY <2>1 DEF Compressed, s
  <2>. QED BY <2>2
<1>8. s[1].deflated # <<>>
  BY <1>6
<1>. HIDE DEF s
<1>9. Inflated(s) = Got(chunk.data, <<>>)
  BY <1>5, <1>6, <1>7, <1>8 DEF Inflated
<1>. QED BY <1>4, <1>9 DEF s

\* A record: its length, the compression, and what zlib made of the chunk.
LEMMA RecordShape ==
  ASSUME NEW chunk \in Writable, NEW w, w = Width["int"]
  PROVE  /\ Record(chunk) \in Seq(Symbol) /\ Len(Record(chunk)) = w + 1 + chunk.size
         /\ \A k \in 1 .. w : Record(chunk)[k] = Number(w, chunk.size + 1)[k]
         /\ Record(chunk)[w + 1] = Byte(2)
         /\ \A k \in 1 .. chunk.size : Record(chunk)[w + 1 + k] = Compressed(chunk)[k]
<1>. DEFINE size == chunk.size
            a == Number(w, size + 1)
            z == Compressed(chunk)
            b == Byte(2)
<1>1. w \in Nat \ {0} /\ size \in Nat \ {0} /\ size + 1 < Span(w)[w]
  BY IntWidth, SizeType DEF Writable
<1>2. a \in Seq(Symbol) /\ Len(a) = w
  <2>1. size + 1 \in Nat
    BY <1>1
  <2>. QED BY <1>1, <2>1, NumberRead
<1>3. z \in Seq(Symbol) /\ Len(z) = size
  BY CompressedShape
<1>4. b \in Symbol
  BY ByteIsSymbol
<1>5. Record(chunk) = a \o <<b>> \o z
  BY DEF Record, RecordLength, Zlib
<1>. HIDE DEF a, z, b, size
<1>6. PICK h : h = a \o <<b>>
  OBVIOUS
<1>7. /\ h \in Seq(Symbol) /\ Len(h) = w + 1
      /\ \A k \in 1 .. w : h[k] = a[k]
      /\ h[w + 1] = b
  BY <1>1, <1>2, <1>4, <1>6
<1>8. Record(chunk) = h \o z
  BY <1>5, <1>6
<1>9. /\ h \o z \in Seq(Symbol) /\ Len(h \o z) = w + 1 + size
      /\ \A k \in 1 .. w + 1 : (h \o z)[k] = h[k]
      /\ \A k \in 1 .. size : (h \o z)[w + 1 + k] = z[k]
  <2>1. /\ h \o z \in Seq(Symbol) /\ Len(h \o z) = Len(h) + Len(z)
        /\ \A k \in 1 .. Len(h) : (h \o z)[k] = h[k]
        /\ \A k \in 1 .. Len(z) : (h \o z)[Len(h) + k] = z[k]
    <3>1. h \in Seq(Symbol) /\ z \in Seq(Symbol)
      BY <1>3, <1>7
    <3>. QED BY <3>1, Joined DEF Joins
  <2>2. Len(h) = w + 1 /\ Len(z) = size
    BY <1>3, <1>7
  <2>. QED BY <2>1, <2>2
<1>10. \A k \in 1 .. w : Record(chunk)[k] = a[k]
  BY <1>1, <1>7, <1>8, <1>9
<1>11. Record(chunk)[w + 1] = b
  <2>1. w + 1 \in 1 .. w + 1
    BY <1>1
  <2>. QED BY <1>7, <1>8, <1>9, <2>1
<1>. QED BY <1>8, <1>9, <1>10, <1>11 DEF a, z, b, size

\* A record fills its last sector up, and their number fits a byte.
LEMMA PaddedShape ==
  ASSUME NEW chunk \in Writable
  PROVE  /\ Sectors(chunk) \in Nat \ {0} /\ Sectors(chunk) % Radix = Sectors(chunk)
         /\ Padded(chunk) \in Seq(Symbol)
         /\ Len(Padded(chunk)) = Sectors(chunk) * SectorSize
         /\ Len(Record(chunk)) <= Len(Padded(chunk))
         /\ \A k \in 1 .. Len(Record(chunk)) : Padded(chunk)[k] = Record(chunk)[k]
<1>. DEFINE record == Record(chunk)
            n == Len(record)
            m == Sectors(chunk)
            z == [i \in 1 .. m * SectorSize - n |-> Byte(0)]
<1>1. n = Width["int"] + 1 + chunk.size /\ n \in Nat \ {0} /\ record \in Seq(Symbol)
  <2>1. chunk.size \in Nat /\ Width["int"] \in Nat
    BY IntWidth, SizeType DEF Writable
  <2>2. n = Width["int"] + 1 + chunk.size /\ record \in Seq(Symbol)
    BY RecordShape
  <2>. QED BY <2>1, <2>2
<1>2. PICK s \in Nat \ {0} : s = SectorSize
  BY SectorType
<1>3. m = (n + s - 1) \div s
  BY <1>2 DEF Sectors, DivUp
<1>4. m < Radix
  <2>1. chunk.size \in Sizes /\ chunk.size \in Nat /\ Width["int"] \in Nat
    BY IntWidth, SizeType DEF Writable
  <2>2. Width["int"] + chunk.size + 1 = n
    BY <1>1, <2>1
  <2>3. DivUp(Width["int"] + chunk.size + 1, SectorSize) < Radix
    BY <2>1, SizesType
  <2>. QED BY <2>2, <2>3 DEF Sectors
<1>. HIDE DEF n, m
<1>5. m \in Nat \ {0} /\ n <= m * s
  <2>1. PICK x \in Nat : x = n + s - 1
    BY <1>1
  <2>2. PICK q \in Nat, d \in 0 .. s - 1 : q = x \div s /\ d = x % s /\ x = s * q + d
    BY QuotientParts
  <2>3. s * q >= n /\ s * q = q * s
    <3>1. s * q = q * s /\ s * q \in Nat
      OBVIOUS
    <3>2. PICK p \in Nat, l \in Nat : p = s * q /\ l = n
      BY <1>1, <3>1
    <3>3. l + s - 1 = p + d
      BY <2>1, <2>2, <3>2
    <3>4. p >= l
      BY <3>3
    <3>. QED BY <3>1, <3>2, <3>4
  <2>4. q # 0
    BY <1>1, <2>3
  <2>. QED BY <1>3, <2>1, <2>2, <2>3, <2>4
<1>6. m % Radix = m
  BY <1>4, <1>5, RadixType
<1>7. PICK p \in Nat : p = m * SectorSize
  BY <1>2, <1>5
<1>8. z = [i \in 1 .. p - n |-> Byte(0)] /\ p - n \in Nat
  BY <1>1, <1>2, <1>5, <1>7
<1>9. Byte(0) \in Symbol
  BY ByteIsSymbol
<1>10. Padded(chunk) = record \o z
  BY DEF Padded, n, m
<1>. HIDE DEF z, record
<1>11. z \in Seq(Symbol) /\ Len(z) = p - n
  BY <1>8, <1>9, SeqDef
<1>12. /\ record \o z \in Seq(Symbol) /\ Len(record \o z) = p
       /\ \A k \in 1 .. n : (record \o z)[k] = record[k]
  <2>1. Len(record) = n /\ n \in Nat /\ record \in Seq(Symbol)
    BY <1>1 DEF n
  <2>2. Joins(Symbol, record \o z, record, z)
    BY <1>11, <2>1, Joined
  <2>3. /\ record \o z \in Seq(Symbol) /\ Len(record \o z) = Len(record) + Len(z)
        /\ \A k \in 1 .. Len(record) : (record \o z)[k] = record[k]
    BY <2>2 DEF Joins
  <2>4. n + (p - n) = p
    BY <2>1
  <2>. QED BY <1>11, <2>1, <2>3, <2>4
<1>. QED BY <1>1, <1>2, <1>5, <1>6, <1>7, <1>10, <1>12 DEF record, n, m

-----------------------------------------------------------------------------
(* A region file *)

\* Every position has a slot in the header.
LEMMA SlotType ==
  ASSUME NEW pos \in Int \X Int
  PROVE  Slot(pos) \in Slots
<1>1. PICK r \in Nat \ {0} : r = RegionSize
  BY SectorType
<1>2. pos[1] \in Int /\ pos[2] \in Int
  OBVIOUS
<1>3. PICK x \in 0 .. r - 1, z \in 0 .. r - 1 : x = pos[1] % r /\ z = pos[2] % r
  BY <1>1, <1>2
<1>4. z * r <= (r - 1) * r /\ z * r \in Nat
  BY <1>1, <1>3
<1>5. (r - 1) * r = r * r - r
  BY <1>1
<1>6. x + z * r \in 0 .. r * r - 1
  BY <1>1, <1>3, <1>4, <1>5
<1>. QED BY <1>1, <1>3, <1>6 DEF Slot, Slots

Entries == [offset : Nat, sectors : Nat]
Files   == [header : [Slots -> Entries], body : Seq(Symbol), next_sector : Nat]

\* A file without chunks is well formed,
LEMMA EmptyFileType == EmptyFile \in Files
BY DEF EmptyFile, Files, Entries, NoEntry, HeaderSectors

\* and so is one with a chunk more.
LEMMA WithChunkType ==
  ASSUME NEW file \in Files, NEW chunk \in Writable
  PROVE  WithChunk(file, chunk) \in Files
<1>1. Sectors(chunk) \in Nat /\ Sectors(chunk) % Radix = Sectors(chunk) /\ Padded(chunk) \in Seq(Symbol)
  BY PaddedShape
<1>2. /\ file.header \in [Slots -> Entries] /\ file.body \in Seq(Symbol)
      /\ file.next_sector \in Nat
  BY DEF Files
<1>3. [offset |-> file.next_sector, sectors |-> Sectors(chunk) % Radix] \in Entries
  BY <1>1, <1>2 DEF Entries
<1>4. file.body \o Padded(chunk) \in Seq(Symbol) /\ file.next_sector + Sectors(chunk) \in Nat
  BY <1>1, <1>2
<1>. QED BY <1>2, <1>3, <1>4 DEF WithChunk, Files

\* The header points to where the record of a chunk is.
PlacedAt(file, chunk) ==
  LET entry == file.header[Slot(chunk.pos)]
      at    == (entry.offset - HeaderSectors) * SectorSize
  IN  /\ entry.offset >= HeaderSectors /\ entry.sectors # 0
      /\ at + Len(Padded(chunk)) <= Len(file.body)
      /\ \A k \in 1 .. Len(Padded(chunk)) : file.body[at + k] = Padded(chunk)[k]

\* A file to which the first i chunks have been written.
Built(file, chunks, i) ==
  /\ file.next_sector >= HeaderSectors
  /\ Len(file.body) = (file.next_sector - HeaderSectors) * SectorSize
  /\ \A j \in 1 .. i : PlacedAt(file, chunks[j])
  /\ \A slot \in Slots :
       (\A j \in 1 .. i : Slot(chunks[j].pos) # slot) => file.header[slot] = NoEntry

SlotsApart(chunks) ==
  \A i, j \in 1 .. Len(chunks) : Slot(chunks[i].pos) = Slot(chunks[j].pos) => i = j

\* One more chunk goes to a place of its own, and moves no other.
LEMMA WithChunkBuilds ==
  ASSUME NEW chunks \in Seq(Writable), SlotsApart(chunks), NEW file \in Files,
         NEW i \in 1 .. Len(chunks), Built(file, chunks, i - 1)
  PROVE  Built(WithChunk(file, chunks[i]), chunks, i)
<1>. DEFINE chunk == chunks[i]
            after == WithChunk(file, chunk)
            s == SectorSize
            m == Sectors(chunk)
            p == Padded(chunk)
            old == file.next_sector
            slot(j) == Slot(chunks[j].pos)
<1>1. Len(chunks) \in Nat /\ \A j \in 1 .. Len(chunks) : chunks[j] \in Writable
  BY LenProperties, ElementOfSeq
<1>2. /\ m \in Nat \ {0} /\ m % Radix = m
      /\ p \in Seq(Symbol) /\ Len(p) = m * s
  BY <1>1, PaddedShape
<1>3. s \in Nat \ {0}
  BY SectorType
<1>4. /\ file.header \in [Slots -> Entries] /\ file.body \in Seq(Symbol) /\ old \in Nat
      /\ old >= 2 /\ Len(file.body) = (old - 2) * s
  BY DEF Files, Built, HeaderSectors
<1>5. /\ after.header = [file.header EXCEPT ![slot(i)] = [offset |-> old, sectors |-> m]]
      /\ after.body = file.body \o p
      /\ after.next_sector = old + m
  BY <1>2 DEF WithChunk
<1>6. \A j \in 1 .. Len(chunks) : slot(j) \in Slots
  BY <1>1, SlotType DEF Writable
<1>7. \A j \in 1 .. i - 1 : slot(j) # slot(i)
  BY <1>1 DEF SlotsApart
<1>. HIDE DEF after, p, m, old, s, chunk
<1>8. PICK l \in Nat, n \in Nat : l = (old - 2) * s /\ n = m * s
  <2>1. old - 2 \in Nat
    BY <1>4
  <2>. QED BY <1>2, <1>3, <2>1
<1>9. /\ Len(after.body) = l + n
      /\ \A k \in 1 .. l : after.body[k] = file.body[k]
      /\ \A k \in 1 .. n : after.body[l + k] = p[k]
  <2>1. /\ Len(file.body \o p) = Len(file.body) + Len(p)
        /\ \A k \in 1 .. Len(file.body) : (file.body \o p)[k] = file.body[k]
        /\ \A k \in 1 .. Len(p) : (file.body \o p)[Len(file.body) + k] = p[k]
    <3>1. file.body \in Seq(Symbol) /\ p \in Seq(Symbol)
      BY <1>2, <1>4
    <3>. QED BY <3>1, Joined DEF Joins
  <2>2. Len(file.body) = l /\ Len(p) = n
    BY <1>2, <1>4, <1>8
  <2>. QED BY <1>5, <2>1, <2>2
<1>10. Len(after.body) = (after.next_sector - 2) * s /\ after.next_sector >= 2
  <2>1. (old + m - 2) * s = (old - 2) * s + m * s
    BY <1>2, <1>3, <1>4
  <2>. QED BY <1>2, <1>4, <1>5, <1>8, <1>9, <2>1
<1>11. PlacedAt(after, chunk)
  <2>1. after.header[slot(i)] = [offset |-> old, sectors |-> m]
    BY <1>4, <1>5, <1>6
  <2>2. Slot(chunk.pos) = slot(i)
    BY DEF chunk
  <2>3. l + Len(p) <= Len(after.body) /\ \A k \in 1 .. Len(p) : after.body[l + k] = p[k]
    BY <1>2, <1>8, <1>9
  <2>4. after.header[Slot(chunk.pos)].offset = old /\ after.header[Slot(chunk.pos)].sectors = m
    BY <2>1, <2>2
  <2>. HIDE DEF slot
  <2>. QED BY <1>2, <1>4, <1>8, <2>3, <2>4 DEF PlacedAt, HeaderSectors, p, s
<1>12. ASSUME NEW j \in 1 .. i - 1 PROVE PlacedAt(after, chunks[j])
  <2>1. PlacedAt(file, chunks[j])
    BY DEF Built
  <2>2. j \in 1 .. Len(chunks) /\ slot(j) \in Slots /\ slot(j) # slot(i)
    BY <1>1, <1>6, <1>7
  <2>3. after.header[slot(j)] = file.header[slot(j)]
    BY <1>4, <1>5, <1>6, <2>2
  <2>4. PICK o : o = (file.header[slot(j)].offset - 2) * s
    OBVIOUS
  <2>5. /\ file.header[slot(j)].offset >= 2 /\ file.header[slot(j)].sectors # 0
        /\ o + Len(Padded(chunks[j])) <= Len(file.body)
        /\ \A k \in 1 .. Len(Padded(chunks[j])) : file.body[o + k] = Padded(chunks[j])[k]
    BY <2>1, <2>4 DEF PlacedAt, HeaderSectors, s
  <2>6. o \in Nat
    <3>1. file.header[slot(j)].offset \in Nat
      BY <1>4, <2>2 DEF Entries
    <3>2. PICK a \in Nat : a = file.header[slot(j)].offset - 2
      BY <2>5, <3>1
    <3>3. s \in Nat
      BY <1>3
    <3>4. a * s \in Nat
      BY <3>3
    <3>. QED BY <2>4, <3>2, <3>4
  <2>7. PICK q \in Nat : q = Len(Padded(chunks[j]))
    BY <1>1, <2>2, PaddedShape, LenProperties
  <2>8. o + q <= Len(after.body) /\ \A k \in 1 .. q : after.body[o + k] = Padded(chunks[j])[k]
    <3>1. Len(file.body) = l
      BY <1>4, <1>8
    <3>2. o + q <= l
      BY <2>5, <2>7, <3>1
    <3>3. ASSUME NEW k \in 1 .. q PROVE after.body[o + k] = Padded(chunks[j])[k]
      <4>1. o + k \in 1 .. l
        BY <2>6, <3>2
      <4>. QED BY <1>9, <2>5, <2>7, <4>1
    <3>4. o + q <= Len(after.body)
      BY <1>8, <1>9, <2>6, <3>2
    <3>. QED BY <3>3, <3>4
  <2>. QED BY <2>3, <2>4, <2>5, <2>7, <2>8 DEF PlacedAt, HeaderSectors, s
<1>13. ASSUME NEW t \in Slots, \A j \in 1 .. i : slot(j) # t PROVE after.header[t] = NoEntry
  <2>1. \A j \in 1 .. i - 1 : slot(j) # t
    BY <1>13
  <2>2. file.header[t] = NoEntry
    BY <2>1 DEF Built
  <2>3. slot(i) # t
    BY <1>13
  <2>. QED BY <1>4, <1>5, <2>2, <2>3
<1>14. \A j \in 1 .. i : PlacedAt(after, chunks[j])
  <2>1. \A j \in 1 .. i : j = i \/ j \in 1 .. i - 1
    OBVIOUS
  <2>. QED BY <1>11, <1>12, <2>1 DEF chunk
<1>. QED BY <1>10, <1>13, <1>14 DEF Built, HeaderSectors, after, chunk, s

\* A file has the record of each of its chunks where the header says, and nowhere else an entry.
LEMMA RegionFileBuilt ==
  ASSUME NEW chunks \in Seq(Writable), SlotsApart(chunks)
  PROVE  RegionFile(chunks) \in Files /\ Built(RegionFile(chunks), chunks, Len(chunks))
<1>. DEFINE n == Len(chunks)
            Goes(g) == g = [i \in 0 .. n |->
                              IF i = 0 THEN EmptyFile ELSE WithChunk(g[i - 1], chunks[i])]
            step == [i \in 1 .. n |-> [file \in Files |-> WithChunk(file, chunks[i])]]
            c == CHOOSE f : Goes(f)
<1>0. n \in Nat /\ \A i \in 1 .. n : chunks[i] \in Writable
  BY LenProperties, ElementOfSeq
<1>1. step \in [1 .. n -> [Files -> Files]]
  BY <1>0, WithChunkType
<1>2. \A i \in 1 .. n : \A file \in Files : step[i][file] = WithChunk(file, chunks[i])
  OBVIOUS
<1>. HIDE DEF step
<1>3. PICK g : Stepping(g, Files, EmptyFile, n, step)
  BY <1>0, <1>1, EmptyFileType, Recursion
<1>4. Goes(g)
  <2>1. ASSUME NEW i \in 1 .. n PROVE g[i] = WithChunk(g[i - 1], chunks[i])
    <3>1. g[i - 1] \in Files /\ g[i] = step[i][g[i - 1]]
      <4>1. i - 1 \in 0 .. n
        BY <1>0
      <4>. QED BY <1>3, <4>1 DEF Stepping
    <3>. QED BY <1>2, <3>1
  <2>. QED BY <1>0, <1>3, <2>1 DEF Stepping
<1>5. Goes(c)
  BY <1>4
<1>6. RegionFile(chunks) = c[n]
  BY DEF RegionFile
<1>. HIDE DEF c
<1>7. /\ c = [i \in 0 .. n |-> c[i]] /\ c[0] = EmptyFile
      /\ \A i \in 1 .. n : c[i] = WithChunk(c[i - 1], chunks[i])
  <2>1. PICK d : d = [i \in 0 .. n |->
                        IF i = 0 THEN EmptyFile ELSE WithChunk(c[i - 1], chunks[i])]
    OBVIOUS
  <2>2. c = d
    BY <1>5, <2>1
  <2>. QED BY <1>0, <2>1, <2>2
<1>8. \A i \in 1 .. n : c[i - 1] \in Files => c[i] = step[i][c[i - 1]]
  BY <1>2, <1>7
<1>9. Stepping(c, Files, EmptyFile, n, step)
  BY <1>0, <1>1, <1>7, <1>8, EmptyFileType, StepsStay
<1>. DEFINE A == {i \in 0 .. n : Built(c[i], chunks, i)}
<1>10. 0 \in A
  <2>1. Built(EmptyFile, chunks, 0)
    <3>1. SectorSize \in Nat /\ 1 .. 0 = {}
      BY SectorType
    <3>2. /\ EmptyFile.next_sector = 2 /\ EmptyFile.body = <<>>
          /\ \A slot \in Slots : EmptyFile.header[slot] = NoEntry
      BY DEF EmptyFile, HeaderSectors
    <3>3. Len(EmptyFile.body) = 0 /\ (2 - 2) * SectorSize = 0
      BY <3>1, <3>2
    <3>. QED BY <3>1, <3>2, <3>3 DEF Built, HeaderSectors
  <2>. QED BY <1>0, <1>7, <2>1
<1>11. ASSUME NEW k \in 0 .. n - 1, k \in A PROVE k + 1 \in A
  <2>1. PICK i \in 1 .. n : i = k + 1 /\ i - 1 = k
    BY <1>0
  <2>2. c[k] \in Files /\ c[i] = WithChunk(c[k], chunks[i])
    <3>1. k \in 0 .. n
      BY <1>0
    <3>2. c[k] \in Files
      BY <1>9, <3>1 DEF Stepping
    <3>3. c[i] = WithChunk(c[i - 1], chunks[i])
      BY <1>7
    <3>. QED BY <2>1, <3>2, <3>3
  <2>3. Built(c[k], chunks, i - 1)
    BY <1>11, <2>1
  <2>4. Built(WithChunk(c[k], chunks[i]), chunks, i)
    BY <2>2, <2>3, WithChunkBuilds
  <2>. QED BY <2>1, <2>2, <2>4
<1>12. \A i \in 0 .. n : i \in A
  <2>. HIDE DEF A
  <2>. QED BY <1>0, <1>10, <1>11, InductionTo
<1>13. c[n] \in Files /\ Built(c[n], chunks, n)
  BY <1>0, <1>9, <1>12 DEF Stepping
<1>. QED BY <1>6, <1>13

-----------------------------------------------------------------------------
(* Reading a region file *)

\* What is left of a file when its body ends early.
Begins(cut, file) ==
  /\ cut.header = file.header
  /\ cut.body \in Seq(Symbol) /\ Len(cut.body) <= Len(file.body)
  /\ \A k \in 1 .. Len(cut.body) : cut.body[k] = file.body[k]

Whole(data) == Got(<<data>>, <<>>)
Absent      == Got(<<>>, <<>>)

\* The slot of a chunk yields the chunk, or nothing where its record has been cut short.
LEMMA SlotReads ==
  ASSUME NEW file \in Files, NEW chunk \in Writable, PlacedAt(file, chunk),
         NEW cut, Begins(cut, file)
  PROVE  /\ ReadSlot(cut, Slot(chunk.pos)) \in {Whole(chunk.data), Absent}
         /\ Len(cut.body) = Len(file.body) =>
              ReadSlot(cut, Slot(chunk.pos)) = Whole(chunk.data)
<1>. DEFINE w == Width["int"]
            entry == cut.header[Slot(chunk.pos)]
            at == entry.offset * SectorSize
            head == Slice(cut, at, w + 1)
            length == Natural(SubSeq(head.value, 1, w))
            record == Slice(cut, at + w, length)
            read == ReadSlot(cut, Slot(chunk.pos))
            body == cut.body
            size == chunk.size
            p == Padded(chunk)
<1>1. w \in Nat \ {0} /\ size \in Nat \ {0} /\ size + 1 \in Nat /\ size + 1 < Span(w)[w]
  BY IntWidth, SizeType DEF Writable
<1>2. entry.offset \in Nat /\ entry.offset >= 2 /\ entry.sectors # 0
  <2>1. file.header[Slot(chunk.pos)] \in Entries
    BY SlotType DEF Files, Writable
  <2>. QED BY <2>1 DEF Begins, PlacedAt, Entries, HeaderSectors
<1>3. PICK o \in Nat : /\ o = (entry.offset - 2) * SectorSize
                       /\ at - HeaderSectors * SectorSize + 1 = o + 1
                       /\ (at + w) - HeaderSectors * SectorSize + 1 = o + w + 1
  <2>1. PICK s \in Nat, f \in Nat, e \in Nat : s = SectorSize /\ f = entry.offset /\ e = f - 2
    BY <1>2, SectorType
  <2>2. f * s - 2 * s = e * s /\ f * s \in Nat /\ e * s \in Nat
    <3>1. (f - 2) * s = f * s - 2 * s
      OBVIOUS
    <3>2. \A x, y \in Nat : x * y \in Nat
      OBVIOUS
    <3>. QED BY <2>1, <3>1, <3>2
  <2>. QED BY <1>1, <2>1, <2>2 DEF HeaderSectors
<1>4. read = IF entry.offset = 0 \/ entry.sectors = 0 THEN Absent
             ELSE IF ~head.ok THEN Absent
             ELSE IF length = 0 \/ ~record.ok THEN Absent
             ELSE IF SubSeq(record.value, 1, 1) # Zlib THEN Failed
             ELSE As(LAMBDA data : <<data>>, Inflated(Tail(record.value)))
  BY DEF ReadSlot, Absent
<1>5. /\ head = Bytes(w + 1, SubSeq(body, o + 1, Len(body)))
      /\ record = Bytes(length, SubSeq(body, o + w + 1, Len(body)))
  <2>. HIDE DEF at, body, w
  <2>1. /\ Slice(cut, at, w + 1) = Bytes(w + 1, SubSeq(body, o + 1, Len(body)))
        /\ Slice(cut, at + w, length) = Bytes(length, SubSeq(body, o + w + 1, Len(body)))
    <3>. HIDE DEF length
    <3>1. /\ at - HeaderSectors * SectorSize + 1 = o + 1
          /\ (at + w) - HeaderSectors * SectorSize + 1 = o + w + 1
      BY <1>3
    <3>2. Slice(cut, at, w + 1)
            = Bytes(w + 1, SubSeq(body, at - HeaderSectors * SectorSize + 1, Len(body)))
      BY DEF Slice, body
    <3>3. Slice(cut, at + w, length)
            = Bytes(length, SubSeq(body, (at + w) - HeaderSectors * SectorSize + 1, Len(body)))
      BY DEF Slice, body
    <3>4. Slice(cut, at, w + 1) = Bytes(w + 1, SubSeq(body, o + 1, Len(body)))
      BY <3>1, <3>2
    <3>5. Slice(cut, at + w, length) = Bytes(length, SubSeq(body, o + w + 1, Len(body)))
      BY <3>1, <3>3
    <3>. QED BY <3>4, <3>5
  <2>. QED BY <2>1
<1>6. /\ body \in Seq(Symbol) /\ Len(body) \in Nat /\ Len(file.body) \in Nat
      /\ Len(body) <= Len(file.body) /\ \A k \in 1 .. Len(body) : body[k] = file.body[k]
  <2>1. file.body \in Seq(Symbol)
    BY DEF Files
  <2>. QED BY <2>1, LenProperties DEF Begins
<1>7. o + Len(p) <= Len(file.body) /\ \A k \in 1 .. Len(p) : file.body[o + k] = p[k]
  BY <1>3 DEF PlacedAt, Begins, HeaderSectors
<1>8. /\ Len(p) \in Nat /\ w + 1 + size <= Len(p)
      /\ \A k \in 1 .. w + 1 + size : p[k] = Record(chunk)[k]
  <2>1. p \in Seq(Symbol) /\ Len(Record(chunk)) = w + 1 + size
    BY PaddedShape, RecordShape
  <2>. QED BY <2>1, PaddedShape, LenProperties
<1>. HIDE DEF entry, at, head, length, record, read, body, size, p, w
<1>9. ASSUME NEW k \in 1 .. w + 1 + size, o + k <= Len(body)
      PROVE  body[o + k] = Record(chunk)[k]
  <2>1. o + k \in 1 .. Len(body) /\ k \in 1 .. Len(p)
    BY <1>1, <1>6, <1>8, <1>9
  <2>. QED BY <1>6, <1>7, <1>8, <2>1
<1>10. ASSUME head.ok
       PROVE  length = size + 1 /\ (record.ok <=> o + w + 1 + size <= Len(body))
                /\ (record.ok => read = Whole(chunk.data))
  <2>1. w + 1 \in Nat \ {0} /\ o + w \in Nat /\ size + 1 \in Nat \ {0}
    BY <1>1
  <2>2. /\ o + (w + 1) <= Len(body) /\ head.value \in Seq(Symbol) /\ Len(head.value) = w + 1
        /\ \A k \in 1 .. w + 1 : head.value[k] = body[o + k]
    <3>1. PICK m \in Nat \ {0} : m = w + 1
      BY <2>1
    <3>2. head = Bytes(m, SubSeq(body, o + 1, Len(body))) /\ body \in Seq(Symbol) /\ o \in Nat
      BY <1>1, <1>5, <1>6, <3>1
    <3>3. o + m \in Int /\ Len(body) \in Int
      BY <1>1, <1>6
    <3>4. ~(o + m > Len(body))
      BY <1>10, <3>2, BytesBehind
    <3>5. o + m <= Len(body)
      BY <3>3, <3>4
    <3>6. /\ head.value \in Seq(Symbol) /\ Len(head.value) = m
          /\ \A k \in 1 .. m : head.value[k] = body[o + k]
      BY <3>2, <3>5, BytesBehind
    <3>. QED BY <3>1, <3>5, <3>6
  <2>3. SubSeq(head.value, 1, w) = Number(w, size + 1)
    <3>1. \A k \in 1 .. w : head.value[k] = Number(w, size + 1)[k]
      <4>1. ASSUME NEW k \in 1 .. w PROVE head.value[k] = Number(w, size + 1)[k]
        <5>1. k \in 1 .. w + 1 + size /\ k \in 1 .. w + 1 /\ o + k <= Len(body)
          BY <1>1, <1>6, <2>2
        <5>2. Record(chunk)[k] = Number(w, size + 1)[k]
          BY RecordShape DEF w, size
        <5>. QED BY <1>9, <2>2, <5>1, <5>2
      <4>. QED BY <4>1
    <3>2. Number(w, size + 1) \in Seq(Symbol) /\ Len(Number(w, size + 1)) = w
      BY <1>1, NumberRead
    <3>3. SubSeq(head.value, 1, w) \in Seq(Symbol) /\ Len(SubSeq(head.value, 1, w)) = w
          /\ \A k \in 1 .. w : SubSeq(head.value, 1, w)[k] = head.value[k]
      BY <1>1, <2>2
    <3>. QED BY <3>1, <3>2, <3>3, SeqEqual
  <2>4. length = size + 1
    BY <1>1, <2>3, NumberRead DEF length
  <2>5. /\ o + w + (size + 1) > Len(body) => ~record.ok
        /\ o + w + (size + 1) <= Len(body) =>
             /\ record.ok
             /\ record.value \in Seq(Symbol) /\ Len(record.value) = size + 1
             /\ \A k \in 1 .. size + 1 : record.value[k] = body[o + w + k]
    BY <1>5, <1>6, <2>1, <2>4, BytesBehind
  <2>6. record.ok <=> o + w + 1 + size <= Len(body)
    BY <1>1, <1>6, <2>5
  <2>7. ASSUME record.ok PROVE read = Whole(chunk.data)
    <3>1. /\ record.value \in Seq(Symbol) /\ Len(record.value) = size + 1
          /\ \A k \in 1 .. size + 1 : record.value[k] = body[o + w + k]
          /\ o + w + (size + 1) <= Len(body)
      BY <1>1, <1>6, <2>5, <2>7
    <3>2. \A k \in 1 .. size + 1 : record.value[k] = Record(chunk)[w + k]
      <4>1. ASSUME NEW k \in 1 .. size + 1 PROVE record.value[k] = Record(chunk)[w + k]
        <5>1. w + k \in 1 .. w + 1 + size /\ o + (w + k) <= Len(body) /\ o + (w + k) = o + w + k
          BY <1>1, <1>6, <3>1
        <5>2. body[o + (w + k)] = Record(chunk)[w + k]
          BY <1>9, <5>1
        <5>. QED BY <3>1, <5>1, <5>2
      <4>. QED BY <4>1
    <3>3. record.value[1] = Byte(2)
      <4>1. 1 \in 1 .. size + 1
        BY <1>1
      <4>2. Record(chunk)[w + 1] = Byte(2)
        BY RecordShape DEF w
      <4>. QED BY <3>2, <4>1, <4>2
    <3>4. SubSeq(record.value, 1, 1) = Zlib
      <4>1. SubSeq(record.value, 1, 1) \in Seq(Symbol) /\ Len(SubSeq(record.value, 1, 1)) = 1
            /\ SubSeq(record.value, 1, 1)[1] = record.value[1]
        BY <1>1, <3>1
      <4>2. SubSeq(record.value, 1, 1) = <<record.value[1]>>
        <5>1. PICK t \in Seq(Symbol) : t = SubSeq(record.value, 1, 1)
          BY <4>1
        <5>2. Len(t) = 1 /\ t[1] = record.value[1]
          BY <4>1, <5>1
        <5>3. t = <<t[1]>>
          BY <5>2
        <5>. QED BY <5>1, <5>2, <5>3
      <4>. QED BY <3>3, <4>2 DEF Zlib
    <3>5. Tail(record.value) = Compressed(chunk)
      <4>1. /\ Tail(record.value) \in Seq(Symbol) /\ Len(Tail(record.value)) = size
            /\ \A k \in 1 .. size : Tail(record.value)[k] = record.value[k + 1]
        <5>1. record.value # <<>>
          BY <1>1, <3>1
        <5>. QED BY <1>1, <3>1, <5>1, HeadTailProperties
      <4>2. ASSUME NEW k \in 1 .. size PROVE record.value[k + 1] = Compressed(chunk)[k]
        <5>1. k + 1 \in 1 .. size + 1 /\ w + (k + 1) = w + 1 + k
          BY <1>1
        <5>2. Record(chunk)[w + 1 + k] = Compressed(chunk)[k]
          BY RecordShape DEF w, size
        <5>3. record.value[k + 1] = Record(chunk)[w + (k + 1)]
          BY <3>2, <5>1
        <5>. QED BY <5>1, <5>2, <5>3
      <4>3. Compressed(chunk) \in Seq(Symbol) /\ Len(Compressed(chunk)) = size
        BY CompressedShape DEF size
      <4>. QED BY <4>1, <4>2, <4>3, SeqEqual
    <3>6. Inflated(Tail(record.value)) = Got(chunk.data, <<>>)
      BY <3>5, CompressedShape
    <3>7. As(LAMBDA data : <<data>>, Inflated(Tail(record.value))) = Whole(chunk.data)
      <4>1. PICK s : s = Inflated(Tail(record.value))
        OBVIOUS
      <4>2. s.ok /\ s.value = chunk.data /\ s.rest = <<>>
        BY <3>6, <4>1 DEF Got
      <4>3. As(LAMBDA data : <<data>>, s) = Got(<<s.value>>, s.rest)
        BY <4>2 DEF As
      <4>. QED BY <4>1, <4>2, <4>3 DEF Whole
    <3>8. length # 0 /\ entry.offset # 0
      BY <1>1, <1>2, <2>4
    <3>. QED BY <1>2, <1>4, <1>10, <2>7, <3>4, <3>7, <3>8
  <2>. QED BY <2>4, <2>6, <2>7
<1>11. read \in {Whole(chunk.data), Absent}
  <2>1. entry.offset # 0
    BY <1>2
  <2>2. CASE ~head.ok
    BY <1>2, <1>4, <2>1, <2>2
  <2>3. CASE head.ok /\ ~record.ok
    BY <1>2, <1>4, <2>1, <2>3
  <2>4. CASE head.ok /\ record.ok
    BY <1>10, <2>4
  <2>. QED BY <2>2, <2>3, <2>4
<1>12. ASSUME Len(body) = Len(file.body) PROVE read = Whole(chunk.data)
  <2>1. o + w + 1 + size <= Len(body) /\ o + (w + 1) <= Len(body) /\ w + 1 \in Nat \ {0}
    <3>1. PICK b \in Nat, l \in Nat : b = Len(body) /\ l = Len(p)
      BY <1>6, <1>8
    <3>2. o + l <= b /\ w + 1 + size <= l
      BY <1>7, <1>8, <1>12, <3>1
    <3>3. o \in Nat /\ w \in Nat /\ size \in Nat
      BY <1>1
    <3>. QED BY <3>1, <3>2, <3>3
  <2>2. head.ok
    BY <1>5, <1>6, <2>1, BytesBehind
  <2>. QED BY <1>10, <2>1, <2>2
<1>. QED BY <1>11, <1>12 DEF read, body

\* A slot no chunk was written to yields nothing.
LEMMA EmptySlotReads ==
  ASSUME NEW file, NEW slot, file.header[slot] = NoEntry
  PROVE  ReadSlot(file, slot) = Absent
<1>1. file.header[slot].offset = 0
  BY DEF NoEntry
<1>. QED BY <1>1 DEF ReadSlot, Absent

\* What is read of a slot with a whole record, and of one without.
LEMMA Yields ==
  ASSUME NEW read, NEW d
  PROVE  /\ read = Whole(d) => read.ok /\ Range(read.value) = {d}
         /\ read = Absent => read.ok /\ Range(read.value) = {}
<1>1. Range(<<d>>) = {d}
  <2>1. DOMAIN <<d>> = {1} /\ <<d>>[1] = d
    OBVIOUS
  <2>. QED BY <2>1 DEF Range
<1>2. Range(<<>>) = {}
  BY DEF Range
<1>3. /\ Whole(d).ok /\ Whole(d).value = <<d>>
      /\ Absent.ok /\ Absent.value = <<>>
  BY DEF Whole, Absent, Got
<1>. QED BY <1>1, <1>2, <1>3

\* A file that ends early yields some of its chunks, and a whole one all of them.
LEMMA FileReads ==
  ASSUME NEW chunks \in Seq(Writable), SlotsApart(chunks),
         NEW cut, Begins(cut, RegionFile(chunks))
  PROVE  LET data == {c.data : c \in Range(chunks)}
         IN  /\ ReadRegion(cut).ok
             /\ ReadRegion(cut).value \subseteq data
             /\ Len(cut.body) = Len(RegionFile(chunks).body) => ReadRegion(cut) = Got(data, <<>>)
<1>. DEFINE data == {c.data : c \in Range(chunks)}
            file == RegionFile(chunks)
            n == Len(chunks)
            slot(j) == Slot(chunks[j].pos)
            yields == UNION {Range(ReadSlot(cut, t).value) : t \in Slots}
<1>1. n \in Nat /\ \A j \in 1 .. n : chunks[j] \in Writable
  BY LenProperties, ElementOfSeq
<1>2. data = {chunks[j].data : j \in 1 .. n}
  <2>1. DOMAIN chunks = 1 .. n
    BY LenProperties
  <2>. QED BY <2>1 DEF Range
<1>3. file \in Files /\ Built(file, chunks, n)
  BY RegionFileBuilt
<1>4. \A j \in 1 .. n : slot(j) \in Slots
  BY <1>1, SlotType DEF Writable
<1>. HIDE DEF data, file, n, slot
<1>5. ASSUME NEW j \in 1 .. n
      PROVE  /\ ReadSlot(cut, slot(j)) \in {Whole(chunks[j].data), Absent}
             /\ Len(cut.body) = Len(file.body) => ReadSlot(cut, slot(j)) = Whole(chunks[j].data)
  <2>1. PlacedAt(file, chunks[j])
    BY <1>3 DEF Built
  <2>. QED BY <1>1, <1>3, <2>1, SlotReads DEF file, slot
<1>6. ASSUME NEW t \in Slots
      PROVE  /\ ReadSlot(cut, t).ok
             /\ Range(ReadSlot(cut, t).value) \subseteq data
  <2>1. CASE \E j \in 1 .. n : slot(j) = t
    <3>1. PICK j \in 1 .. n : slot(j) = t
      BY <2>1
    <3>2. chunks[j].data \in data
      BY <1>2
    <3>3. ReadSlot(cut, t) = Whole(chunks[j].data) \/ ReadSlot(cut, t) = Absent
      BY <1>5, <3>1
    <3>4. PICK read, d : read = ReadSlot(cut, t) /\ d = chunks[j].data
      OBVIOUS
    <3>5. read.ok /\ Range(read.value) \subseteq {d}
      BY <3>3, <3>4, Yields
    <3>. QED BY <3>2, <3>4, <3>5
  <2>2. CASE \A j \in 1 .. n : slot(j) # t
    <3>1. file.header[t] = NoEntry
      BY <1>3, <2>2 DEF Built, slot
    <3>2. ReadSlot(cut, t) = Absent
      BY <3>1, EmptySlotReads DEF Begins, file
    <3>. QED BY <3>2, Yields
  <2>. QED BY <2>1, <2>2
<1>7. ReadRegion(cut) = Got(yields, <<>>)
  BY <1>6 DEF ReadRegion
<1>8. yields \subseteq data
  BY <1>6
<1>9. ASSUME Len(cut.body) = Len(file.body) PROVE data \subseteq yields
  <2>1. ASSUME NEW j \in 1 .. n PROVE chunks[j].data \in yields
    <3>1. Range(ReadSlot(cut, slot(j)).value) = {chunks[j].data}
      BY <1>5, <1>9, Yields
    <3>. QED BY <1>4, <3>1
  <2>. QED BY <1>2, <2>1
<1>. HIDE DEF yields
<1>10. ReadRegion(cut).ok /\ ReadRegion(cut).value = yields
  BY <1>7 DEF Got
<1>. QED BY <1>7, <1>8, <1>9, <1>10 DEF data, file

\* Wherever its write stops.
LEMMA WritesReadBack ==
  ASSUME NEW chunks \in Seq(Writable), SlotsApart(chunks)
  PROVE  ReadBack(chunks)
<1>. DEFINE file == RegionFile(chunks)
            data == {c.data : c \in Range(chunks)}
            header == HeaderSectors * SectorSize
<1>1. file \in Files /\ file.body \in Seq(Symbol) /\ Len(file.body) \in Nat
  BY RegionFileBuilt, LenProperties DEF Files
<1>2. header \in Nat
  BY SectorType DEF HeaderSectors
<1>. HIDE DEF file
<1>3. ReadRegion(file) = Got(data, <<>>)
  <2>1. Begins(file, file)
    BY <1>1 DEF Begins
  <2>. QED BY <2>1, FileReads DEF file
<1>4. ASSUME NEW n \in 0 .. FileLength(file)
      PROVE  ReadRegion(CutShort(file, n)).ok /\ ReadRegion(CutShort(file, n)).value \subseteq data
  <2>. DEFINE cut == CutShort(file, n)
  <2>1. CASE n < header
    <3>1. cut = EmptyFile
      BY <2>1 DEF CutShort
    <3>2. ASSUME NEW t \in Slots PROVE ReadSlot(cut, t) = Absent
      <4>1. cut.header[t] = NoEntry
        BY <3>1 DEF EmptyFile
      <4>. QED BY <4>1, EmptySlotReads
    <3>. HIDE DEF cut
    <3>3. \A t \in Slots : ReadSlot(cut, t).ok /\ Range(ReadSlot(cut, t).value) = {}
      BY <3>2, Yields
    <3>4. ReadRegion(cut) = Got(UNION {Range(ReadSlot(cut, t).value) : t \in Slots}, <<>>)
      BY <3>3 DEF ReadRegion
    <3>5. UNION {Range(ReadSlot(cut, t).value) : t \in Slots} = {}
      BY <3>3
    <3>. QED BY <3>4, <3>5 DEF Got, cut
  <2>2. CASE ~(n < header)
    <3>1. cut = [file EXCEPT !.body = SubSeq(file.body, 1, n - header)]
      BY <2>2 DEF CutShort
    <3>2. cut.header = file.header /\ cut.body = SubSeq(file.body, 1, n - header)
      BY <1>1, <3>1 DEF Files
    <3>3. n - header \in 0 .. Len(file.body)
      BY <1>1, <1>2, <2>2 DEF FileLength
    <3>4. Begins(cut, file)
      <4>. HIDE DEF cut, header
      <4>1. PICK m \in 0 .. Len(file.body) : m = n - header
        BY <3>3
      <4>2. /\ SubSeq(file.body, 1, m) \in Seq(Symbol) /\ Len(SubSeq(file.body, 1, m)) = m
            /\ \A k \in 1 .. m : SubSeq(file.body, 1, m)[k] = file.body[k]
        BY <1>1
      <4>3. m <= Len(file.body)
        BY <1>1
      <4>. QED BY <3>2, <4>1, <4>2, <4>3 DEF Begins
    <3>. HIDE DEF cut
    <3>. QED BY <3>4, FileReads DEF file, cut
  <2>. QED BY <2>1, <2>2
<1>. QED BY <1>3, <1>4 DEF ReadBack, file

-----------------------------------------------------------------------------
(* What a save writes *)

\* Two chunks of one region have slots of their own.
LEMMA SlotsOfRegion ==
  ASSUME NEW c \in Chunks, NEW d \in Chunks, RegionOf[c] = RegionOf[d],
         Slot(Position[c]) = Slot(Position[d])
  PROVE  c = d
<1>. DEFINE p == Position[c]
            q == Position[d]
<1>1. p \in Int \X Int /\ q \in Int \X Int /\ RegionAt(p) = RegionAt(q)
  BY PlacedType
<1>2. PICK r \in Nat \ {0} : r = RegionSize
  BY SectorType
<1>3. /\ p[1] \in Int /\ p[2] \in Int /\ q[1] \in Int /\ q[2] \in Int
      /\ p = <<p[1], p[2]>> /\ q = <<q[1], q[2]>>
  BY <1>1
<1>4. p[1] \div r = q[1] \div r /\ p[2] \div r = q[2] \div r
  BY <1>1, <1>2 DEF RegionAt
<1>. HIDE DEF p, q
<1>5. p[1] % r = q[1] % r /\ p[2] % r = q[2] % r
  <2>1. PICK x \in 0 .. r - 1, z \in 0 .. r - 1, u \in 0 .. r - 1, v \in 0 .. r - 1 :
          x = p[1] % r /\ z = p[2] % r /\ u = q[1] % r /\ v = q[2] % r
    BY <1>2, <1>3
  <2>2. x + z * r = u + v * r
    BY <1>2, <2>1 DEF Slot, p, q
  <2>3. ASSUME z < v PROVE FALSE
    <3>1. v * r >= (z + 1) * r /\ (z + 1) * r = z * r + r
      BY <1>2, <2>1, <2>3
    <3>. QED BY <1>2, <2>1, <2>2, <3>1
  <2>4. ASSUME v < z PROVE FALSE
    <3>1. z * r >= (v + 1) * r /\ (v + 1) * r = v * r + r
      BY <1>2, <2>1, <2>4
    <3>. QED BY <1>2, <2>1, <2>2, <3>1
  <2>5. z = v
    BY <2>1, <2>3, <2>4
  <2>. QED BY <2>1, <2>2, <2>5
<1>6. ASSUME NEW x \in Int, NEW y \in Int, x \div r = y \div r, x % r = y % r PROVE x = y
  <2>1. ASSUME NEW a \in Int PROVE a = r * (a \div r) + (a % r)
    BY <1>2
  <2>. QED BY <1>6, <2>1
<1>7. p[1] = q[1] /\ p[2] = q[2]
  BY <1>3, <1>4, <1>5, <1>6
<1>8. p = q
  BY <1>3, <1>7
<1>. QED BY <1>8, PlacedType DEF p, q

\* What a save may write to a region file: chunks with slots of their own.
LEMMA WritesWritable ==
  ASSUME NEW r, NEW chunks, chunks \subseteq ChunksOf(r), NEW written \in WritesOf(chunks)
  PROVE  written \in Seq(Writable) /\ SlotsApart(written)
<1>. DEFINE n == Cardinality(chunks)
<1>1. IsFiniteSet(chunks) /\ n \in Nat /\ chunks \subseteq Chunks
  <2>1. chunks \subseteq Chunks
    BY DEF ChunksOf
  <2>. QED BY <2>1, PlacedType, FS_Subset, FS_CardinalityType
<1>2. PICK order \in Bijection(1 .. n, chunks), sizes \in [chunks -> Sizes] :
        written = [i \in DOMAIN order |-> [pos |-> Position[order[i]], data |-> order[i],
                                           size |-> sizes[order[i]]]]
  BY DEF WritesOf
<1>3. order \in [1 .. n -> chunks] /\ \A i, j \in 1 .. n : order[i] = order[j] => i = j
  BY <1>2 DEF Bijection, Injection, IsInjective
<1>. HIDE DEF n
<1>4. \A i \in 1 .. n :
        /\ written[i] = [pos |-> Position[order[i]], data |-> order[i], size |-> sizes[order[i]]]
        /\ written[i] \in Writable
  <2>1. ASSUME NEW i \in 1 .. n
        PROVE  [pos |-> Position[order[i]], data |-> order[i], size |-> sizes[order[i]]] \in Writable
    <3>1. order[i] \in Chunks /\ sizes[order[i]] \in Sizes
      BY <1>1, <1>2, <1>3
    <3>. QED BY <3>1, PlacedType DEF Writable
  <2>. QED BY <1>2, <1>3, <2>1
<1>5. written \in Seq(Writable) /\ Len(written) = n
  <2>1. written = [i \in 1 .. n |-> written[i]]
    BY <1>2, <1>3
  <2>. QED BY <1>1, <1>4, <2>1, SeqDef
<1>6. ASSUME NEW i \in 1 .. n, NEW j \in 1 .. n, Slot(written[i].pos) = Slot(written[j].pos)
      PROVE  i = j
  <2>1. written[i].pos = Position[order[i]] /\ written[j].pos = Position[order[j]]
    <3>1. \A k \in 1 .. n : written[k].pos = Position[order[k]]
      <4>1. ASSUME NEW k \in 1 .. n PROVE written[k].pos = Position[order[k]]
        <5>1. written[k] = [pos |-> Position[order[k]], data |-> order[k], size |-> sizes[order[k]]]
          BY <1>4
        <5>. QED BY <5>1
      <4>. QED BY <4>1
    <3>. QED BY <3>1
  <2>2. order[i] \in Chunks /\ order[j] \in Chunks /\ RegionOf[order[i]] = RegionOf[order[j]]
    BY <1>3 DEF ChunksOf
  <2>3. order[i] = order[j]
    BY <1>6, <2>1, <2>2, SlotsOfRegion
  <2>. QED BY <1>3, <2>3
<1>. QED BY <1>5, <1>6 DEF SlotsApart

\* RegionsReadBack holds in every reachable state: for any chunks, in any order and of any
\* size that fits a record, the region file a save writes yields them unchanged, and an
\* interrupted write yields whole ones of them and nothing else.
THEOREM RegionsReadBackAlways == Spec => []RegionsReadBack
<1>1. RegionsReadBack
  <2>1. SUFFICES ASSUME Saving, NextFile \in Regions
                 PROVE  DOMAIN RegionPart(NextFile) \in SafeToWrite
    BY DEF RegionsReadBack
  <2>. DEFINE r == NextFile
              chunks == DOMAIN RegionPart(r)
  <2>2. chunks = DOMAIN cache \cap ChunksOf(r)
    BY DEF RegionPart, Part, ToWrite
  <2>3. chunks \subseteq ChunksOf(r) /\ chunks \in SUBSET Chunks
    BY <2>2 DEF ChunksOf
  <2>4. chunks \in Parts
    <3>1. chunks = chunks \cap ChunksOf(r)
      BY <2>3
    <3>. HIDE DEF chunks
    <3>. QED BY <2>1, <2>3, <3>1 DEF Parts
  <2>. HIDE DEF chunks
  <2>5. \A written \in WritesOf(chunks) : ReadBack(written)
    BY <2>3, WritesWritable, WritesReadBack
  <2>. QED BY <2>4, <2>5 DEF SafeToWrite, chunks
<1>. QED BY <1>1, PTL

-----------------------------------------------------------------------------
(* Height maps: powers of two *)

\* Powers of two: each is twice the one before.
LEMMA Pow2Steps ==
  /\ Pow2 \in [0 .. LongBits -> Nat \ {0}]
  /\ Pow2[0] = 1
  /\ \A b \in 1 .. LongBits : Pow2[b] = 2 * Pow2[b - 1]
<1>. DEFINE Goes(g) == g = [b \in 0 .. LongBits |-> IF b = 0 THEN 1 ELSE 2 * g[b - 1]]
            X == Nat \ {0}
            step == [b \in 1 .. LongBits |-> [x \in X |-> 2 * x]]
            c == Pow2
<1>0. LongBits \in Nat /\ 1 \in X
  BY LongBitsType
<1>1. step \in [1 .. LongBits -> [X -> X]]
  <2>1. \A x \in X : 2 * x \in X
    OBVIOUS
  <2>. QED BY <2>1
<1>2. \A b \in 1 .. LongBits : \A x \in X : step[b][x] = 2 * x
  OBVIOUS
<1>. HIDE DEF step, X
<1>3. PICK g : Stepping(g, X, 1, LongBits, step)
  BY <1>0, <1>1, Recursion
<1>4. Goes(g)
  <2>1. ASSUME NEW b \in 1 .. LongBits PROVE g[b] = 2 * g[b - 1]
    <3>1. b - 1 \in 0 .. LongBits
      BY <1>0
    <3>2. g[b - 1] \in X /\ g[b] = step[b][g[b - 1]]
      BY <1>3, <3>1 DEF Stepping
    <3>. QED BY <1>2, <3>2
  <2>. QED BY <1>3, <2>1 DEF Stepping
<1>5. Goes(c)
  <2>1. c = CHOOSE f : Goes(f)
    BY DEF Pow2
  <2>. QED BY <1>4, <2>1
<1>. HIDE DEF c
<1>6. c = [b \in 0 .. LongBits |-> c[b]] /\ c[0] = 1 /\ \A b \in 1 .. LongBits : c[b] = 2 * c[b - 1]
  <2>1. PICK d : d = [b \in 0 .. LongBits |-> IF b = 0 THEN 1 ELSE 2 * c[b - 1]]
    OBVIOUS
  <2>2. c = d
    BY <1>5, <2>1
  <2>. QED BY <1>0, <2>1, <2>2
<1>7. \A b \in 1 .. LongBits : c[b - 1] \in X => c[b] = step[b][c[b - 1]]
  BY <1>2, <1>6
<1>8. Stepping(c, X, 1, LongBits, step)
  BY <1>0, <1>1, <1>6, <1>7, StepsStay
<1>. QED BY <1>6, <1>8 DEF Stepping, c, X

\* They are naturals above zero.
LEMMA Pow2Type == ASSUME NEW b \in 0 .. LongBits PROVE Pow2[b] \in Nat \ {0}
BY Pow2Steps

\* Shifting twice is shifting by the sum.
LEMMA Pow2Sum ==
  ASSUME NEW a \in Nat, NEW b \in Nat, a + b <= LongBits
  PROVE  Pow2[a + b] = Pow2[a] * Pow2[b]
<1>. DEFINE A == {k \in 0 .. b : Pow2[a + k] = Pow2[a] * Pow2[k]}
<1>0. LongBits \in Nat
  BY LongBitsType
<1>1. 0 \in A
  <2>1. a \in 0 .. LongBits /\ a + 0 = a
    BY <1>0
  <2>2. PICK p \in Nat : p = Pow2[a]
    BY <2>1, Pow2Type
  <2>3. p * 1 = p
    OBVIOUS
  <2>. QED BY <2>1, <2>2, <2>3, Pow2Steps
<1>2. ASSUME NEW k \in 0 .. b - 1, k \in A PROVE k + 1 \in A
  <2>1. PICK m \in 1 .. LongBits : m = k + 1 /\ m - 1 = k
    BY <1>0
  <2>2. PICK n \in 1 .. LongBits : n = a + (k + 1) /\ n - 1 = a + k
    BY <1>0
  <2>3. Pow2[m] = 2 * Pow2[k] /\ Pow2[n] = 2 * Pow2[a + k]
    BY <2>1, <2>2, Pow2Steps
  <2>4. PICK p \in Nat, q \in Nat : p = Pow2[a] /\ q = Pow2[k]
    BY <1>0, Pow2Type
  <2>5. 2 * (p * q) = p * (2 * q)
    OBVIOUS
  <2>6. Pow2[a + k] = p * q
    BY <1>2, <2>4
  <2>. QED BY <2>1, <2>2, <2>3, <2>4, <2>5, <2>6
<1>3. \A k \in 0 .. b : k \in A
  <2>. HIDE DEF A
  <2>. QED BY <1>1, <1>2, InductionTo
<1>. QED BY <1>3

\* The narrowest width that tells n values apart exists.
LEMMA BitsForFits ==
  ASSUME NEW n \in Nat, n <= Pow2[LongBits], NEW least \in 1 .. LongBits
  PROVE  BitsFor(n, least) \in least .. LongBits /\ Pow2[BitsFor(n, least)] >= n
<1>. DEFINE S == {b \in least .. LongBits : Pow2[b] >= n}
            Fits(b) == Pow2[b] >= n /\ (b = least \/ Pow2[b - 1] < n)
<1>0. LongBits \in Nat
  BY LongBitsType
<1>1. IsFiniteSet(S) /\ S \in SUBSET Int
  BY <1>0, FS_Interval, FS_Subset
<1>2. LongBits \in S
  BY <1>0, Pow2Type
<1>3. PICK b \in S : \A d \in S : b <= d
  <2>. HIDE DEF S
  <2>. QED BY <1>1, <1>2, LeastExists
<1>4. Fits(b)
  <2>1. CASE b # least
    <3>1. b - 1 \in least .. LongBits /\ b - 1 \in 0 .. LongBits /\ ~(b <= b - 1)
      BY <1>0, <1>3, <2>1
    <3>2. b - 1 \notin S
      BY <1>3, <3>1
    <3>3. Pow2[b - 1] \in Nat
      BY <3>1, Pow2Type
    <3>. QED BY <1>3, <3>1, <3>2, <3>3
  <2>. QED BY <1>3, <2>1
<1>5. BitsFor(n, least) = CHOOSE k \in least .. LongBits : Fits(k)
  BY DEF BitsFor
<1>. QED BY <1>3, <1>4, <1>5

-----------------------------------------------------------------------------
(* Packing *)

PacksTo(c, values, bits) ==
  /\ c \in [0 .. Len(values) -> Nat]
  /\ c[0] = 0
  /\ \A k \in 1 .. Len(values) :
       c[k] = c[k - 1] * Pow2[bits] + (values[Len(values) + 1 - k] % Pow2[bits])
  /\ Packed(values, bits) = c[Len(values)]

\* A long is packed from its last value to its first one.
LEMMA PackSteps ==
  ASSUME NEW values \in Seq(Nat), NEW bits \in 1 .. LongBits
  PROVE  \E c : PacksTo(c, values, bits)
<1>. DEFINE n == Len(values)
            p == Pow2[bits]
            digit(k) == values[n + 1 - k] % p
            Goes(g) == g = [k \in 0 .. n |-> IF k = 0 THEN 0 ELSE g[k - 1] * p + digit(k)]
            step == [k \in 1 .. n |-> [x \in Nat |-> x * p + digit(k)]]
            c == CHOOSE f : Goes(f)
<1>0. n \in Nat /\ p \in Nat \ {0} /\ \A k \in 1 .. n : digit(k) \in Nat
  <2>1. n \in Nat /\ \A i \in 1 .. n : values[i] \in Nat
    BY LenProperties, ElementOfSeq
  <2>2. p \in Nat \ {0}
    BY LongBitsType, Pow2Type
  <2>3. ASSUME NEW k \in 1 .. n PROVE digit(k) \in Nat
    <3>1. values[n + 1 - k] \in Nat
      BY <2>1
    <3>. HIDE DEF p
    <3>2. \A x \in Nat : x % p \in Nat
      BY <2>2
    <3>. QED BY <3>1, <3>2
  <2>. QED BY <2>1, <2>2, <2>3
<1>9. Packed(values, bits) = c[n]
  BY DEF Packed
<1>. HIDE DEF p, digit, n
<1>1. step \in [1 .. n -> [Nat -> Nat]]
  <2>1. \A k \in 1 .. n : \A x \in Nat : x * p + digit(k) \in Nat
    BY <1>0
  <2>. QED BY <2>1
<1>2. \A k \in 1 .. n : \A x \in Nat : step[k][x] = x * p + digit(k)
  OBVIOUS
<1>. HIDE DEF step
<1>3. PICK g : Stepping(g, Nat, 0, n, step)
  BY <1>0, <1>1, Recursion
<1>4. Goes(g)
  <2>1. ASSUME NEW k \in 1 .. n PROVE g[k] = g[k - 1] * p + digit(k)
    <3>1. k - 1 \in 0 .. n
      BY <1>0
    <3>2. g[k - 1] \in Nat /\ g[k] = step[k][g[k - 1]]
      BY <1>3, <3>1 DEF Stepping
    <3>. QED BY <1>2, <3>2
  <2>. QED BY <1>0, <1>3, <2>1 DEF Stepping
<1>5. Goes(c)
  BY <1>4
<1>. HIDE DEF c
<1>6. /\ c = [k \in 0 .. n |-> c[k]] /\ c[0] = 0
      /\ \A k \in 1 .. n : c[k] = c[k - 1] * p + digit(k)
  <2>1. PICK d : d = [k \in 0 .. n |-> IF k = 0 THEN 0 ELSE c[k - 1] * p + digit(k)]
    OBVIOUS
  <2>2. c = d
    BY <1>5, <2>1
  <2>. QED BY <1>0, <2>1, <2>2
<1>7. \A k \in 1 .. n : c[k - 1] \in Nat => c[k] = step[k][c[k - 1]]
  BY <1>2, <1>6
<1>8. Stepping(c, Nat, 0, n, step)
  BY <1>0, <1>1, <1>6, <1>7, StepsStay
<1>. QED BY <1>6, <1>8, <1>9 DEF Stepping, PacksTo, n, p, digit

\* Each value is found again behind those before it.
LEMMA PackedValue ==
  ASSUME NEW values \in Seq(Nat), NEW bits \in 1 .. LongBits, NEW j \in 1 .. Len(values),
         (j - 1) * bits <= LongBits, values[j] < Pow2[bits]
  PROVE  (Packed(values, bits) \div Pow2[(j - 1) * bits]) % Pow2[bits] = values[j]
<1>. DEFINE n == Len(values)
<1>1. PICK c : PacksTo(c, values, bits)
  BY PackSteps
<1>2. PICK p \in Nat \ {0} : p = Pow2[bits]
  BY LongBitsType, Pow2Type
<1>3. /\ n \in Nat /\ c \in [0 .. n -> Nat] /\ Packed(values, bits) = c[n]
      /\ \A k \in 1 .. n : c[k] = c[k - 1] * p + (values[n + 1 - k] % p)
      /\ \A k \in 1 .. n : values[k] \in Nat
  BY <1>1, <1>2, LenProperties, ElementOfSeq DEF PacksTo
<1>. HIDE DEF n
<1>4. ASSUME NEW k \in 1 .. n
      PROVE  c[k] \div p = c[k - 1] /\ c[k] % p = values[n + 1 - k] % p
  <2>1. PICK x \in Nat, v \in Nat : x = c[k - 1] /\ v = values[n + 1 - k]
    <3>1. k - 1 \in 0 .. n /\ n + 1 - k \in 1 .. n
      BY <1>3
    <3>2. c[k - 1] \in Nat /\ values[n + 1 - k] \in Nat
      BY <1>3, <3>1
    <3>. QED BY <3>2
  <2>2. PICK d \in 0 .. p - 1 : d = v % p
    BY Quotient
  <2>3. c[k] = x * p + d
    BY <1>3, <2>1, <2>2
  <2>4. (x * p + d) \div p = x /\ (x * p + d) % p = d
    <3>1. x * p = p * x
      OBVIOUS
    <3>. QED BY <3>1, QuotientIs
  <2>. QED BY <2>1, <2>2, <2>3, <2>4
<1>. DEFINE A == {i \in 0 .. j - 1 : c[n] \div Pow2[i * bits] = c[n - i]}
<1>5. 0 \in A
  <2>1. PICK x \in Nat : x = c[n]
    BY <1>3
  <2>2. x \div 1 = x /\ 0 * bits = 0 /\ n - 0 = n
    BY <1>3
  <2>. QED BY <2>1, <2>2, Pow2Steps
<1>6. ASSUME NEW i \in 0 .. (j - 1) - 1, i \in A PROVE i + 1 \in A
  <2>1. (i + 1) * bits = i * bits + bits /\ i * bits \in Nat
    OBVIOUS
  <2>2. (i + 1) * bits <= (j - 1) * bits
    OBVIOUS
  <2>3. i * bits + bits <= LongBits /\ i * bits \in 0 .. LongBits
    BY <2>1, <2>2, LongBitsType
  <2>4. PICK a \in Nat \ {0} : a = Pow2[i * bits]
    BY <2>3, Pow2Type
  <2>5. Pow2[(i + 1) * bits] = a * p
    BY <1>2, <2>1, <2>3, <2>4, Pow2Sum
  <2>6. PICK x \in Nat : x = c[n]
    BY <1>3
  <2>7. x \div (a * p) = (x \div a) \div p
    BY DivDiv
  <2>8. x \div a = c[n - i]
    BY <1>6, <2>4, <2>6
  <2>9. PICK k \in 1 .. n : k = n - i /\ k - 1 = n - (i + 1)
    <3>1. j <= n /\ n \in Nat /\ j \in Nat
      BY <1>3 DEF n
    <3>2. n - i \in 1 .. n /\ (n - i) - 1 = n - (i + 1)
      BY <3>1
    <3>. QED BY <3>2
  <2>10. c[k] \div p = c[k - 1]
    BY <1>4
  <2>. QED BY <2>5, <2>6, <2>7, <2>8, <2>9, <2>10
<1>7. \A i \in 0 .. j - 1 : i \in A
  <2>1. j - 1 \in Nat
    OBVIOUS
  <2>. HIDE DEF A
  <2>. QED BY <1>5, <1>6, <2>1, InductionTo
<1>8. c[n] \div Pow2[(j - 1) * bits] = c[n - (j - 1)]
  BY <1>7
<1>9. PICK k \in 1 .. n : k = n - (j - 1) /\ n + 1 - k = j
  BY <1>3 DEF n
<1>10. c[k] % p = values[j] % p
  BY <1>4, <1>9
<1>11. values[j] % p = values[j]
  <2>1. values[j] \in Nat
    BY <1>3 DEF n
  <2>2. PICK v \in Nat : v = values[j] /\ v < p
    BY <1>2, <2>1
  <2>3. v \in 0 .. p - 1
    BY <2>2
  <2>. QED BY <2>2, <2>3, SmallRemainder
<1>. QED BY <1>2, <1>3, <1>8, <1>9, <1>10, <1>11

\* Values that fit their width come back from the longs they are packed into.
LEMMA UnpacksPacked ==
  ASSUME NEW values \in Seq(Nat), NEW bits \in 1 .. LongBits, NEW i \in 1 .. Len(values),
         \A k \in 1 .. Len(values) : values[k] < Pow2[bits]
  PROVE  UnpackPerLong(PackPerLong(values, bits), bits, Len(values))[i] = values[i]
<1>1. PICK n \in Nat : n = Len(values) /\ \A k \in 1 .. n : values[k] \in Nat
  BY LenProperties, ElementOfSeq
<1>2. PICK per \in Nat \ {0} : per = LongBits \div bits /\ bits * per <= LongBits
  <2>1. PICK q \in Nat, r \in 0 .. bits - 1 : q = LongBits \div bits /\ LongBits = bits * q + r
    <3>1. LongBits \in Nat /\ bits \in Nat \ {0} /\ bits <= LongBits
      BY LongBitsType
    <3>2. LongBits \div bits \in Nat /\ LongBits % bits \in 0 .. bits - 1
          /\ LongBits = bits * (LongBits \div bits) + (LongBits % bits)
      BY <3>1, Quotient
    <3>. QED BY <3>2
  <2>2. q # 0
    <3>1. q = 0 => bits * q = 0
      OBVIOUS
    <3>. QED BY <2>1, <3>1
  <2>3. PICK m \in Nat : m = bits * q /\ LongBits = m + r
    <3>1. bits \in Nat
      OBVIOUS
    <3>2. bits * q \in Nat
      BY <3>1
    <3>. QED BY <2>1, <3>2
  <2>4. bits * q <= LongBits
    BY <2>3, LongBitsType
  <2>. QED BY <2>1, <2>2, <2>4
<1>3. PICK v \in Nat, f \in 0 .. per - 1 :
        v = (i - 1) \div per /\ f = (i - 1) % per /\ i - 1 = per * v + f
  <2>1. i - 1 \in Nat
    BY <1>1
  <2>. QED BY <2>1, Quotient
<1>4. PICK w \in Nat \ {0}, j \in 1 .. per : w = v + 1 /\ j = f + 1
  <2>1. v + 1 \in Nat \ {0} /\ f + 1 \in 1 .. per
    OBVIOUS
  <2>. QED BY <2>1
<1>5. PICK a \in Nat, b \in Nat : a = (w - 1) * per /\ b = w * per /\ b = a + per /\ a = per * v
  <2>1. w - 1 = v /\ v * per = per * v
    BY <1>4
  <2>2. (v + 1) * per = v * per + per /\ v * per \in Nat
    OBVIOUS
  <2>. QED BY <1>4, <2>1, <2>2
<1>6. i = a + j
  BY <1>3, <1>4, <1>5
<1>7. PICK D \in Nat : D = DivUp(n, per) /\ w <= D
  <2>1. n + per - 1 \in Nat
    OBVIOUS
  <2>2. PICK d \in Nat, e \in 0 .. per - 1 : d = (n + per - 1) \div per /\ n + per - 1 = per * d + e
    <3>1. PICK x \in Nat : x = n + per - 1
      BY <2>1
    <3>2. x \div per \in Nat /\ x % per \in 0 .. per - 1 /\ x = per * (x \div per) + (x % per)
      BY Quotient
    <3>. QED BY <3>1, <3>2
  <2>3. ASSUME d < w PROVE FALSE
    <3>1. per * d <= per * v
      <4>1. d <= v
        BY <1>4, <2>3
      <4>. QED BY <4>1
    <3>2. PICK x \in Nat : x = per * d
      OBVIOUS
    <3>. QED BY <1>1, <1>4, <1>5, <1>6, <2>2, <3>1, <3>2
  <2>. QED BY <2>2, <2>3 DEF DivUp
<1>8. PICK m \in Nat : m = (IF b < n THEN b ELSE n) /\ m <= n /\ i <= m
  BY <1>1, <1>4, <1>5, <1>6
<1>9. PICK s : s = SubSeq(values, a + 1, m)
  OBVIOUS
<1>10. s \in Seq(Nat) /\ j \in 1 .. Len(s) /\ s[j] = values[i]
  <2>1. a + 1 \in 1 .. n + 1 /\ m \in a + 1 - 1 .. n
    BY <1>1, <1>4, <1>6, <1>8
  <2>2. s \in Seq(Nat) /\ Len(s) = m - (a + 1) + 1 /\ \A k \in 1 .. m - (a + 1) + 1 : s[k] = values[(a + 1) + k - 1]
    BY <1>1, <1>9, <2>1, SubSeqProperties
  <2>3. j \in 1 .. m - (a + 1) + 1 /\ (a + 1) + j - 1 = i
    BY <1>6, <1>8, <1>4
  <2>. QED BY <2>2, <2>3
<1>11. PICK longs : longs = PackPerLong(values, bits)
  OBVIOUS
<1>12. Len(longs) = D /\ longs[w] = Packed(s, bits)
  <2>. DEFINE part(x) == SubSeq(values, (x - 1) * per + 1, IF x * per < n THEN x * per ELSE n)
  <2>1. longs = [x \in 1 .. D |-> Packed(part(x), bits)]
    BY <1>1, <1>2, <1>7, <1>11 DEF PackPerLong
  <2>2. w \in 1 .. D
    BY <1>7
  <2>3. part(w) = s
    BY <1>5, <1>8, <1>9
  <2>. HIDE DEF part
  <2>4. longs[w] = Packed(part(w), bits) /\ Len(longs) = D
    BY <2>1, <2>2
  <2>. QED BY <2>3, <2>4
<1>13. UnpackPerLong(longs, bits, n)[i] =
         IF w > D THEN 0 ELSE (longs[w] \div Pow2[f * bits]) % Pow2[bits]
  BY <1>1, <1>2, <1>3, <1>4, <1>12 DEF UnpackPerLong
<1>14. (Packed(s, bits) \div Pow2[(j - 1) * bits]) % Pow2[bits] = s[j]
  <2>1. (j - 1) * bits <= LongBits
    <3>1. f * bits <= per * bits /\ per * bits = bits * per /\ f * bits \in Nat
      BY <1>3
    <3>2. PICK p \in Nat, q \in Nat : p = f * bits /\ q = bits * per /\ p <= q
      BY <3>1
    <3>3. j - 1 = f
      BY <1>4
    <3>. QED BY <1>2, <3>2, <3>3, LongBitsType
  <2>2. s[j] < Pow2[bits]
    BY <1>1, <1>10
  <2>. QED BY <1>10, <2>1, <2>2, PackedValue
<1>. QED BY <1>1, <1>4, <1>7, <1>10, <1>11, <1>12, <1>13, <1>14

-----------------------------------------------------------------------------
(* Columns *)

\* Sections that keep no states while they are all air, and count the others right.
Sections == {EmptySection}
              \cup {[states |-> s, non_air |-> Count(s)] : s \in [1 .. Volume -> Nat]}
Columns  == [1 .. SectionCount -> Sections]

\* Sizes of a section.
LEMMA SizesAre ==
  /\ Side \in Nat \ {0} /\ SectionCount \in Nat \ {0} /\ MinY \in Int
  /\ Side * Side \in Nat \ {0} /\ Volume \in Nat \ {0} /\ Volume = Side * (Side * Side)
  /\ SectionCount * Side \in Nat
<1>1. Side \in Nat \ {0} /\ SectionCount \in Nat \ {0} /\ MinY \in Int
  BY SectionType
<1>2. PICK s \in Nat \ {0} : s = Side
  BY <1>1
<1>3. s * s \in Nat \ {0}
  OBVIOUS
<1>4. (s * s) * s \in Nat \ {0} /\ (s * s) * s = s * (s * s)
  <2>1. PICK t \in Nat \ {0} : t = s * s
    BY <1>3
  <2>2. t * s \in Nat \ {0} /\ t * s = s * t
    OBVIOUS
  <2>. QED BY <2>1, <2>2
<1>. QED BY <1>1, <1>2, <1>3, <1>4 DEF Volume

\* A section has no block that is not air just when it counts none.
LEMMA CountIsZero ==
  ASSUME NEW states \in [1 .. Volume -> Nat]
  PROVE  (Count(states) = 0) <=> (\A i \in 1 .. Volume : states[i] = Air)
<1>. DEFINE S == {i \in DOMAIN states : states[i] # Air}
<1>1. IsFiniteSet(S)
  <2>1. IsFiniteSet(1 .. Volume)
    BY SizesAre, FS_Interval
  <2>. QED BY <2>1, FS_Subset
<1>2. Count(states) = 0 <=> S = {}
  BY <1>1, FS_EmptySet DEF Count
<1>. QED BY <1>2

\* States kept are not the absence of any.
LEMMA StatesKept ==
  ASSUME NEW states \in [1 .. Volume -> Nat]
  PROVE  states # <<>>
<1>1. 1 \in DOMAIN states
  BY SizesAre
<1>2. DOMAIN <<>> = {}
  OBVIOUS
<1>. QED BY <1>1, <1>2

\* What a block of a section is, and when a section counts none.
LEMMA SectionStates ==
  ASSUME NEW section \in Sections, NEW i \in 1 .. Volume
  PROVE  /\ State(section, i) \in Nat
         /\ section.non_air = 0 => State(section, i) = Air
         /\ section.non_air # 0 => State(section, i) = section.states[i]
<1>1. CASE section = EmptySection
  BY <1>1 DEF EmptySection, State, Air
<1>2. ASSUME NEW s \in [1 .. Volume -> Nat], section = [states |-> s, non_air |-> Count(s)]
      PROVE  /\ State(section, i) = section.states[i] /\ s[i] \in Nat
             /\ section.non_air = 0 => s[i] = Air
  BY <1>2, StatesKept, CountIsZero DEF State
<1>. QED BY <1>1, <1>2 DEF Sections

\* The ground a seed yields is a column of well counted sections,
LEMMA GroundIsColumn ==
  ASSUME NEW surface \in [1 .. Side * Side -> Int]
  PROVE  Ground(surface) \in Columns
<1>. DEFINE height(i, b) == MinY + (i - 1) * Side + ((b - 1) \div (Side * Side))
            under(b) == surface[((b - 1) % (Side * Side)) + 1]
            states(i) == [b \in 1 .. Volume |-> LayerAt(height(i, b), under(b))]
<1>1. ASSUME NEW i \in 1 .. SectionCount, NEW b \in 1 .. Volume
      PROVE  LayerAt(height(i, b), under(b)) \in Nat
  <2>1. PICK a \in Nat \ {0} : a = Side * Side
    BY SizesAre
  <2>2. b - 1 \in Nat
    BY SizesAre
  <2>3. (b - 1) \div a \in Nat /\ (b - 1) % a \in 0 .. a - 1
    BY <2>2, Quotient
  <2>4. (i - 1) * Side \in Nat
    <3>1. PICK j \in Nat, s \in Nat : j = i - 1 /\ s = Side
      BY SizesAre
    <3>. QED BY <3>1
  <2>5. PICK y \in Int, t \in Int : y = height(i, b) /\ t = under(b) /\ y >= MinY
    <3>1. height(i, b) \in Int /\ height(i, b) >= MinY
      <4>1. PICK p \in Nat, q \in Nat : p = (i - 1) * Side /\ q = (b - 1) \div (Side * Side)
        BY <2>1, <2>3, <2>4
      <4>2. MinY + p + q \in Int /\ MinY + p + q >= MinY
        BY SizesAre
      <4>. QED BY <4>1, <4>2
    <3>2. under(b) \in Int
      BY <2>1, <2>3
    <3>. QED BY <3>1, <3>2
  <2>6. LayerAt(y, t) \in Nat
    <3>1. PICK m \in Int, d \in Nat : m = MinY /\ d = DirtDepth
      BY LayersType, SizesAre
    <3>2. /\ Layers["floor"] \in Nat /\ Layers["top"] \in Nat
          /\ Layers["soil"] \in Nat /\ Layers["rock"] \in Nat
      BY LayersType
    <3>3. CASE y = m
      BY <3>1, <3>2, <3>3 DEF LayerAt
    <3>4. CASE y > m /\ y > t
      BY <3>1, <3>2, <3>4 DEF LayerAt, Air
    <3>5. CASE y > m /\ y = t
      BY <3>1, <3>2, <3>5 DEF LayerAt
    <3>6. CASE y > m /\ y \in t - d .. t - 1
      BY <3>1, <3>2, <3>6 DEF LayerAt
    <3>7. CASE y > m /\ y < t - d
      BY <3>1, <3>2, <3>7 DEF LayerAt
    <3>. QED BY <2>5, <3>1, <3>3, <3>4, <3>5, <3>6, <3>7
  <2>. QED BY <2>5, <2>6
<1>2. ASSUME NEW i \in 1 .. SectionCount
      PROVE  (IF Count(states(i)) = 0 THEN EmptySection
              ELSE [states |-> states(i), non_air |-> Count(states(i))]) \in Sections
  <2>1. states(i) \in [1 .. Volume -> Nat]
    BY <1>1
  <2>. QED BY <2>1 DEF Sections
<1>. QED BY <1>2 DEF Ground, Columns

\* and one it stays when a block of it is changed.
LEMMA SetBlockKeepsColumn ==
  ASSUME NEW chunk \in Columns, NEW x, NEW y, NEW z, NEW state \in Nat
  PROVE  SetBlock(chunk, x, y, z, state) \in Columns
<1>1. ASSUME NEW section \in Sections, NEW i PROVE WithState(section, i, state) \in Sections
  <2>. DEFINE states == [[j \in 1 .. Volume |-> State(section, j)] EXCEPT ![i] = state]
  <2>1. \A j \in 1 .. Volume : State(section, j) \in Nat
    BY SectionStates
  <2>2. states \in [1 .. Volume -> Nat]
    BY <2>1
  <2>. QED BY <2>2 DEF WithState, Sections
<1>. QED BY <1>1 DEF SetBlock, Columns

\* However players have changed the ground, its sections are well counted.
LEMMA ColumnIsColumn ==
  ASSUME NEW surface \in [1 .. Side * Side -> Int],
         NEW changes \in Seq([x : Int, y : Int, z : Int, state : Nat])
  PROVE  Column(surface, changes) \in Columns
<1>. DEFINE n == Len(changes)
            after(chunk, k) == SetBlock(chunk, changes[k].x, changes[k].y, changes[k].z,
                                        changes[k].state)
            Goes(g) == g = [k \in 0 .. n |-> IF k = 0 THEN Ground(surface) ELSE after(g[k - 1], k)]
            step == [k \in 1 .. n |-> [c \in Columns |-> after(c, k)]]
            c == CHOOSE f : Goes(f)
<1>0. n \in Nat /\ Ground(surface) \in Columns
  BY LenProperties, GroundIsColumn
<1>1. \A chunk \in Columns, k \in 1 .. n : after(chunk, k) \in Columns
  <2>1. \A k \in 1 .. n : changes[k] \in [x : Int, y : Int, z : Int, state : Nat]
    BY ElementOfSeq
  <2>2. \A k \in 1 .. n : changes[k].state \in Nat
    BY <2>1
  <2>. QED BY <2>2, SetBlockKeepsColumn
<1>2. Column(surface, changes) = c[n]
  BY DEF Column
<1>. HIDE DEF after, n
<1>3. step \in [1 .. n -> [Columns -> Columns]]
  BY <1>1
<1>4. \A k \in 1 .. n : \A d \in Columns : step[k][d] = after(d, k)
  OBVIOUS
<1>. HIDE DEF step
<1>5. PICK g : Stepping(g, Columns, Ground(surface), n, step)
  BY <1>0, <1>3, Recursion
<1>6. Goes(g)
  <2>1. ASSUME NEW k \in 1 .. n PROVE g[k] = after(g[k - 1], k)
    <3>1. k - 1 \in 0 .. n
      BY <1>0
    <3>2. g[k - 1] \in Columns /\ g[k] = step[k][g[k - 1]]
      BY <1>5, <3>1 DEF Stepping
    <3>. QED BY <1>4, <3>2
  <2>. QED BY <1>0, <1>5, <2>1 DEF Stepping
<1>7. Goes(c)
  BY <1>6
<1>. HIDE DEF c
<1>8. /\ c = [k \in 0 .. n |-> c[k]] /\ c[0] = Ground(surface)
      /\ \A k \in 1 .. n : c[k] = after(c[k - 1], k)
  <2>1. PICK d : d = [k \in 0 .. n |-> IF k = 0 THEN Ground(surface) ELSE after(c[k - 1], k)]
    OBVIOUS
  <2>2. c = d
    BY <1>7, <2>1
  <2>. QED BY <1>0, <2>1, <2>2
<1>9. \A k \in 1 .. n : c[k - 1] \in Columns => c[k] = step[k][c[k - 1]]
  BY <1>4, <1>8
<1>10. Stepping(c, Columns, Ground(surface), n, step)
  BY <1>0, <1>3, <1>8, <1>9, StepsStay
<1>. QED BY <1>0, <1>2, <1>10 DEF Stepping

\* Every block of a section has an index of its own range.
LEMMA IndexInSection ==
  ASSUME NEW y \in Across, NEW z \in Across, NEW x \in Across
  PROVE  Index(y, z, x) \in 1 .. Volume
<1>1. PICK s \in Nat \ {0} : s = Side /\ Across = 0 .. s - 1
  BY SizesAre DEF Across
<1>2. y \in Nat /\ z \in Nat /\ x \in Nat /\ y <= s - 1 /\ z <= s - 1 /\ x <= s - 1
  BY <1>1
<1>3. PICK a \in Nat : a = y * s + z /\ a <= s * s - 1
  <2>1. y * s \in Nat /\ y * s <= (s - 1) * s /\ (s - 1) * s = s * s - s /\ s * s \in Nat
    BY <1>2
  <2>2. y * s + z \in Nat /\ y * s + z <= s * s - 1
    BY <1>2, <2>1
  <2>. QED BY <2>2
<1>4. PICK b \in Nat : b = s * s
  OBVIOUS
<1>5. a * s + x \in Nat /\ a * s + x <= b * s - 1
  <2>1. a * s \in Nat /\ a * s <= (b - 1) * s /\ (b - 1) * s = b * s - s /\ b * s \in Nat
    BY <1>3, <1>4
  <2>. QED BY <1>2, <2>1
<1>6. Index(y, z, x) = (a * s + x) + 1
  BY <1>1, <1>3 DEF Index
<1>7. Volume = b * s /\ b * s \in Nat
  BY <1>1, <1>4 DEF Volume
<1>. QED BY <1>5, <1>6, <1>7

\* The block h blocks up a column of blocks, and the section it is in.
Above(chunk, h, z, x) == State(chunk[((h - 1) \div Side) + 1], Index((h - 1) % Side, z, x))

\* Every height of the column is in one of its sections.
LEMMA SectionOfHeight ==
  ASSUME NEW h \in 1 .. SectionCount * Side
  PROVE  (h - 1) \div Side \in 0 .. SectionCount - 1 /\ (h - 1) % Side \in Across
<1>1. PICK s \in Nat \ {0}, n \in Nat \ {0} : s = Side /\ n = SectionCount
  BY SizesAre
<1>2. PICK m \in Nat : m = n * s
  BY <1>1
<1>3. h - 1 \in Nat /\ h - 1 < m
  BY <1>1, <1>2
<1>4. PICK q \in Nat, r \in 0 .. s - 1 : q = (h - 1) \div s /\ r = (h - 1) % s /\ h - 1 = s * q + r
  BY <1>3, QuotientParts
<1>5. ASSUME n <= q PROVE FALSE
  <2>1. s * n <= s * q /\ s * n = n * s
    BY <1>5
  <2>2. PICK p \in Nat : p = s * q
    OBVIOUS
  <2>. QED BY <1>2, <1>3, <1>4, <2>1, <2>2
<1>. QED BY <1>1, <1>4, <1>5 DEF Across

\* The block at a height is the one that many blocks up the column.
LEMMA BlockAbove ==
  ASSUME NEW chunk, NEW x \in Across, NEW z \in Across, NEW y \in Heights
  PROVE  /\ y - MinY + 1 \in 1 .. SectionCount * Side
         /\ GetBlock(chunk, x, y, z) = Above(chunk, y - MinY + 1, z, x)
<1>1. PICK h \in 1 .. SectionCount * Side : h = y - MinY + 1 /\ h - 1 = y - MinY
  BY SizesAre DEF Heights
<1>2. Inside(y)
  BY <1>1, SectionOfHeight DEF Inside
<1>3. z % Side = z /\ x % Side = x
  <2>1. PICK s \in Nat \ {0} : s = Side /\ Across = 0 .. s - 1
    BY SizesAre DEF Across
  <2>2. \A v \in 0 .. s - 1 : v % s = v
    BY SmallRemainder
  <2>. QED BY <2>1, <2>2
<1>. QED BY <1>1, <1>2, <1>3 DEF GetBlock, Above, SectionAt, Local

\* The height of a column of blocks is one above its topmost block.
LEMMA HeightIs ==
  ASSUME NEW chunk \in Columns, NEW z \in Across, NEW x \in Across
  PROVE  /\ HeightOf(chunk, z, x) \in 0 .. SectionCount * Side
         /\ \A h \in 1 .. SectionCount * Side :
              /\ h > HeightOf(chunk, z, x) => Above(chunk, h, z, x) = Air
              /\ h = HeightOf(chunk, z, x) => Above(chunk, h, z, x) # Air
<1>. DEFINE section(h) == chunk[((h - 1) \div Side) + 1]
            Top == SectionCount * Side
            tops == {h \in 1 .. Top :
                       /\ section(h).non_air # 0
                       /\ section(h).states[Index((h - 1) % Side, z, x)] # Air}
<1>1. ASSUME NEW h \in 1 .. Top PROVE h \in tops <=> Above(chunk, h, z, x) # Air
  <2>1. (h - 1) \div Side + 1 \in 1 .. SectionCount /\ (h - 1) % Side \in Across
    <3>1. PICK n \in Nat : n = SectionCount
      BY SizesAre
    <3>2. PICK q \in 0 .. n - 1 : q = (h - 1) \div Side
      BY <3>1, SectionOfHeight
    <3>. QED BY <3>1, <3>2, SectionOfHeight
  <2>2. PICK s \in Sections : s = section(h)
    BY <2>1 DEF Columns
  <2>3. PICK i \in 1 .. Volume : i = Index((h - 1) % Side, z, x)
    BY <2>1, IndexInSection
  <2>4. h \in tops <=> s.non_air # 0 /\ s.states[i] # Air
    BY <2>2, <2>3
  <2>5. Above(chunk, h, z, x) = State(s, i)
    BY <2>2, <2>3 DEF Above
  <2>. QED BY <2>4, <2>5, SectionStates
<1>2. Top \in Nat /\ tops \in SUBSET (1 .. Top)
  BY SizesAre
<1>3. HeightOf(chunk, z, x) = IF tops = {} THEN 0 ELSE CHOOSE h \in tops : \A g \in tops : g <= h
  BY DEF HeightOf
<1>. HIDE DEF tops, Top
<1>4. CASE tops = {}
  BY <1>1, <1>2, <1>3, <1>4 DEF Top
<1>5. CASE tops # {}
  <2>1. \E h \in tops : \A g \in tops : g <= h
    BY <1>2, <1>5, LastExists
  <2>2. PICK t \in tops : t = HeightOf(chunk, z, x) /\ \A g \in tops : g <= t
    BY <1>3, <1>5, <2>1
  <2>3. t \in 1 .. Top
    BY <1>2
  <2>4. \A h \in 1 .. Top : h > t => h \notin tops
    BY <1>2, <2>2, <2>3
  <2>. QED BY <1>1, <1>2, <2>2, <2>3, <2>4 DEF Top
<1>. QED BY <1>4, <1>5

\* The heights of a column fit the width they are packed into.
LEMMA HeightsFit ==
  /\ HeightBits \in 1 .. LongBits
  /\ \A h \in 0 .. SectionCount * Side : h < Pow2[HeightBits]
<1>1. PICK top \in Nat : top = SectionCount * Side
  BY SizesAre
<1>2. LongBits \in Nat \ {0} /\ Pow2[LongBits] \in Nat /\ top < Pow2[LongBits]
  BY <1>1, LongBitsType, PackingType, Pow2Type
<1>3. PICK n \in Nat : n = top + 1 /\ n <= Pow2[LongBits]
  BY <1>2
<1>4. PICK least \in 1 .. LongBits : least = 1
  BY <1>2
<1>5. BitsFor(n, least) \in least .. LongBits /\ Pow2[BitsFor(n, least)] >= n
  BY <1>3, BitsForFits
<1>6. HeightBits = BitsFor(n, least)
  BY <1>1, <1>3, <1>4 DEF HeightBits
<1>7. HeightBits \in 0 .. LongBits /\ HeightBits \in 1 .. LongBits
  BY <1>2, <1>4, <1>5, <1>6
<1>8. PICK p \in Nat : p = Pow2[HeightBits]
  BY <1>7, Pow2Type
<1>9. p >= n
  BY <1>5, <1>6, <1>8
<1>. QED BY <1>1, <1>3, <1>7, <1>8, <1>9

\* The height map of any column is right.
LEMMA ColumnMapped ==
  ASSUME NEW chunk \in Columns
  PROVE  Mapped(chunk)
<1>1. PICK n \in Nat \ {0} : n = Side * Side
  BY SizesAre
<1>2. PICK heights : heights = ColumnHeights(chunk)
  OBVIOUS
<1>3. ASSUME NEW k \in 1 .. n
      PROVE  /\ ColumnAt(k).z \in Across /\ ColumnAt(k).x \in Across
             /\ heights[k] = HeightOf(chunk, ColumnAt(k).z, ColumnAt(k).x)
  <2>1. PICK s \in Nat \ {0} : s = Side /\ n = s * s /\ Across = 0 .. s - 1
    BY <1>1, SizesAre DEF Across
  <2>2. k - 1 \in Nat /\ k - 1 < n
    OBVIOUS
  <2>3. PICK q \in Nat, r \in 0 .. s - 1 : q = (k - 1) \div s /\ r = (k - 1) % s /\ k - 1 = s * q + r
    BY <2>2, QuotientParts
  <2>4. ASSUME s <= q PROVE FALSE
    <3>1. s * s <= s * q
      BY <2>4
    <3>2. PICK p \in Nat : p = s * q
      OBVIOUS
    <3>. QED BY <2>1, <2>2, <2>3, <3>1, <3>2
  <2>5. ColumnAt(k) = [z |-> q, x |-> r]
    BY <2>1, <2>3 DEF ColumnAt
  <2>6. q \in Across /\ r \in Across
    BY <2>1, <2>3, <2>4
  <2>7. heights[k] = HeightOf(chunk, ColumnAt(k).z, ColumnAt(k).x)
    BY <1>1, <1>2 DEF ColumnHeights
  <2>. QED BY <2>5, <2>6, <2>7
<1>4. \A k \in 1 .. n : heights[k] \in 0 .. SectionCount * Side
  BY <1>3, HeightIs
<1>5. heights \in Seq(Nat) /\ Len(heights) = n
  <2>1. PICK top \in Nat : top = SectionCount * Side
    BY SizesAre
  <2>2. \A k \in 1 .. n : heights[k] \in Nat
    BY <1>4, <2>1
  <2>3. heights = [k \in 1 .. n |-> HeightOf(chunk, ColumnAt(k).z, ColumnAt(k).x)]
    BY <1>1, <1>2 DEF ColumnHeights
  <2>. QED BY <2>2, <2>3
<1>6. PICK map : map = Heightmap(PackHeightmap(heights))
  OBVIOUS
<1>7. ASSUME NEW k \in 1 .. n PROVE map[k] = heights[k]
  <2>1. PICK bits \in 1 .. LongBits : bits = HeightBits
    BY HeightsFit
  <2>2. \A i \in 1 .. Len(heights) : heights[i] < Pow2[bits]
    BY <1>4, <1>5, <2>1, HeightsFit
  <2>3. map = UnpackPerLong(PackPerLong(heights, bits), bits, Len(heights))
    BY <1>1, <1>5, <1>6, <2>1 DEF Heightmap, PackHeightmap
  <2>. QED BY <1>5, <2>2, <2>3, UnpacksPacked
<1>8. ASSUME NEW x \in Across, NEW z \in Across
      PROVE  map[z * Side + x + 1] = HeightOf(chunk, z, x)
  <2>1. PICK s \in Nat \ {0} : s = Side /\ n = s * s /\ Across = 0 .. s - 1
    BY <1>1, SizesAre DEF Across
  <2>2. PICK p \in Nat : p = z * s /\ p <= n - s
    <3>1. z \in Nat /\ z <= s - 1
      BY <2>1
    <3>2. z * s \in Nat /\ z * s <= (s - 1) * s /\ (s - 1) * s = s * s - s
      BY <3>1
    <3>. QED BY <2>1, <3>2
  <2>3. PICK k \in 1 .. n : k = p + x + 1 /\ k - 1 = p + x
    BY <2>1, <2>2
  <2>4. (k - 1) \div s = z /\ (k - 1) % s = x
    <3>1. z \in Nat /\ x \in 0 .. s - 1 /\ s * z = z * s
      BY <2>1
    <3>2. PICK y : y = k - 1 /\ y = s * z + x
      BY <2>2, <2>3, <3>1
    <3>3. y \div s = z /\ y % s = x
      BY <3>1, <3>2, QuotientIs
    <3>. QED BY <3>2, <3>3
  <2>5. ColumnAt(k) = [z |-> z, x |-> x]
    BY <2>1, <2>4 DEF ColumnAt
  <2>6. z * Side + x + 1 = k
    BY <2>1, <2>2, <2>3
  <2>. QED BY <1>3, <1>7, <2>5, <2>6
<1>9. ASSUME NEW x \in Across, NEW z \in Across, NEW y \in Heights
      PROVE  /\ y >= MinY + map[z * Side + x + 1] => GetBlock(chunk, x, y, z) = Air
             /\ y = MinY + map[z * Side + x + 1] - 1 => GetBlock(chunk, x, y, z) # Air
  <2>0. PICK top \in Nat : top = SectionCount * Side
    BY SizesAre
  <2>1. PICK h \in 1 .. top : top = SectionCount * Side /\ h = y - MinY + 1
    BY <2>0, BlockAbove
  <2>2. GetBlock(chunk, x, y, z) = Above(chunk, h, z, x)
    BY <2>1, BlockAbove
  <2>3. PICK t \in 0 .. top : t = map[z * Side + x + 1] /\ t = HeightOf(chunk, z, x)
    BY <1>8, <2>1, HeightIs
  <2>4. PICK low \in Int : low = MinY
    BY SizesAre
  <2>5. y \in Int
    BY SizesAre DEF Heights
  <2>6. (y >= low + t <=> h > t) /\ (y = low + t - 1 <=> h = t)
    BY <2>1, <2>4, <2>5
  <2>. QED BY <2>1, <2>2, <2>3, <2>4, <2>6, HeightIs
<1>10. \A x \in Across, z \in Across : map[z * Side + x + 1] \in 0 .. SectionCount * Side
  BY <1>8, HeightIs
<1>. QED BY <1>2, <1>6, <1>9, <1>10 DEF Mapped

\* HeightsRight holds in every reachable state: whatever terrain a chunk in memory has, and
\* whatever players have built and dug of it, the height map sent and saved with it says
\* where its topmost blocks are.
THEOREM HeightsRightAlways == Spec => []HeightsRight
<1>1. ASSUME NEW shape \in Shapes, NEW sections \in ColumnsOf(shape) PROVE Mapped(sections)
  <2>1. shape.terrain \in Seeds
    BY DEF Shapes
  <2>2. PICK changes \in Seq([x : Int, y : Int, z : Int, state : Nat]) :
          sections = Column(Surface[shape.terrain], changes)
    BY ChangesType, EmptySeq DEF ColumnsOf
  <2>3. Surface[shape.terrain] \in [1 .. Side * Side -> Int]
    BY <2>1, SurfaceType
  <2>. QED BY <2>2, <2>3, ColumnIsColumn, ColumnMapped
<1>2. TypeOK => HeightsRight
  <2>. SUFFICES ASSUME TypeOK, NEW c \in DOMAIN cache PROVE Shape(cache[c]) \in MappedShapes
    BY DEF HeightsRight
  <2>1. cache[c] \in Content
    BY DEF TypeOK
  <2>2. Shape(cache[c]) \in Shapes
    <3>1. PICK s \in Seeds, e \in BOOLEAN : s = cache[c].terrain /\ e = (cache[c].edit # 0)
      BY <2>1 DEF Content
    <3>2. Shape(cache[c]) = [terrain |-> s, edited |-> e]
      BY <3>1 DEF Shape
    <3>. QED BY <3>2 DEF Shapes
  <2>. QED BY <1>1, <2>2 DEF MappedShapes
<1>. QED BY <1>2, TypeCorrect, PTL
=============================================================================
