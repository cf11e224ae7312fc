----------------------------- MODULE WorldStore -----------------------------
(***************************************************************************)
(* The world between memory and disk (loadstone-world world.rs, anvil.rs;  *)
(* loadstone-server main.rs): chunks generated from a seed and cached,     *)
(* edits that mark them dirty, a save that rewrites one region file after  *)
(* another and then the seed sidecar, autosave, shutdown, crash, restart.  *)
(*                                                                         *)
(* A save holds the world mutex from its first file to its last, so no     *)
(* edit falls between two of its files; a crash may.                       *)
(***************************************************************************)
EXTENDS Integers, FiniteSets

CONSTANTS
  Chunks,         \* chunk columns
  Regions,        \* region files, in the order a save writes them
  RegionOf,       \* the region file each chunk belongs to
  Seeds,          \* terrain seeds
  DefaultSeed,    \* the seed of a world that has none saved (0)
  NoSeed,         \* the sidecar does not exist or does not parse
  SeedFile,       \* stands for the sidecar among the files of a save: after every region
  MaxEdits,       \* bound on edits
  MaxStarts,      \* bound on starts
  MaxFaults       \* bound on crashes and failed file operations

ASSUME RegionsType  == Regions \subseteq Int /\ IsFiniteSet(Regions)
ASSUME RegionOfType == RegionOf \in [Chunks -> Regions]
ASSUME SeedsType    == DefaultSeed \in Seeds /\ NoSeed \notin Seeds
ASSUME SeedFileLast == SeedFile \in Int /\ \A r \in Regions : r < SeedFile
ASSUME BoundsType   == {MaxEdits, MaxStarts, MaxFaults} \subseteq Nat

\* A chunk: generated from a seed, then changed by edits, of which the last counts.
Content == [terrain : Seeds, edit : Nat]

VARIABLES
  phase,      \* "down", "running", "stopping", "final" (the shutdown save), "exiting"
  seed,       \* World.generator's seed
  cache,      \* World.chunks
  dirty,      \* World.dirty
  todo,       \* the files the save under way has yet to write; {} when there is none
  regions,    \* each region file: the chunks it holds (none: it does not exist)
  seed_file,  \* loadstone.seed
  suspect,    \* history: files whose last write was cut short, or which the start did
              \* not read or overrode, and which were not written whole since
  edits,      \* edits made so far: numbers them, and bounds the model
  starts,     \* starts so far (bounds the model only)
  faults      \* crashes and failed file operations so far (bounds the model only)

memory == <<phase, seed, cache, dirty, todo>>
disk   == <<regions, seed_file>>
vars   == <<memory, disk, suspect, edits, starts, faults>>

NoChunks   == [c \in {} |-> 0]
Up         == phase # "down"
Saving     == todo # {}
Part(f, S) == [c \in DOMAIN f \cap S |-> f[c]]
ChunksOf(r) == {c \in Chunks : RegionOf[c] = r}

\* terrain.rs: a pure function of the seed and the position.
Generated(s) == [terrain |-> s, edit |-> 0]

\* World::chunk: the cached chunk, or the one that would be generated.
InMemory(c) == IF c \in DOMAIN cache THEN cache[c] ELSE Generated(seed)

\* read_seed, and main's default.
SavedSeed == IF seed_file = NoSeed THEN DefaultSeed ELSE seed_file

Init ==
  /\ phase = "down"
  /\ seed = DefaultSeed
  /\ cache = NoChunks
  /\ dirty = {}
  /\ todo = {}
  /\ regions = [r \in Regions |-> NoChunks]
  /\ seed_file = NoSeed
  /\ suspect = {}
  /\ edits = 0
  /\ starts = 0
  /\ faults = 0

-----------------------------------------------------------------------------
(* Starting *)

\* load_from: every chunk of the region files that can be read.  A read error
\* is logged and the server starts with the files read before it.
Loaded(readable) ==
  LET stored == {c \in Chunks : RegionOf[c] \in readable /\ c \in DOMAIN regions[RegionOf[c]]}
  IN  [c \in stored |-> regions[RegionOf[c]][c]]

Start ==
  /\ phase = "down"
  /\ starts < MaxStarts
  /\ starts' = starts + 1
  /\ phase' = "running"
  /\ \E given \in Seeds \cup {NoSeed} :
       seed' = IF given = NoSeed THEN SavedSeed ELSE given
  /\ \E readable \in SUBSET Regions :
       /\ cache' = Loaded(readable)
       /\ faults' = IF readable = Regions THEN faults ELSE faults + 1
       /\ suspect' = {r \in Regions \ readable : regions[r] # NoChunks}
                       \cup (IF seed' = SavedSeed THEN {} ELSE {SeedFile})
  /\ faults' <= MaxFaults
  /\ dirty' = {}
  /\ UNCHANGED <<todo, disk, edits>>

-----------------------------------------------------------------------------
(* The shared world in use: under its mutex, so never during a save *)

\* World::chunk on behalf of a client's view or a mob: generate and cache.
Generate(c) ==
  /\ Up /\ ~Saving
  /\ c \notin DOMAIN cache
  /\ cache' = [d \in DOMAIN cache \cup {c} |-> InMemory(d)]
  /\ UNCHANGED <<phase, seed, dirty, todo, disk, suspect, edits, starts, faults>>

\* World::set_block: chunk_mut marks the chunk it hands out.
Edit(c) ==
  /\ Up /\ ~Saving
  /\ edits < MaxEdits
  /\ edits' = edits + 1
  /\ cache' = [d \in DOMAIN cache \cup {c} |->
                 IF d = c THEN [InMemory(c) EXCEPT !.edit = edits'] ELSE cache[d]]
  /\ dirty' = dirty \cup {c}
  /\ UNCHANGED <<phase, seed, todo, disk, suspect, starts, faults>>

-----------------------------------------------------------------------------
(* Saving *)

\* Faulty variant: a save writes the dirty chunks alone.
OnlyDirty == dirty

\* World::save passes write_chunks every cached chunk.
ToWrite == DOMAIN cache

BeginSave == todo' = {RegionOf[c] : c \in ToWrite} \cup {SeedFile}

\* Faulty variant: the condition of the autosave is inverted.
IsClean == dirty = {}

IsDirty == dirty # {}

\* save_world(force = false), by the autosave task; it outlives the signal to stop.
Autosave ==
  /\ Up /\ ~Saving
  /\ IsDirty
  /\ BeginSave
  /\ UNCHANGED <<phase, seed, cache, dirty, disk, suspect, edits, starts, faults>>

\* shutdown_signal resolves and the accept loop ends; connections live on.
ShutdownSignal ==
  /\ phase = "running"
  /\ phase' = "stopping"
  /\ UNCHANGED <<seed, cache, dirty, todo, disk, suspect, edits, starts, faults>>

\* save_world(force = true), once the mutex is free.
FinalSave ==
  /\ phase = "stopping" /\ ~Saving
  /\ phase' = "final"
  /\ BeginSave
  /\ UNCHANGED <<seed, cache, dirty, disk, suspect, edits, starts, faults>>

\* Regions go in ascending order, the sidecar last.
NextFile == CHOOSE f \in todo : \A g \in todo : f <= g

AfterSave == IF phase = "final" THEN "exiting" ELSE phase

\* Faulty variant: the chunks are not grouped by region.
WholeCache(r) == Part(cache, ToWrite)

RegionPart(r) == Part(cache, ToWrite \cap ChunksOf(r))

\* write_region: the file is rewritten from scratch.
WriteRegion ==
  /\ Saving /\ NextFile \in Regions
  /\ regions' = [regions EXCEPT ![NextFile] = RegionPart(NextFile)]
  /\ todo' = todo \ {NextFile}
  /\ suspect' = suspect \ {NextFile}
  /\ UNCHANGED <<phase, seed, cache, dirty, seed_file, edits, starts, faults>>

\* write_seed ends the save, and World::save clears the dirty set.
WriteSeed ==
  /\ Saving /\ NextFile = SeedFile
  /\ seed_file' = seed
  /\ suspect' = suspect \ {SeedFile}
  /\ dirty' = {}
  /\ todo' = {}
  /\ phase' = AfterSave
  /\ UNCHANGED <<seed, cache, regions, edits, starts, faults>>

\* What an interrupted fs::write (truncate, then write) leaves of the file: some
\* of the chunks (the reader skips a record that is cut short), or digits that do
\* not parse.
Torn ==
  \/ UNCHANGED disk
  \/ /\ NextFile \in Regions
     /\ \E kept \in SUBSET ChunksOf(NextFile) :
          regions' = [regions EXCEPT ![NextFile] = Part(cache, ToWrite \cap kept)]
     /\ UNCHANGED seed_file
  \/ /\ NextFile = SeedFile
     /\ seed_file' = NoSeed
     /\ UNCHANGED regions

\* Faulty variant: the dirty set is cleared whatever became of the files.
Forgotten == {}

StillDirty == dirty

\* A file operation fails: `?` abandons the save before the dirty set is cleared,
\* and save_world logs the error.
SaveFails ==
  /\ Saving
  /\ faults < MaxFaults
  /\ faults' = faults + 1
  /\ Torn
  /\ suspect' = IF disk' = disk THEN suspect ELSE suspect \cup {NextFile}
  /\ dirty' = StillDirty
  /\ todo' = {}
  /\ phase' = AfterSave
  /\ UNCHANGED <<seed, cache, edits, starts>>

-----------------------------------------------------------------------------
(* Stopping *)

Forget ==
  /\ phase' = "down"
  /\ seed' = DefaultSeed
  /\ cache' = NoChunks
  /\ dirty' = {}
  /\ todo' = {}
  /\ suspect' = {}
  /\ UNCHANGED <<edits, starts>>

\* main returns; the runtime waits for a poll under way, so for an autosave.
Exit ==
  /\ phase = "exiting" /\ ~Saving
  /\ Forget
  /\ UNCHANGED <<disk, faults>>

\* The process dies at any moment.
Crash ==
  /\ Up
  /\ faults < MaxFaults
  /\ faults' = faults + 1
  /\ Forget
  /\ IF Saving THEN Torn ELSE UNCHANGED disk

Saves == Autosave \/ FinalSave \/ WriteRegion \/ WriteSeed

Next ==
  \/ Start
  \/ \E c \in Chunks : Generate(c) \/ Edit(c)
  \/ Saves
  \/ ShutdownSignal
  \/ SaveFails
  \/ Exit
  \/ Crash

\* The autosave interval keeps ticking, and a save that has begun goes on.
Spec == Init /\ [][Next]_vars /\ WF_vars(Saves)

-----------------------------------------------------------------------------
(* Properties *)

\* The world the next start comes up with, when it is not given another seed.
Reloaded(c) ==
  IF c \in DOMAIN regions[RegionOf[c]] THEN regions[RegionOf[c]][c] ELSE Generated(SavedSeed)

\* The state's shape: a dirty chunk is cached, a file holds only its own chunks.
TypeOK ==
  /\ phase \in {"down", "running", "stopping", "final", "exiting"}
  /\ seed \in Seeds
  /\ DOMAIN cache \subseteq Chunks
  /\ cache \in [DOMAIN cache -> Content]
  /\ dirty \subseteq DOMAIN cache
  /\ todo \subseteq Regions \cup {SeedFile}
  /\ DOMAIN regions = Regions
  /\ \A r \in Regions : /\ DOMAIN regions[r] \subseteq ChunksOf(r)
                        /\ regions[r] \in [DOMAIN regions[r] -> Content]
  /\ seed_file \in Seeds \cup {NoSeed}
  /\ suspect \subseteq Regions \cup {SeedFile}
  /\ edits \in 0 .. MaxEdits
  /\ starts \in 0 .. MaxStarts
  /\ faults \in 0 .. MaxFaults

\* The chunks a crash may set back: the dirty ones, those of a suspect file, and, while
\* the sidecar is suspect, those that are on no file.
OnFile(c) == c \in DOMAIN regions[RegionOf[c]]
AtRisk    == {c \in Chunks : \/ c \in dirty \/ RegionOf[c] \in suspect
                             \/ SeedFile \in suspect /\ ~OnFile(c)}

\* The chunks whose file a save is writing.
Writing ==
  IF ~Saving THEN {}
  ELSE IF NextFile \in Regions THEN ChunksOf(NextFile) ELSE {c \in Chunks : ~OnFile(c)}

\* At every moment, in the middle of a save and after a failed one too, a crash sets
\* back no other chunk: each comes back as players saw it last.
OnlyRiskedLost ==
  Up => \A c \in Chunks \ AtRisk : Reloaded(c) = InMemory(c)

\* The store keeps the promise of DurableWorld: a save makes the world durable part by
\* part, exposes only the part it is writing, and is believed only when all of it is.
Durable == INSTANCE DurableWorld WITH
  up      <- Up,
  live    <- [c \in Chunks |-> IF Up THEN InMemory(c) ELSE Reloaded(c)],
  durable <- [c \in Chunks |-> Reloaded(c)],
  risk    <- AtRisk,
  writing <- Writing

ImplementsDurableWorld == Durable!Spec

\* Edits do not stay at risk for ever: a save that takes all of them comes to its end,
\* retried when one failed, unless the server goes down first.
EditsReachDisk == dirty # {} ~> dirty = {}
=============================================================================
