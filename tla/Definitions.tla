----------------------------- MODULE Definitions ------------------------------
(***************************************************************************)
(* Where the definitions of indexes come from: files in some directories,  *)
(* and assets built into the program (indexer/fsLoader.go, assetLoader.go  *)
(* and multipleDefsLoader.go). A definition that is there is a sequence of *)
(* one element, one that is not there or cannot be parsed the empty one.   *)
(***************************************************************************)
EXTENDS Integers, Sequences, SequencesExt, FiniteSets

CONSTANTS
    Names,        \* the names of the definitions, in alphabetical order
    FileSystems,  \* the contents the directories of definitions may have
    Assets,       \* what is built in, by its name
    Now           \* when the definitions are loaded

VARIABLE directories   \* of each directory, its files: what each is, by its name

ASSUME DefinitionsAssumption ==
    /\ Names \in Seq(Range(Names))
    /\ \A fs \in FileSystems : \A d \in DOMAIN fs : DOMAIN fs[d] \subseteq Range(Names)
    /\ DOMAIN Assets \subseteq Range(Names)
    /\ Now \in Nat

(* A later directory's file hides one of the same name. *)
Merged(dirs) == FoldLeft(LAMBDA found, dir : dir @@ found, <<>>, dirs)

walkDirectories == Merged(directories)

(* ParseDefinition: whatever is parsed is as new as the moment it is. *)
ParseDefinition(text) ==
    IF text.parses THEN <<[title |-> text.title, from |-> "asset", time |-> Now]>> ELSE <<>>

(* ParseDefinitionFile: and a file as new as the file. *)
ParseDefinitionFile(file) ==
    IF file.parses THEN <<[title |-> file.title, from |-> "file", time |-> file.time]>> ELSE <<>>

FileLoad(name) ==
    IF name \in DOMAIN walkDirectories THEN ParseDefinitionFile(walkDirectories[name]) ELSE <<>>

(* The resolver of the assets that are built in. *)
GzipAsset(name) == IF name \in DOMAIN Assets THEN <<Assets[name]>> ELSE <<>>

AssetLoad(name) == IF GzipAsset(name) = <<>> THEN <<>> ELSE ParseDefinition(GzipAsset(name)[1])

Newer(loaded, best) == loaded # <<>> /\ (best = <<>> \/ loaded[1].time > best[1].time)

(* MultipleDefinitionLoader.Load: the newest one that can be loaded. *)
Load(name) ==
    FoldLeft(LAMBDA best, loaded : IF Newer(loaded, best) THEN loaded ELSE best, <<>>,
             <<FileLoad(name), AssetLoad(name)>>)

(* Names only are listed, nothing is parsed. *)
FileNames == DOMAIN walkDirectories
AssetNames == DOMAIN Assets

Before(a, b) == \E i, j \in DOMAIN Names : i < j /\ Names[i] = a /\ Names[j] = b

(* The names of a set, each once, in alphabetical order. *)
InOrder(set) ==
    CHOOSE list \in [1 .. Cardinality(set) -> set] :
        \A i, j \in DOMAIN list : i < j => Before(list[i], list[j])

(* MultipleDefinitionLoader.ListAvailableIndexes *)
ListAvailableIndexes(matching) == InOrder((FileNames \cup AssetNames) \cap matching)
===============================================================================
