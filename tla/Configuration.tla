---------------------------- MODULE Configuration ----------------------------
(***************************************************************************)
(* The files of the directory config.d and the factory they define: which  *)
(* of them are read, in which order, and how their instances are merged.   *)
(* A file is a record: what it is in the directory, its extension, and for *)
(* an XML file its document: "factory" when it can be parsed, its root is  *)
(* "system" and it has the element of that name.                           *)
(***************************************************************************)
EXTENDS Naturals, Sequences, SequencesExt

EmptyFactory == [instances |-> <<>>, aliases |-> <<>>]

(* shouldSkip(): "xml_disable" and the like. *)
ShouldSkip(file) == file.extension = "xml_disable"

(* exploreOne(): a link to a directory counts as the directory. *)
ExploreOne(file) == file.is = "file" /\ ~ShouldSkip(file)

(* exploreDirectory(): the iterator gives the names in order. *)
ExploreDirectory(files) == SelectSeq(files, ExploreOne)

(* loadXml() throws what DIXmlLoader throws; a file with another extension *)
(* is loaded by the application, whose errors are only logged.             *)
Broken(file) == file.extension = "xml" /\ file.document # "factory"

LoadFails(files) == \E i \in DOMAIN files : ExploreOne(files[i]) /\ Broken(files[i])

(* DIXmlLoader::load(): the first document is kept, of the others the      *)
(* children of the factory are appended to it.                             *)
Merge(document, file) ==
  IF file.extension # "xml" THEN document
  ELSE [instances |-> document.instances \o file.factory.instances,
        aliases   |-> document.aliases \o file.factory.aliases]

(* explore() and finished(). *)
Explore(files) == FoldLeft(Merge, EmptyFactory, ExploreDirectory(files))
=============================================================================
