------------------------------ MODULE JsonStore ------------------------------
(***************************************************************************)
(* A JSON file written the way the backend writes its stores: dump into    *)
(* the fixed path <store>.tmp, then os.replace it over <store>.  Writers   *)
(* are concurrent requests that share the path and take no lock.           *)
(*                                                                         *)
(* Files are inodes: open(tmp, "w") truncates the inode the path names and *)
(* shares it with whoever has it open, os.replace moves it to the store's  *)
(* path, and an open descriptor follows its inode.  A dump reaches the     *)
(* file in one write when the file is closed.                              *)
(***************************************************************************)
CONSTANTS
  Writers,  \* each saves at most once: a new inode is named after its creator
  Initial,  \* the inode of the store at the start
  NoFile,   \* no inode
  Empty,    \* the content of a truncated file
  Torn      \* content that is no JSON document

Inodes == Writers \cup {Initial}

ASSUME InodesAssumption ==
  /\ Initial \notin Writers
  /\ NoFile \notin Inodes

VARIABLES
  live,  \* the inode at the store's path
  tmp,   \* the inode at <store>.tmp
  data,  \* the content of each inode
  fd     \* the inode each writer has open

files == <<live, tmp, data, fd>>

StoreInit(document) ==
  /\ live = Initial
  /\ tmp = NoFile
  /\ data = [i \in Inodes |-> IF i = Initial THEN document ELSE Empty]
  /\ fd = [w \in Writers |-> NoFile]

IsDocument(content) == content \notin {Empty, Torn}

(* json.load raises JSONDecodeError on anything else. *)
Readable == IsDocument(data[live])

(* Mutant: the store itself is opened for writing. *)
OpenLive(w) ==
  /\ fd' = [fd EXCEPT ![w] = live]
  /\ data' = [data EXCEPT ![live] = Empty]
  /\ UNCHANGED <<live, tmp>>

(* open(tmp, "w") *)
OpenTmp(w) ==
  /\ tmp' = IF tmp = NoFile THEN w ELSE tmp
  /\ fd' = [fd EXCEPT ![w] = tmp']
  /\ data' = [data EXCEPT ![tmp'] = Empty]
  /\ UNCHANGED live

(* json.dump and close, from offset 0 of the open inode: what another writer left *)
(* there survives beyond the end of a shorter document.                          *)
Overlay(old, document) ==
  IF old \in {Empty, document} THEN {document} ELSE {document, Torn}

DumpTmp(w, document) ==
  /\ data' \in {[data EXCEPT ![fd[w]] = c] : c \in Overlay(data[fd[w]], document)}
  /\ fd' = [fd EXCEPT ![w] = NoFile]
  /\ UNCHANGED <<live, tmp>>

(* os.replace(tmp, path); FileNotFoundError when another writer moved it first. *)
Publish ==
  /\ tmp # NoFile
  /\ live' = tmp
  /\ tmp' = NoFile
  /\ UNCHANGED <<data, fd>>

PublishFails == tmp = NoFile
=============================================================================
