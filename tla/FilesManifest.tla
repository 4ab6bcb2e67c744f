---------------------------- MODULE FilesManifest ----------------------------
(***************************************************************************)
(* src/tools/generate_files.py: os.walk over the working directory; for    *)
(* every .qcow2 file, in sorted order within each directory, an entry with *)
(* its name, its md5sum and its mtime; then files.json is written.         *)
(*                                                                         *)
(* A file name is a pair <<stem, extension>>.  File contents are versions: *)
(* each write of a file gives it new content, so the md5sum of a content   *)
(* stands for the content itself, <<path, version>>.  Other processes may  *)
(* add, remove or rewrite files while the script runs.  The JSON text is   *)
(* left out: files.json holds the sequence of entries json.dump wrote.    *)
(* The clock counts seconds, the resolution of last_modified_time.        *)
(***************************************************************************)
EXTENDS Naturals, Sequences, SequencesExt

CONSTANTS
    Dirs, Root, Parent,   \* the directory tree: Parent[d] contains d # Root
    Stems,                \* the stems of file names, in byte order
    Exts,                 \* the extensions, in byte order
    InitTrees,            \* the sets of files the tree can start with
    MaxClock,             \* bound on the clock
    MaxChanges            \* bound on the changes of other processes

Qcow2 == ".qcow2"
Names == {<<Stems[i], Exts[j]>> : i \in 1..Len(Stems), j \in 1..Len(Exts)}
Paths == Dirs \X Names
Children(d) == {c \in Dirs \ {Root} : Parent[c] = d}

Rank(s, x) == CHOOSE i \in 1..Len(s) : s[i] = x

(* sorted(filenames): the byte order of stem + extension.                  *)
NameBefore(m, n) ==
    \/ Rank(Stems, m[1]) < Rank(Stems, n[1])
    \/ m[1] = n[1] /\ Rank(Exts, m[2]) < Rank(Exts, n[2])

(* files.json as a previous run left it, as open(..., "w") leaves it, and *)
(* as json.dump writes it.                                                 *)
OldManifest == [state |-> "old", files |-> <<>>]
Truncated == [state |-> "empty", files |-> <<>>]
Manifest(files) == [state |-> "written", files |-> files]

VARIABLES
    present,    \* the files that exist
    version,    \* how often each file has been written
    mtime,      \* st_mtime of each file
    history,    \* every <<content, mtime>> a file has had, by path
    clock,
    stack,      \* os.walk: the directories still to visit, next first
    dir,        \* the directory whose files the loop goes through
    todo,       \* sorted(filenames) of dir, still to handle
    hash,       \* md5_hash of the file at the head of todo, once taken
    entries,    \* files_data["files"]
    manifest,   \* files.json
    pc,         \* "walk", "mtime", "open", "dump", "done" or "crashed"
    changes

vars == <<present, version, mtime, history, clock, stack, dir, todo, hash,
          entries, manifest, pc, changes>>

Content(p) == <<p, version[p]>>

(* Mutant of Init: files.json is opened before the walk, as a            *)
(* with open(output_file, "w") around the loop would do.                   *)
InitOpened ==
    /\ present \in InitTrees
    /\ version = [p \in Paths |-> 0]
    /\ mtime = [p \in Paths |-> 0]
    /\ history = [p \in Paths |-> IF p \in present THEN {<<<<p, 0>>, 0>>}
                                  ELSE {}]
    /\ clock = 0
    /\ stack = <<Root>>
    /\ dir = Root
    /\ todo = <<>>
    /\ hash = <<>>
    /\ entries = <<>>
    /\ manifest = Truncated
    /\ pc = "walk"
    /\ changes = 0

Init ==
    /\ present \in InitTrees
    /\ version = [p \in Paths |-> 0]
    /\ mtime = [p \in Paths |-> 0]
    /\ history = [p \in Paths |-> IF p \in present THEN {<<<<p, 0>>, 0>>}
                                  ELSE {}]
    /\ clock = 0
    /\ stack = <<Root>>
    /\ dir = Root
    /\ todo = <<>>
    /\ hash = <<>>
    /\ entries = <<>>
    /\ manifest = OldManifest
    /\ pc = "walk"
    /\ changes = 0

(* for root, _, filenames in os.walk(directory): the next directory is    *)
(* listed and its filenames sorted; its subdirectories are visited next,  *)
(* depth first, in the order of the listing.  After the last directory    *)
(* the loop ends.                                                          *)
Walk ==
    /\ pc = "walk" /\ todo = <<>>
    /\ IF stack = <<>>
       THEN /\ pc' = "open"
            /\ UNCHANGED <<stack, dir, todo>>
       ELSE LET d == Head(stack) IN
            /\ dir' = d
            /\ todo' = SetToSortSeq({n \in Names : <<d, n>> \in present},
                                    NameBefore)
            /\ \E order \in SetToSeqs(Children(d)) :
                   stack' = order \o Tail(stack)
            /\ UNCHANGED pc
    /\ UNCHANGED <<present, version, mtime, history, clock, hash, entries,
                   manifest, changes>>

(* Mutant of Md5: the extension test is missing.                           *)
Md5AnyFile ==
    /\ pc = "walk" /\ todo # <<>>
    /\ LET p == <<dir, Head(todo)>> IN
       IF p \notin present
       THEN pc' = "crashed" /\ UNCHANGED hash
       ELSE hash' = Content(p) /\ pc' = "mtime"
    /\ UNCHANGED <<present, version, mtime, history, clock, stack, dir, todo,
                   entries, manifest, changes>>

(* The next filename: skipped unless it ends with .qcow2; otherwise       *)
(* md5_hash runs md5sum on it.  md5sum of a file that no longer exists    *)
(* prints nothing, and stdout.split()[0] raises IndexError.                *)
Md5 ==
    /\ pc = "walk" /\ todo # <<>>
    /\ LET p == <<dir, Head(todo)>> IN
       IF p[2][2] # Qcow2
       THEN todo' = Tail(todo) /\ UNCHANGED <<pc, hash>>
       ELSE IF p \notin present
       THEN pc' = "crashed" /\ UNCHANGED <<todo, hash>>
       ELSE hash' = Content(p) /\ pc' = "mtime" /\ UNCHANGED todo
    /\ UNCHANGED <<present, version, mtime, history, clock, stack, dir,
                   entries, manifest, changes>>

(* last_modified_time: os.path.getmtime (FileNotFoundError for a file     *)
(* removed since md5sum read it), then the entry is appended.              *)
LastModified ==
    /\ pc = "mtime"
    /\ LET p == <<dir, Head(todo)>> IN
       IF p \notin present
       THEN pc' = "crashed" /\ UNCHANGED <<todo, entries>>
       ELSE /\ entries' = Append(entries,
                   [name |-> p[2], signed |-> TRUE, hash |-> hash,
                    last_modified |-> mtime[p]])
            /\ todo' = Tail(todo)
            /\ pc' = "walk"
    /\ UNCHANGED <<present, version, mtime, history, clock, stack, dir, hash,
                   manifest, changes>>

(* with open(output_file, "w"): files.json is truncated ...                *)
Open ==
    /\ pc = "open"
    /\ manifest' = Truncated
    /\ pc' = "dump"
    /\ UNCHANGED <<present, version, mtime, history, clock, stack, dir, todo,
                   hash, entries, changes>>

(* ... and json.dump writes the entries into it.                           *)
Dump ==
    /\ pc = "dump"
    /\ manifest' = Manifest(entries)
    /\ pc' = "done"
    /\ UNCHANGED <<present, version, mtime, history, clock, stack, dir, todo,
                   hash, entries, changes>>

Script == Walk \/ Md5 \/ LastModified \/ Open \/ Dump

(* Other processes: a file is added, removed, or rewritten; a write gives *)
(* the file new content and the current time as its mtime.                 *)
Change ==
    /\ changes < MaxChanges
    /\ changes' = changes + 1

Write(p) ==
    /\ version' = [version EXCEPT ![p] = @ + 1]
    /\ mtime' = [mtime EXCEPT ![p] = clock]
    /\ history' = [history EXCEPT ![p] = @ \cup {<<<<p, version[p] + 1>>, clock>>}]

AddFile ==
    \E p \in Paths \ present :
        /\ Change /\ Write(p)
        /\ present' = present \cup {p}
        /\ UNCHANGED <<clock, stack, dir, todo, hash, entries, manifest, pc>>

RewriteFile ==
    \E p \in present :
        /\ Change /\ Write(p)
        /\ UNCHANGED <<present, clock, stack, dir, todo, hash, entries,
                       manifest, pc>>

RemoveFile ==
    \E p \in present :
        /\ Change
        /\ present' = present \ {p}
        /\ UNCHANGED <<version, mtime, history, clock, stack, dir, todo, hash,
                       entries, manifest, pc>>

Tick ==
    /\ clock < MaxClock
    /\ clock' = clock + 1
    /\ UNCHANGED <<present, version, mtime, history, stack, dir, todo, hash,
                   entries, manifest, pc, changes>>

Finished == pc \in {"done", "crashed"} /\ UNCHANGED vars

Next == Script \/ AddFile \/ RewriteFile \/ RemoveFile \/ Tick \/ Finished

Spec == Init /\ [][Next]_vars /\ WF_vars(Script)

-----------------------------------------------------------------------------

TypeOK ==
    /\ present \subseteq Paths
    /\ pc \in {"walk", "mtime", "open", "dump", "done", "crashed"}
    /\ entries \in Seq([name : Names, signed : {TRUE},
                        hash : Paths \X Nat, last_modified : 0..MaxClock])
    /\ changes \in 0..MaxChanges

Written == manifest.state = "written"

(* The entry files.json should have for a file as it is now.               *)
EntryOf(p) ==
    [name |-> p[2], signed |-> TRUE, hash |-> Content(p),
     last_modified |-> mtime[p]]

(* A run of generate_files.py in a tree nothing else changes writes a     *)
(* files.json with one entry for each .qcow2 file of every directory the  *)
(* walk reaches, with the file's current md5sum and mtime, and no other.   *)
DescribesTree ==
    (pc = "done" /\ changes = 0) =>
        LET expected == {EntryOf(p) : p \in {q \in present : q[2][2] = Qcow2}}
        IN  /\ Range(manifest.files) = expected
            /\ Len(manifest.files) = Cardinality(expected)

(* Each entry of files.json pairs a hash and an mtime that one version of *)
(* a file with that name had: md5sum (line 98) and getmtime (line 99) read *)
(* the same content.                                                       *)
EntryFromOneVersion ==
    Written =>
        \A i \in DOMAIN manifest.files :
            \E p \in Paths :
                /\ p[2] = manifest.files[i].name
                /\ <<manifest.files[i].hash, manifest.files[i].last_modified>> \in history[p]

(* files.json is empty only between the open(output_file, "w") that      *)
(* truncates it and the json.dump that fills it: a run that fails in the  *)
(* walk (md5sum or getmtime of a removed file) leaves the files.json of   *)
(* the previous run in place, never an empty one.                          *)
EmptyOnlyWhileDumping == manifest = Truncated => pc = "dump"

=============================================================================
