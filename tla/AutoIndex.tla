------------------------------ MODULE AutoIndex ------------------------------
(***************************************************************************)
(* src/tools/autoindex.py: os.walk over the image tree, top-down, writing  *)
(* an index.html into every directory that lists its subdirectories and    *)
(* files with their modification times (and file sizes).                  *)
(*                                                                         *)
(* The tree's directories are fixed; other processes may add, remove or    *)
(* rewrite files while the script runs, and the script may be run again   *)
(* (nothing in the repository schedules it, so a rerun is a possibility,   *)
(* never an obligation).  Times are in minutes, the resolution of          *)
(* the "%d-%b-%Y %H:%M" the page shows, so a page shows an mtime exactly   *)
(* when it shows its minute.  Names, labels and the HTML text are left     *)
(* out: a page is the function from the entries it lists to what it shows. *)
(***************************************************************************)
EXTENDS Naturals, Sequences, SequencesExt

CONSTANTS
    Dirs,           \* the directories of the tree
    Root,           \* ROOT_DIR
    Parent,         \* Parent[d]: the directory that contains d # Root
    Names,          \* names of files other than index.html
    NameLen,        \* len() of each directory and file name
    InitTrees,      \* the sets of files the tree can start with
    Sizes,          \* st_size values
    MaxClock,       \* bound on the clock, in minutes
    MaxChanges,     \* bound on the changes of other processes
    Runs            \* bound on the runs of the script

Index == "index.html"
Paths == Dirs \X (Names \cup {Index})

(* The listing os.walk gets for a directory: its subdirectories.          *)
Children(d) == {c \in Dirs \ {Root} : Parent[c] = d}

NoScan == [dir |-> Root, files |-> {}]
(* What an index.html holds: one left by an earlier tree, none, what     *)
(* open(..., "w") leaves, or a generated listing (Listing below).          *)
Page(kind) == [kind |-> kind, dirs |-> <<>>, files |-> <<>>]
OldPage == Page("old")
NoPage == Page("none")
EmptyPage == Page("empty")

VARIABLES
    present,    \* the files that exist
    fmtime,     \* st_mtime of each file
    fsize,      \* st_size of each file
    dmtime,     \* st_mtime of each directory
    page,       \* what each index.html holds
    clock,
    run,        \* the number of the current run of the script
    stack,      \* os.walk: the directories still to visit, next first
    scan,       \* the directory os.walk has just listed, and its files
    html,       \* html_content: the page generated for scan.dir
    pc,         \* "walk", "generate", "open", "write", "done" or "crashed"
    changes,    \* changes made by other processes so far
    since       \* runs started after the last change by another process

vars == <<present, fmtime, fsize, dmtime, page, clock, run, stack, scan, html,
          pc, changes, since>>

Init ==
    /\ present \in InitTrees
    /\ fmtime = [p \in Paths |-> 0]
    /\ fsize = [p \in Paths |-> CHOOSE s \in Sizes : TRUE]
    /\ dmtime = [d \in Dirs |-> 0]
    /\ page = [d \in Dirs |-> IF <<d, Index>> \in present THEN OldPage
                              ELSE NoPage]
    /\ clock = 0
    /\ run = 1
    /\ stack = <<Root>>
    /\ scan = NoScan
    /\ html = NoPage
    /\ pc = "walk"
    /\ changes = 0
    /\ since = 1

FilesIn(d) == {n \in Names \cup {Index} : <<d, n>> \in present}

(* Mutant of limit_filename_length: the name is cut one character late.   *)
LimitFilenameLengthLate(len) == IF len > 50 THEN (50 - 2) + Len("..>") ELSE len

(* limit_filename_length: the length of the label of a name of length len:*)
(* a name longer than 50 is cut to 47 characters followed by "..>".        *)
LimitFilenameLength(len) == IF len > 50 THEN (50 - 3) + Len("..>") ELSE len

(* The name column of a listing line: the label, then 51 - len(label)      *)
(* spaces (none when that is negative, as with Python's str * n).           *)
Column(len) ==
    LET label == LimitFilenameLength(len)
    IN  [label |-> label, pad |-> IF label < 51 THEN 51 - label ELSE 0]

(* generate_directory_listing_html: a line per subdirectory with its      *)
(* mtime, and a line per file other than index.html with its mtime and    *)
(* size, each read by os.stat at the time the page is generated.          *)
Listing(d, files) ==
    [kind  |-> "listing",
     dirs  |-> [c \in Children(d) |-> <<Column(NameLen[c] + 1), dmtime[c]>>],
     files |-> [n \in files \ {Index} |->
                  <<Column(NameLen[n]), fmtime[<<d, n>>], fsize[<<d, n>>]>>]]

(* One step of os.walk: the next directory is listed (os.scandir), and    *)
(* its subdirectories, in the order the listing returns them, are visited *)
(* next, depth first.                                                      *)
Walk ==
    /\ pc = "walk"
    /\ stack # <<>>
    /\ LET d == Head(stack) IN
       /\ scan' = [dir |-> d, files |-> FilesIn(d)]
       /\ \E order \in SetToSeqs(Children(d)) : stack' = order \o Tail(stack)
    /\ pc' = "generate"
    /\ UNCHANGED <<present, fmtime, fsize, dmtime, page, clock, run, html,
                   changes, since>>

(* Mutant of WriteIndex: the page replaces index.html as a new file (a    *)
(* write to a temporary file and a rename), so the directory changes on   *)
(* every run.                                                              *)
WriteIndexReplace ==
    /\ pc = "write"
    /\ LET d == scan.dir IN
       /\ page' = [page EXCEPT ![d] = html]
       /\ present' = present \cup {<<d, Index>>}
       /\ fmtime' = [fmtime EXCEPT ![<<d, Index>>] = clock]
       /\ dmtime' = [dmtime EXCEPT ![d] = clock]
    /\ pc' = IF stack = <<>> THEN "done" ELSE "walk"
    /\ UNCHANGED <<fsize, clock, run, stack, scan, html, changes, since>>

(* Mutant of Generate: the file is opened first, as in                     *)
(* with open(index_path, "w") as f: f.write(generate_...(...)), so a      *)
(* failing os.stat leaves index.html truncated.                            *)
GenerateOpenFirst ==
    /\ pc = "generate"
    /\ LET d == scan.dir IN
       /\ page' = [page EXCEPT ![d] = EmptyPage]
       /\ IF \E n \in scan.files \ {Index} : <<d, n>> \notin present
          THEN pc' = "crashed" /\ UNCHANGED html
          ELSE html' = Listing(d, scan.files) /\ pc' = "write"
    /\ UNCHANGED <<present, fmtime, fsize, dmtime, clock, run, stack, scan,
                   changes, since>>

(* generate_directory_listing_html: an os.stat per entry                  *)
(* (FileNotFoundError, which ends the script, for a file removed since    *)
(* the listing).                                                           *)
Generate ==
    /\ pc = "generate"
    /\ LET d == scan.dir IN
       IF \E n \in scan.files \ {Index} : <<d, n>> \notin present
       THEN pc' = "crashed" /\ UNCHANGED html
       ELSE html' = Listing(d, scan.files) /\ pc' = "open"
    /\ UNCHANGED <<present, fmtime, fsize, dmtime, page, clock, run, stack,
                   scan, changes, since>>

(* open(index_path, "w"): index.html is truncated, and created, which     *)
(* changes the directory's mtime, only when it did not exist.             *)
OpenIndex ==
    /\ pc = "open"
    /\ LET d == scan.dir IN
       /\ page' = [page EXCEPT ![d] = EmptyPage]
       /\ present' = present \cup {<<d, Index>>}
       /\ fmtime' = [fmtime EXCEPT ![<<d, Index>>] = clock]
       /\ dmtime' = IF <<d, Index>> \in present THEN dmtime
                    ELSE [dmtime EXCEPT ![d] = clock]
    /\ pc' = "write"
    /\ UNCHANGED <<fsize, clock, run, stack, scan, html, changes, since>>

(* f.write(html_content); the loop goes on with the next directory.       *)
WriteIndex ==
    /\ pc = "write"
    /\ page' = [page EXCEPT ![scan.dir] = html]
    /\ fmtime' = [fmtime EXCEPT ![<<scan.dir, Index>>] = clock]
    /\ pc' = IF stack = <<>> THEN "done" ELSE "walk"
    /\ UNCHANGED <<present, fsize, dmtime, clock, run, stack, scan, html,
                   changes, since>>

Script == Walk \/ Generate \/ OpenIndex \/ WriteIndex

(* The script may be started again after it ended, normally or not.      *)
Rerun ==
    /\ pc \in {"done", "crashed"}
    /\ run < Runs
    /\ run' = run + 1
    /\ since' = since + 1
    /\ stack' = <<Root>>
    /\ scan' = NoScan
    /\ pc' = "walk"
    /\ UNCHANGED <<present, fmtime, fsize, dmtime, page, clock, html, changes>>

(* Other processes: a file is added, removed, or rewritten.  Adding or    *)
(* removing a file changes its directory's mtime.                          *)
Change(p) ==
    /\ changes < MaxChanges
    /\ changes' = changes + 1
    /\ since' = 0
    /\ p[2] \in Names

AddFile ==
    \E p \in Paths :
        /\ Change(p)
        /\ p \notin present
        /\ present' = present \cup {p}
        /\ fmtime' = [fmtime EXCEPT ![p] = clock]
        /\ \E s \in Sizes : fsize' = [fsize EXCEPT ![p] = s]
        /\ dmtime' = [dmtime EXCEPT ![p[1]] = clock]
        /\ UNCHANGED <<page, clock, run, stack, scan, html, pc>>

RemoveFile ==
    \E p \in present :
        /\ Change(p)
        /\ present' = present \ {p}
        /\ dmtime' = [dmtime EXCEPT ![p[1]] = clock]
        /\ UNCHANGED <<fmtime, fsize, page, clock, run, stack, scan, html, pc>>

RewriteFile ==
    \E p \in present :
        /\ Change(p)
        /\ fmtime' = [fmtime EXCEPT ![p] = clock]
        /\ \E s \in Sizes : fsize' = [fsize EXCEPT ![p] = s]
        /\ UNCHANGED <<present, dmtime, page, clock, run, stack, scan, html, pc>>

Tick ==
    /\ clock < MaxClock
    /\ clock' = clock + 1
    /\ UNCHANGED <<present, fmtime, fsize, dmtime, page, run, stack, scan, html,
                   pc, changes, since>>

(* The last run has ended.                                                 *)
Finished == pc \in {"done", "crashed"} /\ run = Runs /\ UNCHANGED vars

Next == Script \/ Rerun \/ AddFile \/ RemoveFile \/ RewriteFile \/ Tick
        \/ Finished

Spec == Init /\ [][Next]_vars /\ WF_vars(Script)

-----------------------------------------------------------------------------

TypeOK ==
    /\ present \subseteq Paths
    /\ fmtime \in [Paths -> 0..MaxClock] /\ dmtime \in [Dirs -> 0..MaxClock]
    /\ pc \in {"walk", "generate", "open", "write", "done", "crashed"}
    /\ run \in 1..Runs /\ changes \in 0..MaxChanges

(* A directory's page shows what os.stat says of its entries now.         *)
Accurate(d) ==
    /\ <<d, Index>> \in present
    /\ page[d] = Listing(d, FilesIn(d))

(* A run of autoindex.py that ends normally leaves every directory with   *)
(* an index.html that shows the current mtime of every entry.              *)
FirstRunAccurate == pc = "done" => \A d \in Dirs : Accurate(d)

(* A run that ends normally, when nothing else changed the tree since     *)
(* before the previous run started, leaves every page accurate: rewriting *)
(* an existing index.html must not change the mtime of its directory,     *)
(* which the parent's page, written earlier in the walk, shows.            *)
RerunAccurate ==
    (pc = "done" /\ since >= 2) => \A d \in Dirs : Accurate(d)

(* index.html is empty only between the open(index_path, "w") that       *)
(* truncates it and the f.write that fills it: a run that ends, normally  *)
(* or by a failing os.stat, never leaves an empty page for the web server *)
(* to serve, whatever other processes did to the tree meanwhile.           *)
EmptyOnlyWhileWriting ==
    \A d \in Dirs : page[d] = EmptyPage => (pc = "write" /\ scan.dir = d)

(* Every line of every page has its date in the same column, after at    *)
(* least one space: limit_filename_length keeps every label, a            *)
(* directory's with its "/", within the 51 characters the padding fills.  *)
LabelsFit ==
    \A d \in Dirs : page[d].kind = "listing" =>
        \A line \in Range(page[d].dirs) \cup Range(page[d].files) :
            line[1].pad >= 1 /\ line[1].label + line[1].pad = 51

(* The script visits every directory: no os.stat fails.                    *)
NoCrash == pc # "crashed"

=============================================================================
