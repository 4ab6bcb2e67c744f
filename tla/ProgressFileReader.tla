------------------------- MODULE ProgressFileReader -------------------------
(***************************************************************************)
(* The streaming body of an upload: class ProgressFileReader of            *)
(* src/tools/s3_upload.py.  It wraps a file handle, hands the transport    *)
(* chunks of the file and prints a rate-limited progress line.             *)
(*                                                                         *)
(* The bytes themselves are not kept here: a read returns a length, and a  *)
(* composing module takes the bytes at the handle's offset from its own    *)
(* model of the file.  Since the handle only moves by what read returns,   *)
(* its offset is read_bytes.                                               *)
(*                                                                         *)
(* Time enters only through the test now - last_print > 0.1 of            *)
(* _print_progress.  For a clock that does not go backwards it is enough   *)
(* to keep since_print, the number of Interval-sized ticks since the last  *)
(* report, saturated at LongAgo = Interval + 1.  last_print starts at 0,   *)
(* i.e. decades before time.time(), which is LongAgo.                      *)
(***************************************************************************)
EXTENDS Integers

CONSTANTS
    ChunkSize,      \* chunk_size, the size of an unbounded read (8192)
    Interval        \* 0.1 s, in clock ticks

VARIABLES
    reader,         \* the fields of the ProgressFileReader object
    flen,           \* current length of the file the handle reads
    fexists         \* whether the path names a file (open, getsize)

LongAgo == Interval + 1

States == {"unopened", "opening", "open", "closed"}

ReaderInit ==
    [st |-> "unopened", total_size |-> 0, read_bytes |-> 0,
     since_print |-> LongAgo, closes |-> 0, zero_div |-> FALSE,
     full_reports |-> 0, last_shown |-> -1]

ReaderTypeOK ==
    /\ reader.st \in States
    /\ reader.total_size \in Nat /\ reader.read_bytes \in Nat
    /\ reader.since_print \in 0..LongAgo
    /\ reader.closes \in Nat
    /\ reader.zero_div \in BOOLEAN
    /\ reader.full_reports \in 0..2
    /\ reader.last_shown \in {-1} \cup Nat

(* The percentage printed with {percent:.1f}, in tenths of a percent.      *)
(* percent = read_bytes / total_size * 100 is a double; on an exact tie    *)
(* the digit printed depends on the rounding of that double, so both       *)
(* neighbours are possible.                                                *)
DisplayTenths(rb, total) ==
    LET q == (1000 * rb) \div total
        r == (1000 * rb) % total
    IN  IF 2 * r > total THEN {q + 1}
        ELSE IF 2 * r < total THEN {q}
        ELSE {q, q + 1}

(* __init__, first statement: self.file = open(file_path, "rb").           *)
Open ==
    /\ reader.st = "unopened"
    /\ fexists
    /\ reader' = [reader EXCEPT !.st = "opening"]

(* __init__, the rest: the size is taken by path, after the open.          *)
GetSize ==
    /\ reader.st = "opening"
    /\ fexists
    /\ reader' = [reader EXCEPT !.st = "open", !.total_size = flen,
                                !.read_bytes = 0, !.since_print = LongAgo]

(* Number of bytes self.file.read(n) returns for read(size).               *)
ReadLen(size) ==
    LET n    == IF size > 0 THEN size ELSE ChunkSize
        left == IF flen > reader.read_bytes THEN flen - reader.read_bytes
                ELSE 0
    IN  IF n < left THEN n ELSE left

(* Mutant of PrintProgress: the report is rate limited only; the           *)
(* read_bytes == total_size exception is missing.                          *)
PrintProgressRateOnly(r, rb) ==
    IF r.total_size = 0
    THEN {[r EXCEPT !.read_bytes = rb, !.zero_div = TRUE]}
    ELSE IF r.since_print > Interval
    THEN {[r EXCEPT !.read_bytes = rb, !.since_print = 0, !.last_shown = d,
              !.full_reports =
                  IF d = 1000 /\ r.full_reports < 2 THEN r.full_reports + 1
                  ELSE r.full_reports]
          : d \in DisplayTenths(rb, r.total_size)}
    ELSE {[r EXCEPT !.read_bytes = rb]}

(* _print_progress after read_bytes became rb: the division comes first    *)
(* and raises ZeroDivisionError when total_size is 0; then the report is  *)
(* printed if more than 0.1 s passed or the whole size has been read.      *)
PrintProgress(r, rb) ==
    IF r.total_size = 0
    THEN {[r EXCEPT !.read_bytes = rb, !.zero_div = TRUE]}
    ELSE IF r.since_print > Interval \/ rb = r.total_size
    THEN {[r EXCEPT !.read_bytes = rb, !.since_print = 0, !.last_shown = d,
              !.full_reports =
                  IF d = 1000 /\ r.full_reports < 2 THEN r.full_reports + 1
                  ELSE r.full_reports]
          : d \in DisplayTenths(rb, r.total_size)}
    ELSE {[r EXCEPT !.read_bytes = rb]}

(* read(size): read a chunk; if it is not empty count it and report.       *)
Read(size) ==
    /\ reader.st = "open"
    /\ ~reader.zero_div
    /\ LET n == ReadLen(size) IN
       IF n = 0 THEN UNCHANGED reader
       ELSE reader' \in PrintProgress(reader, reader.read_bytes + n)

(* Time passes: one Interval-sized tick of time.time().                    *)
Elapse ==
    reader' = [reader EXCEPT !.since_print =
                   IF @ < LongAgo THEN @ + 1 ELSE @]

(* close(): self.file.close(); counted to tell a double close.             *)
Close ==
    /\ reader.st \in {"open", "closed"}
    /\ reader' = [reader EXCEPT !.st = "closed", !.closes = @ + 1]

=============================================================================
