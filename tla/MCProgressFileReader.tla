------------------------ MODULE MCProgressFileReader ------------------------
(***************************************************************************)
(* The reader on its own, driven the way http.client drives a body that    *)
(* has a read method: _read_readable calls read(blocksize) until it gets   *)
(* an empty chunk.  The file is not modified here; S3Upload adds a writer. *)
(* Sizes are in bytes, so the remainder of the last chunk, which decides   *)
(* the rounding of {percent:.1f}, is kept.                                 *)
(***************************************************************************)
EXTENDS Naturals

CONSTANTS
    ChunkSize, Interval,
    Blocksize,      \* http.client HTTPConnection.blocksize (8192)
    FileSizes       \* sizes of the file being uploaded

VARIABLES reader, flen, fexists, eof

vars == <<reader, flen, fexists, eof>>

R == INSTANCE ProgressFileReader

Init ==
    /\ reader = R!ReaderInit
    /\ flen \in FileSizes
    /\ fexists = TRUE
    /\ eof = FALSE

\* ProgressFileReader(source_file_path)
Construct ==
    \/ R!Open /\ UNCHANGED <<flen, fexists, eof>>
    \/ R!GetSize /\ UNCHANGED <<flen, fexists, eof>>

\* One turn of the transport's loop: datablock = readable.read(blocksize)
TransportRead ==
    /\ ~eof
    /\ R!Read(Blocksize)
    /\ eof' = (R!ReadLen(Blocksize) = 0)
    /\ UNCHANGED <<flen, fexists>>

\* The finally clause of main(): reader.close()
Finish ==
    /\ eof \/ reader.zero_div
    /\ reader.st = "open"
    /\ R!Close
    /\ UNCHANGED <<flen, fexists, eof>>

Tick == R!Elapse /\ UNCHANGED <<flen, fexists, eof>>

Next == Construct \/ TransportRead \/ Finish \/ Tick

Spec == Init /\ [][Next]_vars /\ WF_vars(Construct \/ TransportRead \/ Finish)

TypeOK == R!ReaderTypeOK /\ eof \in BOOLEAN

(* Spec 4.2: the 100% report is always emitted exactly once.  Once the     *)
(* transport has read the whole body, exactly one report printed by        *)
(* _print_progress has shown 100.0%: the rate limit must not swallow the   *)
(* last report, and no earlier report may already show 100.0%.             *)
FullReportExactlyOnce ==
    eof => reader.full_reports = 1

(* For a non-empty file whose length did not change, the last progress    *)
(* line _print_progress prints shows 100.0%: the read that reaches         *)
(* total_size is printed whatever the 0.1 s rate limit says.               *)
FinalReportFull ==
    (eof /\ reader.total_size > 0 /\ flen = reader.total_size)
        => reader.last_shown = 1000

=============================================================================
