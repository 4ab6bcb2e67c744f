------------------------------ MODULE S3Upload ------------------------------
(***************************************************************************)
(* main() of src/tools/s3_upload.py: one signed PUT of a local file to an  *)
(* R2 (S3-compatible) bucket, composed with what it talks to:              *)
(*   - the uploader, a single thread whose position in main() is pc;       *)
(*   - the file on disk, which another process may change or unlink while *)
(*     the upload runs (the spec leaves this to the caller);               *)
(*   - http.client, which sends the headers and then calls                 *)
(*     reader.read(blocksize) until it returns nothing;                    *)
(*   - the service, which reads Content-Length body bytes, checks the      *)
(*     SigV4 signature and the payload hash, and answers with a status.    *)
(* The reader is ProgressFileReader, the signing operators are SigV4.      *)
(***************************************************************************)
EXTENDS Naturals, Sequences, FiniteSets, TLC

CONSTANTS
    Bytes,          \* byte values
    InitFiles,      \* contents the source file can have at start
    FileMayBeMissing, \* whether the source path may not exist at start
    Dests,          \* the <bucket/path> argument, as its "/"-separated parts
    Exts,           \* extensions of the source path
    EnvChoices,     \* which of the three required variables are set
    SecretKeys,     \* values AWS_SECRET_ACCESS_KEY can have
    ServiceSecret,  \* the secret the service holds for the access key
    ChunkSize, Blocksize, Interval,
    DayLen,         \* clock ticks per day, for the date stamp
    MaxClock,       \* bound on the clock
    MaxWrites,      \* bound on changes other processes make to the file
    MaxLen,         \* bound on the file length reached by appends
    CanUnlink,      \* whether another process may unlink the file
    ServiceFaults,  \* whether the service may answer 500
    NetFaults       \* whether the connection may break before the answer

Required == {"AWS_ACCESS_KEY_ID", "AWS_SECRET_ACCESS_KEY",
             "CLOUDFLARE_ACCOUNT_ID"}

AccessKey == "access-key-id"
AccountId == "account-id"
Region    == "us-east-1"        \* AWS_DEFAULT_REGION's default
None      == "none"

VARIABLES
    input,      \* argv and environment: argc_ok, env, secret, dest, ext
    pc,         \* position of the uploader in main()
    exit_code,  \* the status main() exits with, once pc = "exit"
    req,        \* the request fields main() has computed so far
    hasher,     \* sha256_hexdigest_file: its handle and what it has read
    reader,     \* the ProgressFileReader object
    file,       \* contents of the source file
    exists,     \* whether the source path names the file
    writes,     \* changes other processes made to the file
    clock,      \* UTC clock, in ticks
    conn,       \* what the connection carried: headers, body, answer
    svc,        \* the service: its phase and whether it failed on purpose
    store       \* the bucket: the objects it holds, by key

vars == <<input, pc, exit_code, req, hasher, reader, file, exists, writes,
          clock, conn, svc, store>>

R == INSTANCE ProgressFileReader WITH flen <- Len(file), fexists <- exists

LOCAL S == INSTANCE SigV4

(* dest_path.split("/", 1): the bucket and the key, as parts.              *)
Bucket(d) == d[1]
Key(d)    == Tail(d)
Keys      == {Key(d) : d \in {e \in Dests : Len(e) > 1}}

(* The extension table of main(), applied to the lower-cased extension.   *)
ContentType(ext) ==
    CASE ext = ".html" -> "text/html"
      [] ext = ".json" -> "application/json"
      [] ext = ".sig"  -> "application/pgp-signature"
      [] OTHER         -> "application/octet-stream"

Min2(a, b) == IF a < b THEN a ELSE b

(* What a read of n bytes at offset pos returns from the file.             *)
Chunk(pos, n) ==
    SubSeq(file, pos + 1, Min2(pos + n, Len(file)))

ReqInit ==
    [method |-> "PUT", uri |-> <<>>, host |-> None, content_type |-> None,
     content_length |-> 0, payload_hash |-> None, amz_date |-> 0,
     date_stamp |-> 0, region |-> Region, access_key |-> None,
     secret_key |-> None]

Init ==
    /\ input \in [argc_ok : BOOLEAN, env : EnvChoices, secret : SecretKeys,
                  dest : Dests, ext : Exts]
    /\ pc = "check_args"
    /\ exit_code = 0
    /\ req = ReqInit
    /\ hasher = [open |-> FALSE, pos |-> 0, data |-> <<>>]
    /\ reader = R!ReaderInit
    /\ file \in InitFiles
    /\ exists \in IF FileMayBeMissing THEN BOOLEAN ELSE {TRUE}
    /\ writes = 0
    /\ clock = 0
    /\ conn = [uri |-> <<>>, sent |-> FALSE, hdrs |-> <<>>, body |-> <<>>,
               status |-> 0, broken |-> FALSE]
    /\ svc = [phase |-> "idle", fault |-> FALSE]
    /\ store = <<>>

-----------------------------------------------------------------------------
(* The uploader.  Each action is one stretch of main() between points     *)
(* where another process or the service can act.                           *)

Goto(l) == pc' = l

(* An early sys.exit(1), or an exception raised outside the try block.     *)
ExitNow == /\ pc' = "exit" /\ exit_code' = 1

Local == <<hasher, reader, file, exists, writes, clock, conn, svc, store>>

(* if len(sys.argv) != 3: usage, exit 1                                   *)
CheckArgs ==
    /\ pc = "check_args"
    /\ IF input.argc_ok THEN Goto("check_env") /\ UNCHANGED exit_code
       ELSE ExitNow
    /\ UNCHANGED <<input, req>> /\ UNCHANGED Local

(* Mutant of CheckEnv: the secret key is left out of the test.             *)
CheckEnvWithoutSecret ==
    /\ pc = "check_env"
    /\ IF Required \ {"AWS_SECRET_ACCESS_KEY"} \subseteq input.env
       THEN Goto("check_dest") /\ UNCHANGED exit_code
       ELSE ExitNow
    /\ UNCHANGED <<input, req>> /\ UNCHANGED Local

(* The three required variables must be set and non-empty.                 *)
CheckEnv ==
    /\ pc = "check_env"
    /\ IF Required \subseteq input.env
       THEN Goto("check_dest") /\ UNCHANGED exit_code
       ELSE ExitNow
    /\ UNCHANGED <<input, req>> /\ UNCHANGED Local

(* if "/" not in dest_path: exit 1                                         *)
CheckDest ==
    /\ pc = "check_dest"
    /\ IF Len(input.dest) > 1 THEN Goto("resolve") /\ UNCHANGED exit_code
       ELSE ExitNow
    /\ UNCHANGED <<input, req>> /\ UNCHANGED Local

(* bucket, key, host, uri, content type, and                               *)
(* content_length = str(os.path.getsize(...)), which raises on a missing   *)
(* file.                                                                   *)
Resolve ==
    /\ pc = "resolve"
    /\ IF exists
       THEN /\ req' = [req EXCEPT
                         !.uri = <<Bucket(input.dest)>> \o Key(input.dest),
                         !.host = AccountId,
                         !.content_type = ContentType(input.ext),
                         !.content_length = Len(file)]
            /\ Goto("hash_open") /\ UNCHANGED exit_code
       ELSE ExitNow /\ UNCHANGED req
    /\ UNCHANGED input /\ UNCHANGED Local

(* sha256_hexdigest_file: with open(file_path, "rb") as f                  *)
HashOpen ==
    /\ pc = "hash_open"
    /\ IF exists
       THEN /\ hasher' = [open |-> TRUE, pos |-> 0, data |-> <<>>]
            /\ Goto("hashing") /\ UNCHANGED exit_code
       ELSE ExitNow /\ UNCHANGED hasher
    /\ UNCHANGED <<input, req, reader, file, exists, writes, clock, conn,
                   svc, store>>

(* while chunk := f.read(8192): h.update(chunk); the with block closes    *)
(* the handle and hexdigest() becomes payload_hash.                        *)
HashRead ==
    /\ pc = "hashing"
    /\ LET c == Chunk(hasher.pos, ChunkSize) IN
       IF c # <<>>
       THEN /\ hasher' = [hasher EXCEPT !.pos = @ + Len(c),
                                        !.data = @ \o c]
            /\ UNCHANGED <<pc, req>>
       ELSE /\ hasher' = [hasher EXCEPT !.open = FALSE]
            /\ req' = [req EXCEPT !.payload_hash = S!SHA256(hasher.data)]
            /\ Goto("sign")
    /\ UNCHANGED <<input, exit_code, reader, file, exists, writes, clock,
                   conn, svc, store>>

(* now = utcnow(); amz_date and date_stamp from the same now; the         *)
(* canonical request, string to sign and Authorization are SigV4's.        *)
Sign ==
    /\ pc = "sign"
    /\ req' = [req EXCEPT !.amz_date = clock, !.date_stamp = clock \div DayLen,
                          !.access_key = AccessKey,
                          !.secret_key = input.secret]
    /\ Goto("reader_open")
    /\ UNCHANGED <<input, exit_code, hasher>> /\ UNCHANGED
           <<reader, file, exists, writes, clock, conn, svc, store>>

(* conn = HTTPSConnection(host) does no I/O; ProgressFileReader(...) opens *)
(* the file, then takes its size by path.  Both are outside the try: an   *)
(* exception here skips the finally clause.                                *)
ReaderOpen ==
    /\ pc = "reader_open"
    /\ IF exists THEN R!Open /\ Goto("reader_size") /\ UNCHANGED exit_code
       ELSE ExitNow /\ UNCHANGED reader
    /\ UNCHANGED <<input, req, hasher, file, exists, writes, clock, conn,
                   svc, store>>

ReaderSize ==
    /\ pc = "reader_size"
    /\ IF exists THEN R!GetSize /\ Goto("request") /\ UNCHANGED exit_code
       ELSE ExitNow /\ UNCHANGED reader
    /\ UNCHANGED <<input, req, hasher, file, exists, writes, clock, conn,
                   svc, store>>

(* conn.request(method, uri, body=reader, headers=headers) starts by     *)
(* connecting and sending the headers.                                     *)
SendHeaders ==
    /\ pc = "request"
    /\ ~conn.broken
    /\ conn' = [conn EXCEPT !.uri = req.uri, !.sent = TRUE,
                         !.hdrs = S!headers(req)]
    /\ Goto("body")
    /\ UNCHANGED <<input, exit_code, req, hasher, reader, file, exists,
                   writes, clock, svc, store>>

(* Mutant of SendChunk: the body loop keeps reading until len(reader)     *)
(* bytes were sent, instead of stopping at the first empty block.          *)
SendChunkUntilLength ==
    /\ pc = "body"
    /\ ~conn.broken
    /\ LET c == Chunk(reader.read_bytes, Blocksize) IN
       IF R!ReadLen(Blocksize) = 0
       THEN /\ reader.read_bytes >= reader.total_size
            /\ Goto("response")
            /\ UNCHANGED <<reader, conn, exit_code>>
       ELSE /\ R!Read(Blocksize)
            /\ IF reader'.zero_div
               THEN /\ Goto("finally") /\ exit_code' = 1
                    /\ UNCHANGED conn
               ELSE /\ conn' = [conn EXCEPT !.body = @ \o c]
                    /\ UNCHANGED <<pc, exit_code>>
    /\ UNCHANGED <<input, req, hasher, file, exists, writes, clock, svc,
                   store>>

(* One turn of http.client's body loop: datablock = reader.read(blocksize) *)
(* and send it; an empty block ends the request.  ZeroDivisionError from   *)
(* _print_progress leaves the try block before the block is sent.          *)
SendChunk ==
    /\ pc = "body"
    /\ ~conn.broken
    /\ LET c == Chunk(reader.read_bytes, Blocksize) IN
       IF R!ReadLen(Blocksize) = 0
       THEN /\ Goto("response")
            /\ UNCHANGED <<reader, conn, exit_code>>
       ELSE /\ R!Read(Blocksize)
            /\ IF reader'.zero_div
               THEN /\ Goto("finally") /\ exit_code' = 1
                    /\ UNCHANGED conn
               ELSE /\ conn' = [conn EXCEPT !.body = @ \o c]
                    /\ UNCHANGED <<pc, exit_code>>
    /\ UNCHANGED <<input, req, hasher, file, exists, writes, clock, svc,
                   store>>

(* Mutants of GetResponse, for the checks of the properties below: exit   *)
(* with the HTTP status itself; forget the sys.exit(1) after printing the *)
(* error body; and an off-by-one in the status test.                       *)
GetResponseExitWithStatus ==
    /\ pc = "response" /\ ~conn.broken /\ conn.status # 0
    /\ exit_code' = IF conn.status >= 300 THEN conn.status ELSE 0
    /\ Goto("finally")
    /\ UNCHANGED <<input, req, hasher, reader, file, exists, writes, clock,
                   conn, svc, store>>

GetResponseNoExit ==
    /\ pc = "response" /\ ~conn.broken /\ conn.status # 0
    /\ exit_code' = 0
    /\ Goto("finally")
    /\ UNCHANGED <<input, req, hasher, reader, file, exists, writes, clock,
                   conn, svc, store>>

GetResponseOffByOne ==
    /\ pc = "response" /\ ~conn.broken /\ conn.status # 0
    /\ exit_code' = IF conn.status > 400 THEN 1 ELSE 0
    /\ Goto("finally")
    /\ UNCHANGED <<input, req, hasher, reader, file, exists, writes, clock,
                   conn, svc, store>>

(* response = conn.getresponse(); status >= 300 prints the body and exits *)
(* 1 through the finally clause; otherwise "Upload successful".            *)
GetResponse ==
    /\ pc = "response"
    /\ ~conn.broken
    /\ conn.status # 0
    /\ exit_code' = IF conn.status >= 300 THEN 1 ELSE 0
    /\ Goto("finally")
    /\ UNCHANGED <<input, req, hasher, reader, file, exists, writes, clock,
                   conn, svc, store>>

(* A broken connection raises out of conn.request or conn.getresponse.     *)
ConnError ==
    /\ pc \in {"request", "body", "response"}
    /\ conn.broken
    /\ Goto("finally") /\ exit_code' = 1
    /\ UNCHANGED <<input, req, hasher, reader, file, exists, writes, clock,
                   conn, svc, store>>

(* Mutant of Finally: close the reader only on the success path.          *)
FinallyOnSuccessOnly ==
    /\ pc = "finally"
    /\ IF exit_code = 0 THEN R!Close ELSE UNCHANGED reader
    /\ Goto("exit")
    /\ UNCHANGED <<input, exit_code, req, hasher, file, exists, writes,
                   clock, conn, svc, store>>

(* finally: reader.close()                                                 *)
Finally ==
    /\ pc = "finally"
    /\ R!Close
    /\ Goto("exit")
    /\ UNCHANGED <<input, exit_code, req, hasher, file, exists, writes,
                   clock, conn, svc, store>>

Uploader ==
    \/ CheckArgs \/ CheckEnv \/ CheckDest \/ Resolve \/ HashOpen
    \/ HashRead \/ Sign \/ ReaderOpen \/ ReaderSize \/ SendHeaders
    \/ SendChunk \/ GetResponse \/ ConnError \/ Finally

-----------------------------------------------------------------------------
(* The service (R2).  Written from the S3 PUT contract, not from code of   *)
(* this repository: it reads Content-Length bytes of body, authenticates   *)
(* the request, checks x-amz-content-sha256 against the body, and stores   *)
(* the object.  PUT /bucket/ (an empty key) is CreateBucket and stores     *)
(* nothing.                                                                *)

SvcUnchanged == UNCHANGED <<input, pc, exit_code, req, hasher, reader, file,
                            exists, writes, clock>>

Answer(status) ==
    /\ svc' = [svc EXCEPT !.phase = "answered"]
    /\ conn' = [conn EXCEPT !.status = status]

SvcAnswer ==
    /\ svc.phase = "idle"
    /\ conn.sent /\ ~conn.broken
    /\ LET h    == conn.hdrs
           cl   == h["content-length"]
           b    == SubSeq(conn.body, 1, cl)
           uri  == conn.uri
           key  == Tail(uri)
       IN  /\ Len(conn.body) >= cl
           /\ IF ~S!Authentic("PUT", uri, h, ServiceSecret,
                              h["x-amz-date"] \div DayLen)
              THEN Answer(403) /\ UNCHANGED store
              ELSE IF S!SHA256(b) # h["x-amz-content-sha256"]
              THEN Answer(400) /\ UNCHANGED store
              ELSE IF key = <<"">>
              THEN \E st \in {200, 409} : Answer(st) /\ UNCHANGED store
              ELSE Answer(200) /\ store' = (key :> b) @@ store
    /\ SvcUnchanged

(* The client stopped sending before Content-Length bytes: RequestTimeout. *)
SvcTimeout ==
    /\ svc.phase = "idle"
    /\ conn.sent /\ ~conn.broken
    /\ pc = "response"
    /\ Len(conn.body) < conn.hdrs["content-length"]
    /\ Answer(400) /\ UNCHANGED store
    /\ SvcUnchanged

(* An internal error: 500, nothing stored.                                 *)
SvcFault ==
    /\ ServiceFaults
    /\ svc.phase = "idle"
    /\ conn.sent /\ ~conn.broken
    /\ svc' = [phase |-> "answered", fault |-> TRUE]
    /\ conn' = [conn EXCEPT !.status = 500]
    /\ UNCHANGED store
    /\ SvcUnchanged

(* The connection breaks before the answer is read.                        *)
NetBreak ==
    /\ NetFaults
    /\ ~conn.broken
    /\ pc \in {"request", "body", "response"}
    /\ conn' = [conn EXCEPT !.broken = TRUE]
    /\ UNCHANGED <<svc, store>>
    /\ SvcUnchanged

Service == SvcAnswer \/ SvcTimeout

-----------------------------------------------------------------------------
(* Other processes change the file while the upload runs, and time passes. *)

FsUnchanged == UNCHANGED <<input, pc, exit_code, req, hasher, reader, clock,
                           conn, svc, store>>

WriteAppend ==
    /\ exists /\ writes < MaxWrites /\ Len(file) < MaxLen
    /\ \E b \in Bytes : file' = Append(file, b)
    /\ writes' = writes + 1
    /\ UNCHANGED exists /\ FsUnchanged

WriteByte ==
    /\ exists /\ writes < MaxWrites
    /\ \E i \in DOMAIN file, b \in Bytes :
          /\ b # file[i]
          /\ file' = [file EXCEPT ![i] = b]
    /\ writes' = writes + 1
    /\ UNCHANGED exists /\ FsUnchanged

WriteTruncate ==
    /\ exists /\ writes < MaxWrites /\ file # <<>>
    /\ \E k \in 0..(Len(file) - 1) : file' = SubSeq(file, 1, k)
    /\ writes' = writes + 1
    /\ UNCHANGED exists /\ FsUnchanged

Unlink ==
    /\ CanUnlink /\ exists /\ writes < MaxWrites
    /\ exists' = FALSE
    /\ writes' = writes + 1
    /\ UNCHANGED file /\ FsUnchanged

Tick ==
    /\ clock < MaxClock
    /\ clock' = clock + 1
    /\ R!Elapse
    /\ UNCHANGED <<input, pc, exit_code, req, hasher, file, exists, writes,
                   conn, svc, store>>

Environment ==
    WriteAppend \/ WriteByte \/ WriteTruncate \/ Unlink \/ Tick
    \/ SvcFault \/ NetBreak

Next == Uploader \/ Service \/ Environment

(* The uploader is one thread that runs whenever it is not blocked; the   *)
(* service answers every request it has received, in time.  Writers,      *)
(* faults and the clock need not act.                                      *)
Spec == Init /\ [][Next]_vars /\ WF_vars(Uploader) /\ WF_vars(Service)

-----------------------------------------------------------------------------
(* Properties.                                                             *)

TypeOK ==
    /\ pc \in {"check_args", "check_env", "check_dest", "resolve",
              "hash_open", "hashing", "sign", "reader_open", "reader_size",
              "request", "body", "response", "finally", "exit"}
    /\ exit_code \in {0, 1}
    /\ R!ReaderTypeOK
    /\ hasher \in [open : BOOLEAN, pos : Nat, data : Seq(Bytes)]
    /\ file \in Seq(Bytes) /\ exists \in BOOLEAN
    /\ writes \in 0..MaxWrites /\ clock \in 0..MaxClock
    /\ conn.body \in Seq(Bytes) /\ conn.status \in {0, 200, 400, 403, 409, 500}
    /\ svc.phase \in {"idle", "answered"}
    /\ DOMAIN store \subseteq Keys
    /\ \A k \in DOMAIN store : store[k] \in Seq(Bytes)

(* The run was valid and nothing interfered: arguments and environment    *)
(* complete, a non-empty key, the right secret, and no other process,     *)
(* service fault or broken connection.                                    *)
ValidInput ==
    /\ input.argc_ok /\ Required \subseteq input.env
    /\ Len(input.dest) > 1 /\ Key(input.dest) # <<"">>
    /\ input.secret = ServiceSecret
Undisturbed == writes = 0 /\ exists /\ ~svc.fault /\ ~conn.broken

Stored(k, data) == k \in DOMAIN store /\ store[k] = data

(* End to end: when main() exits after a valid, undisturbed run, it exits *)
(* 0 and the bucket holds the file's bytes under the key.  This needs the *)
(* size, the chunked hash, the signed headers in canonical order, the     *)
(* single timestamp, and the streamed body all to agree.                  *)
UndisturbedUploadSucceeds ==
    (pc = "exit" /\ ValidInput /\ Undisturbed)
        => /\ exit_code = 0
           /\ Stored(Key(input.dest), file)

(* Exit status 0 ("Upload successful") only when the bucket holds, under  *)
(* the key, exactly the bytes whose hash main() signed, whatever other    *)
(* processes did to the file meanwhile.                                   *)
SuccessMeansStored ==
    (pc = "exit" /\ exit_code = 0)
        => /\ Len(input.dest) > 1
           /\ Stored(Key(input.dest), hasher.data)

(* Spec 4.2 and 5: every file handle main() opens is closed on every exit *)
(* path, the reader's exactly once.                                       *)
HandlesReleased ==
    pc = "exit" =>
        /\ ~hasher.open
        /\ reader.st \in {"unopened", "closed"}
        /\ reader.closes <= 1

(* Spec 7: a usage or configuration error makes no network call.         *)
NoRequestOnBadInput ==
    conn.sent =>
        /\ input.argc_ok /\ Required \subseteq input.env
        /\ Len(input.dest) > 1

(* Refinement: with the file left alone, a run is an instance of          *)
(* UploadAbstract.  The target is the key the arguments name when they     *)
(* pass main()'s checks; the outcome is the exit status once main() ends. *)
Target ==
    IF input.argc_ok /\ Required \subseteq input.env /\ Len(input.dest) > 1
    THEN Key(input.dest) ELSE <<>>

Outcome ==
    IF pc # "exit" THEN "running"
    ELSE IF exit_code = 0 THEN "succeeded" ELSE "failed"

Abstract == INSTANCE UploadAbstract
    WITH Keys <- Keys, Contents <- InitFiles, NoKey <- <<>>,
         file <- file, target <- Target, store <- store, outcome <- Outcome

(* The connection has no timeout (line 148): when the file shrank after    *)
(* signing, the body ends short of Content-Length and getresponse waits.   *)
(* The run still ends, with the service's RequestTimeout as the only thing *)
(* that ends the wait, whatever other processes do to the file.            *)
UploadEnds == <>(pc = "exit")

(* The run implements UploadAbstract: the bucket only changes by the whole *)
(* file appearing under the target key, exit status 0 comes only after     *)
(* that, and the run ends.                                                 *)
ImplementsUpload == Abstract!Spec

=============================================================================
