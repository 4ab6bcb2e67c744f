# TLA+ models of the pritunl-cloud tools

This directory holds TLA+ specifications of the Python tools under
`src/tools/`, the TLC configurations that check them, and `PROJECT.json`. That
file lists the components, the runs, the mutants, the map from definitions to
source lines, the findings and the hazards.

## The system

Four scripts make up `src/tools/`:

| Script | What it does | State that changes |
|---|---|---|
| `s3_upload.py` | Uploads one file to a Cloudflare R2 bucket with a SigV4-signed `PUT`. It streams the body through `ProgressFileReader`, which prints progress. | The file handles (hash file, reader), the reader's byte count and print clock, the connection, and the bucket. |
| `generate_demo_data.py` | Draws random addresses, builds 20 instances, one disk each, and a deployment per web/database instance. It prints them as Go literals. | The instance, disk and deployment lists and the used-address sets. |
| `autoindex.py` | Walks `/mnt/images` top-down with `os.walk` and writes an `index.html` into each directory, listing subdirectories and files with their mtimes and sizes. | The `index.html` files, and through their creation the directories' mtimes. |
| `generate_files.py` | Walks the working directory and writes `files.json`, with name, md5sum and mtime of every `.qcow2` file. | `files.json`. |

Inside `s3_upload.py` the parts interact as follows.

1. `main()` checks the arguments (line 60), then the environment (73), then the destination (77).
2. It reads the file three times:
   - its size with `os.path.getsize` (97);
   - its digest with `sha256_hexdigest_file` (98, chunk by chunk);
   - the body, through a `ProgressFileReader` (149) that opens it and reads its size a second time (12-14).
3. It signs the request (100-146), using one `utcnow()` reading for both `amz_date` and `date_stamp`.
4. `http.client` sends the headers. It then calls `reader.read(blocksize)` until it gets an empty chunk. Each read prints progress under a 0.1 s rate limit.
5. The service answers. Any status of 300 or more exits 1. A `finally` closes the reader (161-162).

Other processes may write to the file the whole time. The service checks the signature against the headers it received and the payload digest against the body.

## Modules

| Module | Models | State (VARIABLES) | Actions |
|---|---|---|---|
| `ProgressFileReader` | `ProgressFileReader` (lines 10-40) | `reader` record: `st`, `total_size`, `read_bytes`, `since_print`, `closes`, `zero_div`, `full_reports`. File length and existence come from the composing module. | `Open`, `GetSize`, `Read(size)` (with `PrintProgress`), `Elapse`, `Close` |
| `MCProgressFileReader` | The reader driven by the `http.client` read loop | `reader`, `flen`, `fexists`, `eof` | `Construct`, `TransportRead`, `Finish`, `Tick` |
| `SigV4` | `sign`, `get_signature_key` and the signing block of `main()` (100-146), as pure operators. It also has the service's check (`Authentic`), written from the protocol. | none | none (operators) |
| `S3Upload` | `main()` and `sha256_hexdigest_file`. It composes `ProgressFileReader` and `SigV4` with a file writer, a clock, the network and the R2 service. | See the list below. | Uploader: `CheckArgs`, `CheckEnv`, `CheckDest`, `Resolve`, `HashOpen`, `HashRead`, `Sign`, `ReaderOpen`, `ReaderSize`, `SendHeaders`, `SendChunk`, `GetResponse`, `ConnError`, `Finally`. Service: `SvcAnswer`, `SvcTimeout`, `SvcFault`, `NetBreak`. Environment: `WriteAppend`, `WriteByte`, `WriteTruncate`, `Unlink`, `Tick`. |
| `UploadAbstract` | What one run promises: the object appears atomically under the key, and success is reported only once it is there. | `file`, `target`, `store`, `outcome` | `Put`, `Succeed`, `Fail` |
| `MCS3Upload` | Finite sets of files, destinations and environments for TLC | none | none |
| `DemoData` | `generate_instances`, `generate_disks`, `generate_deployments`, and `main()`'s print loops over `format_go_*`. Ids are a literal prefix and the digits of `{i:02x}` (`Hex02`, built on the recursive `HexDigits`). A printed Go literal is the record of its `ObjectIdHex` arguments. | `phase`, `draw`, `instances`, `disks`, `deployments`, `out` (what has been printed) | `DrawAddress`, `BuildInstance`, `GenerateDisks`, `GenerateDeployments`, `PrintInstance`, `PrintDisk`, `PrintDeployment` |
| `MCDemoData` | Model values for the address pools, and the real node and image ids | none | none |
| `AutoIndex` | `generate_index_files` and `generate_directory_listing_html` of `autoindex.py` | `present`, `fmtime`, `fsize`, `dmtime` (what `os.stat` returns), `page` (each `index.html`), `clock`, `run`, `stack` (`os.walk`'s directories still to visit), `scan`, `html` (the generated page), `pc`, `changes`, `since` | Script: `Walk`, `Generate` (the `os.stat` calls), `OpenIndex` (truncate or create), `WriteIndex`. A later start: `Rerun`. Other processes: `AddFile`, `RemoveFile`, `RewriteFile`, `Tick`. |
| `MCAutoIndex` | A tree `r` with `a` and `c` under it and `b` under `a`. Name lengths sit at the edges of `limit_filename_length`: `a/` has 50 characters, `b/` has 51, `c/` has 121, and the file name has 51. | none | none |
| `FilesManifest` | `create_files_json`, `md5_hash` and `last_modified_time` of `generate_files.py` | `present`, `version` (file contents), `mtime`, `history`, `clock`, `stack`, `dir`, `todo` (sorted names still to handle), `hash`, `entries`, `manifest` (`files.json`), `pc`, `changes` | Script: `Walk`, `Md5`, `LastModified`, `Open`, `Dump`. Other processes: `AddFile`, `RewriteFile`, `RemoveFile`, `Tick`. |
| `MCFilesManifest` | A directory `r` with a subdirectory `a`, and images with signatures | none | none |

The `S3Upload` variables are:
- `input` (argv, env, destination, extension);
- `pc`;
- `exit_code`;
- `req` (the request fields);
- `hasher`;
- `reader`;
- `file` (a byte sequence);
- `exists`;
- `writes`;
- `clock`;
- `conn`;
- `svc`;
- `store` (the bucket).

Each `main()` step that touches shared state is an action of its own, because another actor can act between those steps. The steps are:
- each `getsize`;
- each hash chunk;
- the reader's `open` and its `getsize`;
- each body chunk;
- the response;
- the `finally`.

Pure computation is done inside the step that uses it. For example, `Sign` computes all of lines 100-146 in one step.

### Abstractions

- **Cryptography.** SHA-256 and HMAC are injective constructors, `<<"SHA-256", m>>` and `<<"HMAC-SHA256", k, m>>`. f-strings are the tuple of their fields, which is unambiguous for these newline-separated formats. So two signatures are equal exactly when their inputs are.
- **Sizes.** `MCProgressFileReader` counts bytes, with `ChunkSize` and `Blocksize` 8192, so the remainder of the last read, which decides the rounding, is kept. `S3Upload` uses files of a few bytes with a chunk of 2 bytes; none of its properties is about the percentage. `since_print` counts clock ticks and saturates at `LongAgo`, which models `now - last_print > 0.1`.
- **Rounding.** `DisplayTenths` is `{percent:.1f}` in tenths of a percent. An exact tie may round either way.
- **Time.** The clock is a tick counter. A day lasts `DayLen` ticks, so a signature can straddle midnight.
- **Printing.** What is printed is left out, except the tenths shown by the last report and the count of reports that show 100.0%.

## Runs

| Run | cfg | Expect | Checks | Bounds |
|---|---|---|---|---|
| `reader_progress` | `MCProgressFileReader.cfg` | pass | `FinalReportFull` | File sizes of 1, 8191, 8192, 8193, 16384, 16385, 20000, 24577, 40960 and 41000 bytes, with chunk and block 8192 and an interval of one tick. Reads are aligned, unaligned and single-block, and the rate limit is both hit and missed. The file does not change. |
| `reader_full_twice` | `MCReaderFullTwice.cfg` | violation | `FullReportExactlyOnce` | A file of 8193 bytes shows 100.0% after its first 8192 bytes and again after the last byte (finding 1). |
| `upload` | `MCS3Upload.cfg` | pass | `TypeOK`, `UndisturbedUploadSucceeds`, `HandlesReleased`, `NoRequestOnBadInput`, `ImplementsUpload` | See the first list below. |
| `upload_writers` | `MCS3UploadWriters.cfg` | pass | `SuccessMeansStored`, `UploadEnds` | See the second list below. |
| `upload_unlink` | `MCS3UploadUnlink.cfg` | violation | `HandlesReleased` | Removing the file between `open` and `getsize` leaks the handle (finding 2). |
| `upload_empty_key` | `MCS3UploadEmptyKey.cfg` | violation | `SuccessMeansStored` | `bucket/` is reported as uploaded with nothing stored (finding 3). |
| `autoindex` | `MCAutoIndex.cfg` | pass | `RerunAccurate`, `EmptyOnlyWhileWriting`, `LabelsFit` | Three runs, a clock of 2 minutes, and one change by another process, at any point. Trees start with no pages, or with old pages in some directories. |
| `autoindex_first_run` | `MCAutoIndexFirstRun.cfg` | violation | `FirstRunAccurate` | One run with no other changes leaves a parent's page showing a stale mtime (finding 4). |
| `autoindex_remove` | `MCAutoIndexRemove.cfg` | violation | `NoCrash` | A file removed between the listing and `os.stat` stops the script (finding 5). |
| `manifest` | `MCFilesManifest.cfg` | pass | `DescribesTree`, `EmptyOnlyWhileDumping` | Two directories, two stems and two extensions, up to 2 changes by other processes, and a clock of 2. |
| `manifest_rewrite` | `MCFilesManifestRewrite.cfg` | violation | `EntryFromOneVersion` | A file rewritten between `md5sum` and `getmtime` (finding 6). |
| `demo_data` | `MCDemoData.cfg` | pass | `UniqueAddresses`, `NoCrash`, `ObjectIdsValid` | 4 instances, one of each type (web, database, search, vpn). Every pool holds 4 addresses, so the last instance has exactly one address left and every earlier draw can collide. |

The `upload` run's bounds are:
- files of 0 to 3 bytes;
- destinations with no key, a key, and a nested key;
- a full environment and one without the secret;
- a right and a stale secret;
- a day boundary reachable while signing;
- service faults and network breaks.

The `upload_writers` run's bounds are:
- up to 2 writes during a run: append, overwrite a byte, truncate, or unlink;
- no faults;
- the right secret.

These are enough because every action of the uploader is reached, and so is every branch of the service's answer:
- 403 on a bad signature;
- 400 on a digest mismatch;
- 200 with the object stored.

Each of the findings needs only one or two writes, or one specific file size.

### What the properties say

- **`FinalReportFull`**: for a non-empty file that did not change, the last report printed once the transport has read the body to its end shows 100.0%. The read that reaches `total_size` is printed whatever the rate limit says.
- **`FullReportExactlyOnce`** (violated): once the transport has read the body to its end, exactly one report has shown 100.0%, as spec 4.2 says.
- **`UndisturbedUploadSucceeds`**: if the input is valid, the right secret is used, the file is not touched, and nothing faults, then the run exits 0. This catches canonicalisation and clock mistakes in the signer, because the service recomputes the signature independently.
- **`HandlesReleased`**: when the process has exited, every handle it opened is closed.
- **`NoRequestOnBadInput`**: a request is sent only if the arguments, the environment and the destination are all valid.
- **`SuccessMeansStored`**: exit 0 implies that the bucket holds, under the key, exactly the bytes that were hashed. This must hold even when writers change the file between the three reads.
- **`ImplementsUpload`**: `S3Upload` refines `UploadAbstract` under the mapping `Target`/`Outcome`, with the abstract fairness. So every run ends, the bucket changes only atomically at the target key, and success follows the store. A lost answer to a stored object is an allowed failure.
- **`UploadEnds`**: the upload ends, even when the file shrinks after signing and the body falls short of `Content-Length`. The connection has no timeout, so this holds only because the service times out the short request.
- **`RerunAccurate`**: a run of `autoindex.py` that starts after a complete run, with the tree unchanged since before that run, leaves every page showing the current mtimes and sizes. This depends on `open(..., "w")` on an existing `index.html` leaving its directory's mtime alone.
- **`EmptyOnlyWhileWriting`**: an `index.html` is empty only between the `open(..., "w")` that truncates it and the `f.write` that fills it, in the directory being written. A run stopped by a failing `os.stat` never leaves an empty page, because the page is generated, and every `os.stat` made, before the file is opened.
- **`LabelsFit`**: on every page, every line's label and padding fill exactly 51 characters, with at least one space before the date. `limit_filename_length` cuts at 50, and a directory's label counts its `/`. A cut one character late would give a 51-character label, which Python pads with no spaces.
- **`FirstRunAccurate`** (violated): one run is enough for accurate pages.
- **`NoCrash`** in `AutoIndex` (violated with a concurrent remover): the walk visits every directory.
- **`DescribesTree`**: a run of `generate_files.py` over an unchanged tree writes exactly one entry per `.qcow2` file of every directory, with its current md5sum and mtime.
- **`EmptyOnlyWhileDumping`**: `files.json` is empty only between `open` and `json.dump`. A run that fails in the walk leaves the previous `files.json` in place.
- **`EntryFromOneVersion`** (violated): each entry's hash and mtime belong to one content of the file.
- **`UniqueAddresses`**: no two instances share a private, public or host address. The model keeps the `used_*_ips` sets and their `.add` after each retry loop. The mutant drops an `.add`.
- **`NoCrash`**: `main()` of `generate_demo_data.py` ends without an `IndexError` or `KeyError`.
- **`ObjectIdsValid`**: every `utils.ObjectIdHex` call in the printed Go code gets 24 hex digits. That includes the constant organization, datacenter, zone, VPC, shape, pod, unit and spec ids. No two printed instances, disks or deployments share an id. Every disk and deployment names a printed instance on the same node. `{i:02x}` gives 3 digits from `i = 256` on. That is unreachable only because `instance_types` caps the count at 20.

Every property of a passing run has a mutant in `PROJECT.json`. A mutant is a plausible code bug under which TLC finds the property violated. For example, one mutant drops a `used_*_ips.add`, one forgets the secret check, and one closes only on success.

## Findings

1. `s3_upload.py:32`: whenever the last read is at most 1/2000 of the file, `{:.1f}` already shows 100.0% before it, and the 100% report appears twice. This starts with a file of 8193 bytes, whose first read is 99.99%.
2. `s3_upload.py:14`: if the file is removed between `open` and `getsize` in the reader's constructor, the handle leaks, because the constructor runs outside the `try`.
3. `s3_upload.py:77`: `bucket/` passes the destination check, and a 200 to `PUT /bucket/` is reported as success with nothing stored.
4. `autoindex.py:27`: the walk is top-down, so the parent's page stats a subdirectory before `index.html` is created in it. That creation changes the subdirectory's mtime, and the first run leaves stale dates.
5. `autoindex.py:38`: a file removed while the script runs raises `FileNotFoundError`, and the remaining directories keep their old pages.
6. `generate_files.py:31`: md5sum and getmtime read the file separately. A replacement in between gives an entry whose hash and mtime describe different contents.

Two further problems are listed as hazards without a run:
- An empty file gets no progress report at all (`s3_upload.py:21`).
- Equal image names in two subdirectories give duplicate manifest names (`generate_files.py:28`).

## Fairness

- `S3Upload` assumes `WF_vars(Uploader) /\ WF_vars(Service)`. The script is a single sequential process that is never blocked by anything but the service. The service always eventually answers or times out.
- Writers, faults and the clock get no fairness, because they may never act.
- `AutoIndex` assumes weak fairness of the script only. `Rerun` gets none, because nothing in the repository schedules the script. Reruns are possible behaviours, bounded by `Runs`, that `RerunAccurate` is about. So nothing claims that a stopped run is ever followed by another. `FilesManifest` assumes weak fairness of the script. Other processes and the clock get none.
- `MCProgressFileReader` assumes weak fairness of the reader's and the transport's steps.
- Runs use `CHECK_DEADLOCK FALSE` where the process exits, since an exited process takes no step. `DemoData` keeps deadlock checking on, with an explicit `Done` step for the end of `main()`.

## Not modelled

- In `autoindex.py`, the HTML text is layout. Only the label lengths of `limit_filename_length` and the padding are kept. Directories are never added or removed. A web server reading a page while it is written would see the empty page that `EmptyOnlyWhileWriting` confines to the write. A kill of the script inside that window, which would leave the page empty, is not modelled.
- In `generate_files.py`, the JSON text is left out. A kill of the script between `open` and `json.dump` is not modelled. It would leave `files.json` empty. Equal file names in two directories (line 28) are reachable in the model, but no property is checked about them: neither the repository nor `spec.md` says how a consumer of `files.json` resolves a name.
- In `generate_demo_data.py`, the Go text around the id arguments is not modelled. That covers the loads, names, the sha256-derived IPv6 addresses and the random network namespace. No property tells these values apart.
- The inside of `http.client` is not modelled beyond its block-reading loop.
- The bytes of the hex encoding and of `strftime` are not modelled. They are injective conversions.
- A wall clock that steps backwards (line 31) is not modelled.
- The lack of a client timeout (line 148) is modelled only as a service that eventually times out.

## Plan for further work

1. A kill of the script inside the truncate-then-write windows (`autoindex.py:62`, `generate_files.py:36`), as a crash action of `AutoIndex` and `FilesManifest`.
2. Equal file names in two directories of `generate_files.py` (line 28), once it is known whether the image tree can hold them.
