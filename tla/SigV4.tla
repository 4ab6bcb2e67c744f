------------------------------- MODULE SigV4 -------------------------------
(***************************************************************************)
(* The request signing of main() in src/tools/s3_upload.py, and, for the   *)
(* receiving service, the SigV4 check it has to pass.                      *)
(*                                                                         *)
(* Cryptography is symbolic: SHA-256 and HMAC-SHA256 are injective         *)
(* constructors, so two digests are equal exactly when their inputs are.   *)
(* A string the code builds with f-strings is the tuple of its fields, in  *)
(* their order: the newline-separated formats used here are unambiguous,   *)
(* so two strings are equal exactly when the tuples are.  str() of the     *)
(* content length and strftime of the date are injective and are left out. *)
(***************************************************************************)
EXTENDS Naturals, Sequences, TLC

SHA256(msg) == <<"SHA-256", msg>>
HMAC(key, msg) == <<"HMAC-SHA256", key, msg>>

(* sign(key, msg): hmac.new(key, msg, sha256).digest()                    *)
sign(key, msg) == HMAC(key, msg)

(* The four-stage derivation of the signing key; "AWS4" + key is the      *)
(* prefixed secret.                                                        *)
get_signature_key(key, date_stamp, region, service) ==
    LET k_date    == sign(<<"AWS4", key>>, date_stamp)
        k_region  == sign(k_date, region)
        k_service == sign(k_region, service)
    IN  sign(k_service, "aws4_request")

(* The request fields main() has computed by the time it signs:           *)
(* method, uri, host, content_type, content_length, payload_hash,         *)
(* amz_date, date_stamp, region, access_key, secret_key.                  *)

(* Mutant of canonical_headers: content-type written before content-length. *)
canonical_headers_unsorted(r) ==
    << <<"content-type", r.content_type>>,
       <<"content-length", r.content_length>>,
       <<"host", r.host>>,
       <<"x-amz-content-sha256", r.payload_hash>>,
       <<"x-amz-date", r.amz_date>> >>

canonical_headers(r) ==
    << <<"content-length", r.content_length>>,
       <<"content-type", r.content_type>>,
       <<"host", r.host>>,
       <<"x-amz-content-sha256", r.payload_hash>>,
       <<"x-amz-date", r.amz_date>> >>

signed_headers ==
    <<"content-length", "content-type", "host", "x-amz-content-sha256",
      "x-amz-date">>

canonical_request(r) ==
    <<r.method, r.uri, "", canonical_headers(r), signed_headers,
      r.payload_hash>>

credential_scope(r) == <<r.date_stamp, r.region, "s3", "aws4_request">>

string_to_sign(r) ==
    <<"AWS4-HMAC-SHA256", r.amz_date, credential_scope(r),
      SHA256(canonical_request(r))>>

signature(r) ==
    HMAC(get_signature_key(r.secret_key, r.date_stamp, r.region, "s3"),
         string_to_sign(r))

authorization_header(r) ==
    [credential     |-> <<r.access_key, credential_scope(r)>>,
     signed_headers |-> signed_headers,
     signature      |-> signature(r)]

(* The headers dict passed to conn.request, keyed by the lower-cased name *)
(* the service canonicalises them under.                                   *)
headers(r) ==
    ("host" :> r.host) @@
    ("content-type" :> r.content_type) @@
    ("content-length" :> r.content_length) @@
    ("x-amz-date" :> r.amz_date) @@
    ("x-amz-content-sha256" :> r.payload_hash) @@
    ("authorization" :> authorization_header(r))

-----------------------------------------------------------------------------
(***************************************************************************)
(* The service side of SigV4, written from the protocol and not from the   *)
(* client: the service sorts the signed header names itself, takes the     *)
(* values from the headers it received, and recomputes the signature with  *)
(* the secret it holds for the access key.                                 *)
(***************************************************************************)

(* The header names a request of main() can carry, in byte order.          *)
NameOrder ==
    <<"authorization", "content-length", "content-type", "host",
      "x-amz-content-sha256", "x-amz-date">>

NameRank(n) == CHOOSE i \in 1..Len(NameOrder) : NameOrder[i] = n

SortedNames(names) ==
    SortSeq(names, LAMBDA a, b : NameRank(a) < NameRank(b))

ServiceCanonicalRequest(method, uri, hdrs, names) ==
    LET sorted == SortedNames(names)
    IN  <<method, uri, "",
          [i \in 1..Len(sorted) |-> <<sorted[i], hdrs[sorted[i]]>>],
          sorted, hdrs["x-amz-content-sha256"]>>

(* The signature the service expects for a request with headers hdrs,     *)
(* given the secret it holds and the day of x-amz-date.                    *)
ExpectedSignature(method, uri, hdrs, secret, day) ==
    LET auth  == hdrs["authorization"]
        scope == auth.credential[2]
        sts   == <<"AWS4-HMAC-SHA256", hdrs["x-amz-date"], scope,
                   SHA256(ServiceCanonicalRequest(method, uri, hdrs,
                                                  auth.signed_headers))>>
    IN  HMAC(get_signature_key(secret, day, scope[2], "s3"), sts)

(* The authentication check: the scope's date is the day of x-amz-date,   *)
(* and the signature matches.                                             *)
Authentic(method, uri, hdrs, secret, day) ==
    LET auth == hdrs["authorization"]
    IN  /\ auth.credential[2][1] = day
        /\ auth.signature = ExpectedSignature(method, uri, hdrs, secret, day)

=============================================================================
