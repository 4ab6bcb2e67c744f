----------------------------- MODULE MCS3Upload -----------------------------
(***************************************************************************)
(* Small inputs for S3Upload.  ChunkSize and Blocksize stand for 8192; a  *)
(* three-byte file is read in a full and a partial chunk.                 *)
(***************************************************************************)
EXTENDS S3Upload

MCInitFiles == {<<>>, <<0>>, <<1, 0>>, <<0, 1, 1>>}

\* "b" has no "/", "b/" has an empty key, "b/k" and "b/d/k" split at the first "/"
MCDests == {<<"b">>, <<"b", "k">>, <<"b", "d", "k">>}

MCEmptyKeyDests == {<<"b", "">>, <<"b", "k">>}

MCEnvChoices == {Required, Required \ {"AWS_SECRET_ACCESS_KEY"}}

MCFullEnv == {Required}

=============================================================================
