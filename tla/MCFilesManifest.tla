--------------------------- MODULE MCFilesManifest ---------------------------
(***************************************************************************)
(* A working directory r with a subdirectory a, file stems "1" and "2",    *)
(* and the extensions .qcow2 and .sig.                                     *)
(***************************************************************************)
EXTENDS FilesManifest

MCParent == [d \in {"a"} |-> "r"]

(* A tree with an image and its signature in r and another image in a.    *)
MCInitTrees ==
    { {<<"r", <<"1", ".qcow2">>>>, <<"r", <<"1", ".sig">>>>,
       <<"a", <<"2", ".qcow2">>>>} }

MCStems == <<"1", "2">>
MCExts == <<".qcow2", ".sig">>

=============================================================================
