-------------------------- MODULE MCRootfsPhysical --------------------------
(***************************************************************************)
(* A root filesystem with a directory in a directory, a file in the inner  *)
(* one and a symbolic link at top level, as "lib", "lib/jvm", "lib/jvm/cds" *)
(* and "lib64" in canonical order.                                         *)
(***************************************************************************)
EXTENDS RootfsPhysical

DeepKind == <<"dir", "dir", "file", "link">>
DeepParent == <<0, 1, 2, 0>>
DeepSealOrder == <<2, 1>>
=============================================================================
