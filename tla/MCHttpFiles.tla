----------------------------- MODULE MCHttpFiles -----------------------------
(* A small instance of HttpFiles for TLC. *)
EXTENDS HttpFiles, TLC

CONSTANTS h1, v1, c1, dir

OneOfEach == (h1 :> "http") @@ (v1 :> "vods") @@ (c1 :> "cods")

\* Streams write to a sub-directory of the directory the service prepared.
Streams == {<<dir, "sub">>}

\* Where they write and where a torn read leads there are files; at the root Home
\* is a playlist that names no chunk, below it are only directories, and nothing
\* lies beside the sub-directory.
AtFirstThere ==
    [p \in Places |-> CASE p = <<Home, "sub">> -> "dir"
                        [] p = <<Home, "top">> -> "0"
                        [] p = <<dir, "top">> -> "none"
                        [] OTHER -> "2"]
================================================================================
