---------------------------- MODULE HttpServerMC ----------------------------
(***************************************************************************)
(* An instance of HttpServer: the longer version comes in two chunks, and  *)
(* what has come after the first is a version as good as any.              *)
(***************************************************************************)
EXTENDS HttpServer

OneId == {"f1"}
TwoChunks == [v \in Versions \cup {None} |->
                CASE v = None    -> <<>>
                  [] v = "1.1.5" -> <<"1.1", "1.1.5">>
                  [] OTHER       -> <<v>>]
=============================================================================
