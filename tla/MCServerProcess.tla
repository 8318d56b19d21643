---------------------------- MODULE MCServerProcess ----------------------------
(***************************************************************************)
(* Instances of ServerProcess for TLC.                                     *)
(***************************************************************************)
EXTENDS ServerProcess

Call(method, path) == [method |-> method, path |-> path]

\* One call of each handler, one it refuses, and the one answered without a body.
MCCalls ==
    {Call("POST", "/api/send"), Call("POST", "/api/upload"), Call("GET", "/api/upload"),
     Call("GET", "/api/openapi.json"), Call("HEAD", "/api/openapi.json")}

\* A processor for each request, or a single one, or no idea.
MCCpuCounts == {-1, 1, 2}
================================================================================
