--------------------------- MODULE MCRequestHandlers ---------------------------
(***************************************************************************)
(* Instances of RequestHandlers for TLC.                                   *)
(***************************************************************************)
EXTENDS RequestHandlers, TLC

MCPeers == {"phone", "tablet"}

\* Everything one peer can call, and a second peer's text and file.
MCEveryCall ==
    {c \in CallSpace : c.peer = "phone" \/ c.body \in {"text", "file"}}

MCSendCalls == {c \in CallSpace : c.handler = "send" /\ c.body \in {"text", "textToFile"}}

MCAllFaults == FaultKinds
MCFileFaults == {"memory", "file"}
MCNoFaults == {}

\* Requests differ in nothing but their call.  Used by safety runs only.
MCSymmetry == Permutations(Requests)
================================================================================
