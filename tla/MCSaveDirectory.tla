---------------------------- MODULE MCSaveDirectory ----------------------------
(***************************************************************************)
(* Instances of SaveDirectory for TLC.                                     *)
(***************************************************************************)
EXTENDS SaveDirectory

Text(n, size) == [handler |-> "send", parts |-> <<[name |-> n, size |-> size]>>]
Upload(parts) == [handler |-> "upload", parts |-> parts]
File(n, size) == [name |-> n, size |-> size]

MCNames == {"note", "photo", "video"}

\* Long and short texts under one name, which a two-part form may also use, forms with
\* names of their own, and a form that gives one name twice.
MCJobs ==
    {Text("note", 1), Text("note", 2),
     Upload(<<File("photo", 2), File("video", 1)>>),
     Upload(<<File("photo", 2), File("photo", 1)>>),
     Upload(<<File("note", 1)>>)}

\* Two clients that upload files of the same name.
MCSameName == {Upload(<<File("photo", 2)>>)}

MCFaults == FaultKinds
MCNoFaults == {}
================================================================================
