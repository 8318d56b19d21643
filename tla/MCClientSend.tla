----------------------------- MODULE MCClientSend -----------------------------
(***************************************************************************)
(* Instances of ClientSend: two screens, a server without TLS and one with *)
(* it, a mistyped one; texts with and without a name, a file without.      *)
(***************************************************************************)
EXTENDS ClientSend

CONSTANTS home, office, typo, hello, photo, raw, safe

MCServers == {home, office, typo}
MCNames == {hello, photo, raw, safe}

\* One name is changed by the sanitiser, the others are not.
MCsanitizeFilename == [n \in MCNames |-> IF n = raw THEN safe ELSE n]

Form(server, type, data, save) ==
    [server |-> server, sendingType |-> type, data |-> data, saveToPath |-> save]

MCConfigs == {Form(home, "RAW_DATA", hello, raw), Form(office, "FILE", photo, NoName),
              Form(home, "RAW_DATA", photo, NoName), Form(typo, "RAW_DATA", hello, NoName)}
===============================================================================
