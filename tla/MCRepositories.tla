----------------------------- MODULE MCRepositories ----------------------------
(***************************************************************************)
(* Instances of Repositories for TLC.                                      *)
(***************************************************************************)
EXTENDS Repositories

MCIps == {"a", "", NULL}
MCEmptyIp == ""

Peer(ip, role) == [ip |-> ip, roleId |-> role]
Msg(c, status) ==
    [connectionId |-> c, messageStatusId |-> status, messageTypeId |-> 1, directionId |-> 2]

\* Rows with good, missing and clashing references; each reference table has one name
\* to give and the NULL its NOT NULL column refuses.
MCArguments ==
    [t \in Tables |->
        CASE t = "Connection" -> {Peer("a", 3), Peer("a", 2), Peer("", 3), Peer(NULL, 3)}
          [] t = "NamedConnection" -> {[connectionId |-> 1]}
          [] t = "Message" -> {Msg(1, SUCCESS), Msg(2, FAILED)}
          [] t = "MessageStatus" -> {[name |-> NULL], [name |-> "SENT"]}
          [] OTHER -> {}]

MCMaxId ==
    [t \in Tables |->
        CASE t = "Connection" -> 3
          [] t = "NamedConnection" -> 1
          [] t = "Message" -> 1
          [] t = "MessageStatus" -> 3
          [] OTHER -> Len(Seeds[t])]

\* Rows that are referred to, rows that are not, and seed rows.
MCAskedIds ==
    [t \in Tables |->
        CASE t = "Connection" -> {1, 2}
          [] t \in {"Message", "NamedConnection"} -> {1}
          [] t = "MessageStatus" -> {2, 3}
          [] t = "ConnectionRole" -> {3}
          [] OTHER -> {}]

\* Only messages and the peers they came from: what the handlers insert.
MCHistoryArguments ==
    [t \in Tables |->
        CASE t = "Connection" -> {Peer("a", 2)}
          [] t = "Message" -> {Msg(1, SUCCESS), Msg(1, FAILED)}
          [] OTHER -> {}]
================================================================================
