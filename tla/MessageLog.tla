------------------------------ MODULE MessageLog -------------------------------
(***************************************************************************)
(* What a program that keeps a Message table promises about it, without    *)
(* processes, connections or locks: a request is recorded at most once,    *)
(* before it is answered, under its peer, and its answer is the one on     *)
(* record.  The server keeps it of the requests it gets (api_send.c:       *)
(* 122-124, http_json.c:23-27), the phone of its sends, whose answer is    *)
(* what its user is told (SendDataViewModel.java:182-187).                 *)
(* A request may be answered without a record: the server's sources        *)
(* promise more, and RequestHandlers shows that they do not keep it.       *)
(***************************************************************************)
EXTENDS Naturals, Sequences

CONSTANTS
    Requests,    \* requests received, or sends
    Peers,       \* who is at the other end
    Responses,   \* how a request may end
    NoPeer,      \* the request has not arrived
    NoReply      \* the request has not been answered

VARIABLES
    sender,   \* sender[r]: the peer of request r
    log,      \* the history: a sequence of entries
    answer    \* answer[r]: what the client, or the user, of r was told

vars == <<sender, log, answer>>

Entry == [request: Requests, peer: Peers, response: Responses]

EntriesOf(r) == {i \in DOMAIN log : log[i].request = r}

Init ==
    /\ sender = [r \in Requests |-> NoPeer]
    /\ log = <<>>
    /\ answer = [r \in Requests |-> NoReply]

Arrive(r, p) ==
    /\ sender[r] = NoPeer
    /\ sender' = [sender EXCEPT ![r] = p]
    /\ UNCHANGED <<log, answer>>

\* The history gains the entry of a request nobody has answered yet.
Record(r, a) ==
    /\ sender[r] # NoPeer
    /\ answer[r] = NoReply
    /\ EntriesOf(r) = {}
    /\ log' = Append(log, [request |-> r, peer |-> sender[r], response |-> a])
    /\ UNCHANGED <<sender, answer>>

\* The client is answered, with the response on record if there is one.
Answer(r, a) ==
    /\ sender[r] # NoPeer
    /\ answer[r] = NoReply
    /\ \A i \in EntriesOf(r) : log[i].response = a
    /\ answer' = [answer EXCEPT ![r] = a]
    /\ UNCHANGED <<sender, log>>

Next ==
    \E r \in Requests :
        \/ \E p \in Peers : Arrive(r, p)
        \/ \E a \in Responses : Record(r, a) \/ Answer(r, a)

Spec == Init /\ [][Next]_vars
================================================================================
