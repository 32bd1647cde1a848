------------------------------ MODULE RpcCalls ------------------------------
(***************************************************************************)
(* What RpcClient promises about calls, whatever happens to the server,    *)
(* the connection and the deadlines: a call is answered once, with the     *)
(* reply to its own request or with a failure status.                      *)
(***************************************************************************)
CONSTANT Calls

VARIABLE outcome   \* of each call: not issued, waiting, or its response

Failures == {<<"kTimeout">>, <<"kConnectionClosed">>, <<"kBadRequest">>}
New == <<"new">>
Waiting == <<"waiting">>
Reply(c) == <<"kOk", c>>

CallsInit == outcome = [c \in Calls |-> New]

Issue(c) ==
    /\ outcome[c] = New
    /\ outcome' = [outcome EXCEPT ![c] = Waiting]

\* The completion of a call: only while it waits, and only with an answer of its own.
Complete(c) ==
    /\ outcome[c] = Waiting
    /\ \E r \in Failures \cup {Reply(c)} : outcome' = [outcome EXCEPT ![c] = r]

\* A call made on the loop thread may be refused at once.
IssueRefused(c) ==
    /\ outcome[c] = New
    /\ \E r \in Failures : outcome' = [outcome EXCEPT ![c] = r]

CallsNext == \E c \in Calls : Issue(c) \/ Complete(c) \/ IssueRefused(c)

CallsSpec == CallsInit /\ [][CallsNext]_outcome
==============================================================================
