----------------------------- MODULE RpcFailover -----------------------------
(***************************************************************************)
(* One JSON-RPC read: the endpoints in their order, each tried again while *)
(* it is busy (tools/onchain/rpc.py).                                      *)
(***************************************************************************)
EXTENDS Integers, Sequences, FiniteSets

CONSTANTS
  Endpoints,       \* how many there are
  RpcAttempts      \* attempts at one endpoint

ASSUME RpcAssumption == Endpoints \in Nat \ {0} /\ RpcAttempts \in Nat \ {0}

VARIABLES
  rpc,             \* [endpoint, tries, bad, result] of the read
  requests            \* [endpoint, answer] of every request made

rpcVars == <<rpc, requests>>

\* Busy: a timeout, 429 or 5xx.  Gone: any other status, or no connection.
\* Error: a body with an error member.  Malformed: a body that is not JSON.
Answers == {"value", "busy", "gone", "error", "malformed"}
Retriable == {"busy"}

Unanswered(bad) == IF bad = Endpoints THEN "stale" ELSE "failed"

\* Mutant: every answer without a value counts as malformed.
NextEndpointBad(answer) ==
  LET bad == rpc.bad + 1
  IN rpc' = [endpoint |-> rpc.endpoint + 1, tries |-> 0, bad |-> bad,
             result |-> IF rpc.endpoint = Endpoints THEN Unanswered(bad) ELSE "none"]

NextEndpoint(answer) ==
  LET bad == IF answer = "malformed" THEN rpc.bad + 1 ELSE rpc.bad
  IN rpc' = [endpoint |-> rpc.endpoint + 1, tries |-> 0, bad |-> bad,
             result |-> IF rpc.endpoint = Endpoints THEN Unanswered(bad) ELSE "none"]

PostOnce(answer) ==
  /\ rpc.result = "none"
  /\ requests' = Append(requests, [endpoint |-> rpc.endpoint, answer |-> answer])
  /\ \/ answer = "value" /\ rpc' = [rpc EXCEPT !.result = "value"]
     \/ /\ answer \in Retriable /\ rpc.tries + 1 < RpcAttempts
        /\ rpc' = [rpc EXCEPT !.tries = @ + 1]
     \/ /\ answer \in Retriable => rpc.tries + 1 = RpcAttempts
        /\ answer # "value" /\ NextEndpoint(answer)

\* The tool's timeout may end the read at any of its waits.
ReadCancelled ==
  /\ rpc.result = "none" /\ rpc' = [rpc EXCEPT !.result = "cancelled"]
  /\ UNCHANGED requests

RpcNext == ReadCancelled \/ \E answer \in Answers : PostOnce(answer)

RpcInit ==
  /\ rpc = [endpoint |-> 1, tries |-> 0, bad |-> 0, result |-> "none"]
  /\ requests = <<>>

RpcSpec == RpcInit /\ [][RpcNext]_rpcVars

(******************************* properties ********************************)
PostsAt(e) == {i \in DOMAIN requests : requests[i].endpoint = e}
LastAt(e) == requests[CHOOSE i \in PostsAt(e) : \A j \in PostsAt(e) : j <= i].answer

\* A read without a value has asked every endpoint, and each of them until it
\* answered or was busy too often; it is stale data only when the last answer of
\* every endpoint was malformed; the first value ends it (rpc.py call).
FailoverSound ==
  /\ rpc.result \in {"stale", "failed"} =>
       \A e \in 1 .. Endpoints :
         /\ PostsAt(e) # {} /\ \A i \in PostsAt(e) : requests[i].answer # "value"
         /\ LastAt(e) \in Retriable => Cardinality(PostsAt(e)) = RpcAttempts
  /\ rpc.result = "stale" <=>
       \A e \in 1 .. Endpoints : PostsAt(e) # {} /\ LastAt(e) = "malformed"
  /\ \A i \in DOMAIN requests : requests[i].answer = "value" <=>
       rpc.result = "value" /\ i = Len(requests)
=============================================================================
