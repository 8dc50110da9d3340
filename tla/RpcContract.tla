---------------------------- MODULE RpcContract ----------------------------
(***************************************************************************)
(* What AcpClient::call promises its callers, without threads, queues or   *)
(* maps: a request reaches the agent at most once, the agent answers a     *)
(* request at most once and only after it has been sent, and a call        *)
(* returns once, either a failure of the host's own or the answer to that  *)
(* very request.                                                           *)
(***************************************************************************)
CONSTANTS Calls, Answers, Failures

VARIABLES sent,       \* calls whose request line reached the agent's stdin
          response,   \* call -> the agent's answer
          returned    \* call -> what the caller got

vars == <<sent, response, returned>>

ContractInit ==
    /\ sent = {}
    /\ response = [c \in Calls |-> "none"]
    /\ returned = [c \in Calls |-> "none"]

Transmit(c) ==
    /\ c \notin sent
    /\ sent' = sent \cup {c}
    /\ UNCHANGED <<response, returned>>

Respond(c, a) ==
    /\ c \in sent
    /\ response[c] = "none"
    /\ response' = [response EXCEPT ![c] = a]
    /\ UNCHANGED <<sent, returned>>

ReturnAnswer(c) ==
    /\ returned[c] = "none"
    /\ response[c] # "none"
    /\ returned' = [returned EXCEPT ![c] = response[c]]
    /\ UNCHANGED <<sent, response>>

ReturnFailure(c, f) ==
    /\ returned[c] = "none"
    /\ returned' = [returned EXCEPT ![c] = f]
    /\ UNCHANGED <<sent, response>>

ContractNext ==
    \E c \in Calls :
      \/ Transmit(c)
      \/ \E a \in Answers : Respond(c, a)
      \/ ReturnAnswer(c)
      \/ \E f \in Failures : ReturnFailure(c, f)

ContractSpec == ContractInit /\ [][ContractNext]_vars
=============================================================================
