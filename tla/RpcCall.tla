------------------------------ MODULE RpcCall ------------------------------
(***************************************************************************)
(* What an RPC channel promises to the code that calls it, one call at a   *)
(* time and independently of connections, threads and request ids:         *)
(*                                                                         *)
(*   - a call settles at most once: it is answered, and then by the answer *)
(*     to its own request, or it fails;                                    *)
(*   - a call without a completion closure (a synchronous call) returns    *)
(*     only once it has settled;                                           *)
(*   - the closure of an asynchronous call runs at most once, and only     *)
(*     once the call has settled.                                          *)
(*                                                                         *)
(* Several calls may settle in the same step: a lost connection fails all  *)
(* the calls that are pending on it.                                       *)
(***************************************************************************)
EXTENDS Naturals

CONSTANTS Calls,       \* invocations of CallMethod
          AsyncCalls,  \* the ones that pass a completion closure
          NoCall       \* "no request": not a call

VARIABLES outcome,     \* [Calls -> Outcomes]
          answer,      \* the request whose answer a call was given, or NoCall
          returned,    \* has CallMethod returned?
          closures     \* how often the completion closure has run

vars == <<outcome, answer, returned, closures>>

Outcomes == {"none", "ok", "failed"}

Init ==
  /\ outcome  = [c \in Calls |-> "none"]
  /\ answer   = [c \in Calls |-> NoCall]
  /\ returned = [c \in Calls |-> FALSE]
  /\ closures = [c \in Calls |-> 0]

Settle(c) ==
  \/ UNCHANGED <<outcome[c], answer[c]>>
  \/ /\ outcome[c] = "none"
     /\ \/ outcome'[c] = "ok" /\ answer'[c] = c
        \/ outcome'[c] = "failed" /\ answer'[c] = NoCall

Return(c) ==
  \/ UNCHANGED returned[c]
  \/ /\ returned'[c]
     /\ c \in AsyncCalls \/ outcome'[c] # "none"

RunDone(c) ==
  \/ UNCHANGED closures[c]
  \/ /\ c \in AsyncCalls
     /\ outcome'[c] # "none"
     /\ closures[c] = 0
     /\ closures'[c] = 1

Next == \A c \in Calls : Settle(c) /\ Return(c) /\ RunDone(c)

Spec == Init /\ [][Next]_vars
=============================================================================
