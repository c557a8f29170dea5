-------------------------- MODULE SessionRegistry --------------------------
(***************************************************************************)
(* What session_manager (src/onnx/session_manager.cpp) promises the        *)
(* threads that serve requests, without its mutex: a map from model keys   *)
(* to sessions on which create, look-up and remove are atomic.  A session  *)
(* is named after the request that created it.                             *)
(***************************************************************************)
CONSTANTS Requests, Keys, BadKeys, Nil

Ops == {"create", "get", "execute", "destroy"}
Asks == (Ops \X (Keys \cup BadKeys)) \cup {<<"list", Nil>>}

VARIABLES ask,       \* what each request asks for, or Nil
          registry,  \* the session under each key, or Nil
          answer     \* "none", "found", or the final answer

rvars == <<ask, registry, answer>>

Init == /\ ask = [r \in Requests |-> Nil]
        /\ registry = [k \in Keys |-> Nil]
        /\ answer = [r \in Requests |-> "none"]

Ask(r, a) == /\ ask[r] = Nil
             /\ answer[r] = "none"
             /\ ask' = [ask EXCEPT ![r] = a]
             /\ UNCHANGED <<registry, answer>>

Decide(r, a) == answer' = [answer EXCEPT ![r] = a]

\* A session is registered only under a key that has none.
Created(r, k) == /\ ask[r] = <<"create", k>>
                 /\ answer[r] = "none"
                 /\ registry[k] = Nil
                 /\ registry' = [registry EXCEPT ![k] = r]
                 /\ Decide(r, "ok")
                 /\ UNCHANGED ask

Conflict(r, k) == /\ ask[r] = <<"create", k>>
                  /\ answer[r] = "none"
                  /\ registry[k] # Nil
                  /\ Decide(r, "conflict")
                  /\ UNCHANGED <<ask, registry>>

Removed(r, k) == /\ ask[r] = <<"destroy", k>>
                 /\ answer[r] = "none"
                 /\ registry[k] # Nil
                 /\ registry' = [registry EXCEPT ![k] = Nil]
                 /\ Decide(r, "ok")
                 /\ UNCHANGED ask

NotFound(r, k) == /\ \E op \in Ops \ {"create"} : ask[r] = <<op, k>>
                  /\ answer[r] = "none"
                  /\ registry[k] = Nil
                  /\ Decide(r, "not_found")
                  /\ UNCHANGED <<ask, registry>>

Found(r, k) == /\ \E op \in {"get", "execute"} : ask[r] = <<op, k>>
               /\ answer[r] = "none"
               /\ registry[k] # Nil
               /\ Decide(r, "found")
               /\ UNCHANGED <<ask, registry>>

\* A look-up that found a session ends well, or the execution fails.
Served(r) == /\ answer[r] = "found"
             /\ \E a \in {"ok", "bad_request", "error"} : Decide(r, a)
             /\ UNCHANGED <<ask, registry>>

\* A malformed request, an invalid key or a model that cannot be loaded leaves
\* the registry as it is.
Failed(r) == /\ answer[r] = "none"
             /\ \E a \in {"bad_request", "error"} : Decide(r, a)
             /\ UNCHANGED <<ask, registry>>

\* What a list request contains is not part of this contract.
Listed(r) == /\ ask[r] = <<"list", Nil>>
             /\ answer[r] = "none"
             /\ Decide(r, "ok")
             /\ UNCHANGED <<ask, registry>>

Next == \E r \in Requests :
          \/ \E a \in Asks : Ask(r, a)
          \/ \E k \in Keys : \/ Created(r, k) \/ Conflict(r, k) \/ Removed(r, k)
                             \/ NotFound(r, k) \/ Found(r, k)
          \/ Served(r) \/ Failed(r) \/ Listed(r)

Spec == Init /\ [][Next]_rvars
=============================================================================
