------------------------------ MODULE RpcHandler ------------------------------
(***************************************************************************)
(* The JSON-RPC dispatch of src/external/osamingo/jsonrpc/handler.go:      *)
(* MethodRepository.ServeBytes parses a request frame (one request or a   *)
(* batch), calls InvokeMethod on every request in order and encodes the   *)
(* responses.  InvokeMethod looks the method up (TakeMethod), checks the  *)
(* API version of the parameters unless the method is registered without *)
(* one, runs the handler and normalises its result and error.             *)
(*                                                                         *)
(* ParseRequestBytes, TakeMethod, NewResponse and GetResponseBytes are not*)
(* in this repository: a frame is either unparsable or a sequence of      *)
(* requests, each with a method name and the API field of its params.     *)
(* The handler's effect on worker state is the method appended to         *)
(* applied; its outcome (a nil or non-nil result, with or without an      *)
(* error) is a free input.  Verbose output and capture are left out.      *)
(***************************************************************************)
EXTENDS Naturals, Sequences, SequencesExt

CONSTANTS
  ApiMethods,     \* methods registered with the API check
  NoApiMethods,   \* methods registered with noApi (e.g. api_sync)
  OtherMethods,   \* method names nobody registered
  MaxBatch        \* largest batch a frame carries

ASSUME ApiMethods \cap NoApiMethods = {} /\ MaxBatch \in Nat \ {0}

Registered == ApiMethods \cup NoApiMethods

(* The api field of params: the server's version, another one, or params *)
(* that do not unmarshal into ApiSyncResult.                              *)
ApiFields == {"current", "other", "garbled"}

Request == [method : Registered \cup OtherMethods, api : ApiFields]

(* What ServeJSONRPC returns: a nil or non-nil result, and an error.     *)
Outcome == [result : {"nil", "value"}, err : BOOLEAN]

(* A response: result none/true/value, error none or its kind; ran says  *)
(* whether InvokeMethod called the handler.                               *)
NoResult == "none"
NoError == "none"

VARIABLES
  applied,  \* methods whose handler ran, in order, over all calls
  calls,    \* number of ServeBytes calls so far
  last      \* the last call: its requests, responses and applied before it

vars == <<applied, calls, last>>

-----------------------------------------------------------------------------
(* Mutant: the lookup hands out a handler for any name.                   *)
TakeMethodAny(r) == [found |-> TRUE, noAPI |-> r.method \in NoApiMethods]

(* TakeMethod: a registered method, with its noAPI flag, or the           *)
(* MethodNotFound error.                                                   *)
TakeMethod(r) ==
  [found |-> r.method \in Registered, noAPI |-> r.method \in NoApiMethods]

(* The API check: params must unmarshal and carry GetAPI().              *)
ApiOk(r) == r.api = "current"

(* Mutant: an API mismatch is recorded but the handler still runs.       *)
InvokeMethodNoReturn(r, out) ==
  LET t == TakeMethod(r)
  IN IF ~t.found
     THEN [result |-> NoResult, error |-> "MethodNotFound", ran |-> FALSE]
     ELSE [result |-> IF out.err THEN NoResult
                      ELSE IF out.result = "nil" THEN "true" ELSE "value",
           error  |-> IF out.err THEN "handler" ELSE NoError,
           ran    |-> TRUE]

(* Mutant: the result is not cleared when the handler returns an error.  *)
InvokeMethodKeepResult(r, out) ==
  LET t == TakeMethod(r)
  IN IF ~t.found
     THEN [result |-> NoResult, error |-> "MethodNotFound", ran |-> FALSE]
     ELSE IF ~t.noAPI /\ ~ApiOk(r)
     THEN [result |-> NoResult, error |-> "NotValidAPI", ran |-> FALSE]
     ELSE [result |-> IF out.result = "nil" THEN "true" ELSE "value",
           error  |-> IF out.err THEN "handler" ELSE NoError,
           ran    |-> TRUE]

(* InvokeMethod(r) when the handler, if called, returns out.              *)
InvokeMethod(r, out) ==
  LET t == TakeMethod(r)
  IN IF ~t.found
     THEN [result |-> NoResult, error |-> "MethodNotFound", ran |-> FALSE]
     ELSE IF ~t.noAPI /\ ~ApiOk(r)
     THEN [result |-> NoResult, error |-> "NotValidAPI", ran |-> FALSE]
     ELSE [result |-> IF out.err THEN NoResult
                      ELSE IF out.result = "nil" THEN "true" ELSE "value",
           error  |-> IF out.err THEN "handler" ELSE NoError,
           ran    |-> TRUE]

-----------------------------------------------------------------------------
Init ==
  /\ applied = <<>>
  /\ calls = 0
  /\ last = [reqs |-> <<>>, resps |-> <<>>, before |-> 0]

(* ServeBytes of a frame that parses into the requests rs (one, or a     *)
(* batch): every request is invoked in order, each handler running with  *)
(* the outcome outs[i].                                                   *)
ServeBytes(rs, outs) ==
  /\ LET resps == [i \in 1..Len(rs) |-> InvokeMethod(rs[i], outs[i])]
         ran   == SelectSeq([i \in 1..Len(rs) |-> IF resps[i].ran THEN rs[i].method ELSE "-"],
                            LAMBDA x : x # "-")
     IN /\ applied' = applied \o ran
        /\ last' = [reqs |-> rs, resps |-> resps, before |-> Len(applied)]
  /\ calls' = calls + 1

(* ServeBytes of a frame ParseRequestBytes rejects: one error response,   *)
(* no handler runs.                                                        *)
ServeBytesParseError ==
  /\ last' = [reqs |-> <<>>,
              resps |-> <<[result |-> NoResult, error |-> "parse", ran |-> FALSE]>>,
              before |-> Len(applied)]
  /\ calls' = calls + 1
  /\ UNCHANGED applied

Next ==
  \/ \E n \in 1..MaxBatch :
       \E rs \in [1..n -> Request], outs \in [1..n -> Outcome] : ServeBytes(rs, outs)
  \/ ServeBytesParseError

Spec == Init /\ [][Next]_vars

-----------------------------------------------------------------------------
(* Properties.                                                             *)

TypeOK ==
  /\ applied \in Seq(Registered)
  /\ calls \in Nat
  /\ last.before \in 0..Len(applied)

(* A reply is always produced and is a success or an error object, never *)
(* both: after the handler ran, InvokeMethod clears the result when there *)
(* is an error and turns a nil result into true.                          *)
ResultXorError ==
  \A i \in 1..Len(last.resps) :
    (last.resps[i].result = NoResult) # (last.resps[i].error = NoError)

(* Control errors never affect worker state (spec section 7): the        *)
(* handlers that ran in the last call are exactly those of the requests, *)
(* in order, that name a registered method and either need no API or     *)
(* carry the current one; an unknown method or a wrong or garbled API    *)
(* version answers with an error and runs nothing.                       *)
ControlErrorNoEffect ==
  LET admitted == SelectSeq(last.reqs,
                    LAMBDA r : r.method \in Registered
                               /\ (r.method \in NoApiMethods \/ r.api = "current"))
  IN /\ SubSeq(applied, last.before + 1, Len(applied))
          = [i \in 1..Len(admitted) |-> admitted[i].method]
     /\ \A i \in 1..Len(last.resps) :
          last.resps[i].error \in {"MethodNotFound", "NotValidAPI", "parse"}
            => ~last.resps[i].ran

====
