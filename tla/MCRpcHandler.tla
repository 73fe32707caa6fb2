----------------------------- MODULE MCRpcHandler -----------------------------
(* Model-checking instance of RpcHandler: one method with the API check,  *)
(* one without (api_sync), one unknown name, batches of up to two.        *)
EXTENDS RpcHandler, TLC

CONSTANTS mApi, mSync, mUnknown

MCApiMethods == {mApi}
MCNoApiMethods == {mSync}
MCOtherMethods == {mUnknown}

(* The server serves frames forever: explore the first MaxCalls of them. *)
MaxCalls == 2
CallsConstraint == calls < MaxCalls
====
