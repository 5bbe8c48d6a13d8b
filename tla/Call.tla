-------------------------------- MODULE Call --------------------------------
(* The last call of a function that keeps no state: its name and arguments, *)
(* and what it returned.  The components of which every call stands for     *)
(* itself share these variables.                                            *)

VARIABLES
    call,   \* [fn |-> name, ...arguments]
    result  \* what it returned

callVars == <<call, result>>

NoCall == [fn |-> "none"]

CallInit == call = NoCall /\ result = <<>>

(* A call and its return *)
Returns(c, r) == call = NoCall /\ call' = c /\ result' = r
=============================================================================
