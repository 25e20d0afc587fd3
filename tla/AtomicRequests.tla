--------------------------- MODULE AtomicRequests ---------------------------
(***************************************************************************)
(* What a client of the submitting and querying endpoints may rely on,     *)
(* apart from how they are implemented.  A request is open from its        *)
(* receipt to its answer.  The call it stands for takes effect at one      *)
(* moment and at most once; a success is only answered after that moment,  *)
(* and names the object it made.  An error promises nothing: the call may  *)
(* still take effect later.  Each query of a report is evaluated at one    *)
(* moment while the request is open, and not necessarily all at the same   *)
(* one.                                                                    *)
(***************************************************************************)
EXTENDS Endpoints

CONSTANTS
    Requests,       \* requests to make
    Inputs,         \* what a request may ask for, as made by Endpoints
    InitialBook     \* the chain and the proof server at the start

VARIABLES
    book,       \* the chain and the proof server
    input,      \* what each request asks for
    open,       \* requests waiting for their answer
    applied,    \* requests whose call has taken effect
    made,       \* the number of the object each of them made
    seen,       \* what each request has read, by query
    reply       \* what each request was answered

vars == <<book, input, open, applied, made, seen, reply>>

NoInput == [ask |-> [endpoint |-> "none"], object |-> NoObject, call |-> NoCall, queries |-> {}]
NoReply == [kind |-> "none"]
Made(n)     == [kind |-> "ok", made |-> n]
Report(s)   == [kind |-> "ok", values |-> s]
Error(e)    == [kind |-> "error", error |-> e]
Errors == {Error(e) : e \in {"notFound", "refused", "failed"}}

Init ==
    /\ book = InitialBook
    /\ input = [r \in Requests |-> NoInput]
    /\ open = {}
    /\ applied = {}
    /\ made = [r \in Requests |-> 0]
    /\ seen = [r \in Requests |-> [q \in {} |-> 0]]
    /\ reply = [r \in Requests |-> NoReply]

Open(r, i) ==
    /\ input[r] = NoInput
    /\ input' = [input EXCEPT ![r] = i]
    /\ open' = open \cup {r}
    /\ UNCHANGED <<book, applied, made, seen, reply>>

\* What a request acts on or reads from exists.
Present(r) == input[r].object # NoObject => Exists(input[r].object, book)

\* Enabled also after an error was answered, but not a second time.
Apply(r) ==
    /\ input[r].call # NoCall
    /\ r \notin applied
    /\ Present(r)
    /\ Allowed(input[r].call, book)
    /\ book' = Effect(input[r].call, book)
    /\ applied' = applied \cup {r}
    /\ made' = [made EXCEPT ![r] = Result(input[r].call, book)]
    /\ UNCHANGED <<input, open, seen, reply>>

Observe(r, q) ==
    /\ r \in open
    /\ q \in input[r].queries
    /\ Present(r)
    /\ seen' = [seen EXCEPT ![r] = WithAnswer(@, q, Value(q, book))]
    /\ UNCHANGED <<book, input, open, applied, made, reply>>

Close(r, answer) ==
    /\ r \in open
    /\ open' = open \ {r}
    /\ reply' = [reply EXCEPT ![r] = answer]
    /\ UNCHANGED <<book, input, applied, made, seen>>

Confirm(r) == r \in applied /\ Close(r, Made(made[r]))

Inform(r) ==
    /\ input[r].queries # {}
    /\ DOMAIN seen[r] = input[r].queries
    /\ Close(r, Report(seen[r]))

Decline(r) == \E e \in Errors : Close(r, e)

Next == \E r \in Requests :
    \/ \E i \in Inputs : Open(r, i)
    \/ Apply(r)
    \/ \E q \in input[r].queries : Observe(r, q)
    \/ Confirm(r) \/ Inform(r) \/ Decline(r)

Spec == Init /\ [][Next]_vars
=============================================================================
