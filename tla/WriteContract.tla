--------------------------- MODULE WriteContract ---------------------------
(***************************************************************************)
(* What a printer worker relies on when it sends a document                *)
(* (transport.Transport.Write and WriteError in                            *)
(* internal/transport/transport.go).  Success means that the document was  *)
(* sent; an error that is not Ambiguous() means that no byte of it was and *)
(* none will be, which is why the worker may retry it automatically; an    *)
(* ambiguous error says nothing, and bytes may still arrive after it.      *)
(*                                                                         *)
(* Transports implements this contract for each kind of transport, and     *)
(* PrintAgent makes no other assumption about them.                        *)
(***************************************************************************)

VARIABLES
    phase,  \* of the current document: not written yet, in Write, or Write's answer
    sent    \* whether a byte of the current document has reached the device

contractVars == <<phase, sent>>

Init == phase = "idle" /\ sent = FALSE

\* Write is called with a new document; it may refuse at once.
Begin ==
    /\ phase # "writing"
    /\ phase' \in {"writing", "not_sent"}
    /\ sent' = FALSE

\* The device gets a byte.
Deliver ==
    /\ phase \in {"writing", "ambiguous"}
    /\ phase' = phase
    /\ sent' = TRUE

\* Write returns, possibly with the last of the bytes.
Return ==
    /\ phase = "writing"
    /\ sent' \in {sent, TRUE}
    /\ \/ phase' = "ok" /\ sent'
       \/ phase' = "not_sent" /\ ~sent'
       \/ phase' = "ambiguous"

\* The caller is done with the document, or the process has died.
Forget == phase' = "idle" /\ sent' = FALSE

Next == Begin \/ Deliver \/ Return \/ Forget

Spec == Init /\ [][Next]_contractVars
=============================================================================
