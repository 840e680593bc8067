--------------------------- MODULE DurableUpload ---------------------------
(***************************************************************************)
(* What an upload promises to the client that feeds it, without chunks,    *)
(* threads or Telegram (src/storage/upload_manager.h, class UploadSession, *)
(* as upload_manager.cpp keeps it when several chunks fly at once).        *)
(*                                                                         *)
(* accepted is the position the client is told, durable the prefix that    *)
(* lies on Telegram.  A failure may take accepted back, never below        *)
(* durable; durable never shrinks; and the file is saved only at the       *)
(* moment when every announced byte is both accepted and durable.          *)
(***************************************************************************)
EXTENDS Naturals

CONSTANT Total  \* the size announced when the upload began

VARIABLES accepted, durable, outcome

vars == <<accepted, durable, outcome>>

Init == accepted = 0 /\ durable = 0 /\ outcome = "open"

Accept ==
    /\ outcome = "open"
    /\ accepted' \in accepted + 1 .. Total
    /\ UNCHANGED <<durable, outcome>>

Store ==
    /\ outcome = "open"
    /\ durable' \in durable + 1 .. accepted
    /\ UNCHANGED <<accepted, outcome>>

StepBack ==
    /\ outcome = "open"
    /\ accepted' \in durable .. accepted
    /\ UNCHANGED <<durable, outcome>>

Save ==
    /\ outcome = "open" /\ accepted = Total /\ durable = Total
    /\ outcome' = "saved"
    /\ UNCHANGED <<accepted, durable>>

Discard ==
    /\ outcome = "open"
    /\ outcome' = "discarded"
    /\ UNCHANGED <<accepted, durable>>

Next == Accept \/ Store \/ StepBack \/ Save \/ Discard

Spec == Init /\ [][Next]_vars

=============================================================================
