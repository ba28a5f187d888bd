--------------------------- MODULE InboundMessages ---------------------------
(***************************************************************************)
(* The inbound SMS.  Each one is known by the id the carrier gives it       *)
(* (Twilio's MessageSid): the webhook, the queue payload and the            *)
(* provider_message_id column all carry it, and duplicates of one SMS share *)
(* it.                                                                     *)
(***************************************************************************)
CONSTANTS
  Messages,  \* carrier ids of the inbound SMS
  None       \* the absence of a message, a text, a worker or a delivery

ASSUME MessageAssumption == None \notin Messages
=============================================================================
