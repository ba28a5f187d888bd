---------------------------- MODULE MessageStore ----------------------------
(***************************************************************************)
(* The messages table as MessagesRepository (messages.repository.ts) uses   *)
(* it: the inbound row of each message and the one outbound row that can    *)
(* reply to it (unique in_reply_to).  Every operator below is one SQL       *)
(* statement or transaction of the repository; the callers decide when it   *)
(* runs and whether it commits.                                            *)
(***************************************************************************)
EXTENDS InboundMessages, Integers

CONSTANTS
  Texts,      \* reply texts the generator may produce
  StaleAfter  \* processing.staleClaimSeconds, in ticks

ASSUME StaleAssumption == StaleAfter \in Nat
ASSUME TextAssumption == None \notin Texts

VARIABLES
  inbound,   \* inbound[m]: status of the inbound row, "absent" before its insert
  claimAge,  \* claimAge[m]: ticks since claimed_at, counted up to StaleAfter + 1;
             \* it is read, and counted, only while the row is "processing"
  reply,     \* reply[m]: status of the outbound row, "absent" before its insert
  body       \* body[m]: recorded text of the outbound row

storeVars == <<inbound, claimAge, reply, body>>

StoreInit ==
  /\ inbound = [m \in Messages |-> "absent"]
  /\ claimAge = [m \in Messages |-> 0]
  /\ reply = [m \in Messages |-> "absent"]
  /\ body = [m \in Messages |-> None]

\* Mutant: the insert of a duplicate overwrites the row (DO UPDATE).
InsertInboundOverwriting(m) ==
  /\ inbound' = [inbound EXCEPT ![m] = "received"]
  /\ UNCHANGED <<claimAge, reply, body>>

\* insertInboundMessage: INSERT ... ON CONFLICT (provider_message_id) DO NOTHING.
InsertInbound(m) ==
  /\ inbound' = IF inbound[m] = "absent"
                THEN [inbound EXCEPT ![m] = "received"]
                ELSE inbound
  /\ UNCHANGED <<claimAge, reply, body>>

\* Mutants of the claim's condition: no age, an age one tick short, and a
\* clause that forgets failed rows.
ClaimableAtAnyAge(m) == inbound[m] \in {"received", "failed", "processing"}

ClaimableTooSoon(m) ==
  \/ inbound[m] \in {"received", "failed"}
  \/ inbound[m] = "processing" /\ claimAge[m] >= StaleAfter

ClaimableUnlessFailed(m) ==
  \/ inbound[m] = "received"
  \/ inbound[m] = "processing" /\ claimAge[m] > StaleAfter

\* claimForProcessing's WHERE clause.
Claimable(m) ==
  \/ inbound[m] \in {"received", "failed"}
  \/ inbound[m] = "processing" /\ claimAge[m] > StaleAfter

Claim(m) ==
  /\ Claimable(m)
  /\ inbound' = [inbound EXCEPT ![m] = "processing"]
  /\ claimAge' = [claimAge EXCEPT ![m] = 0]
  /\ UNCHANGED <<reply, body>>

\* getOrCreateOutboundReply: INSERT ... ON CONFLICT (in_reply_to) DO NOTHING.
InsertReply(m, text) ==
  /\ IF reply[m] = "absent"
     THEN /\ reply' = [reply EXCEPT ![m] = "processing"]
          /\ body' = [body EXCEPT ![m] = text]
     ELSE UNCHANGED <<reply, body>>
  /\ UNCHANGED <<inbound, claimAge>>

\* Mutant: only the outbound row is updated.
MarkSentReplyOnly(m) ==
  /\ reply' = [reply EXCEPT ![m] = "sent"]
  /\ UNCHANGED <<inbound, claimAge, body>>

\* markSent: both rows in one transaction.
MarkSent(m) ==
  /\ inbound' = [inbound EXCEPT ![m] = "sent"]
  /\ reply' = [reply EXCEPT ![m] = "sent"]
  /\ UNCHANGED <<claimAge, body>>

\* markFailed: one unconditional UPDATE, of the outbound row too if the caller
\* has learnt its id.
MarkFailed(m, withReply) ==
  /\ inbound' = [inbound EXCEPT ![m] = "failed"]
  /\ reply' = IF withReply THEN [reply EXCEPT ![m] = "failed"] ELSE reply
  /\ UNCHANGED <<claimAge, body>>

\* The clock Postgres compares claimed_at with.
ClaimsAge ==
  /\ claimAge' = [m \in Messages |->
                    IF inbound[m] = "processing" /\ claimAge[m] <= StaleAfter
                    THEN claimAge[m] + 1 ELSE claimAge[m]]
  /\ UNCHANGED <<inbound, reply, body>>

StoreTypeOK ==
  /\ inbound \in [Messages -> {"absent", "received", "processing", "sent", "failed"}]
  /\ claimAge \in [Messages -> 0..(StaleAfter + 1)]
  /\ reply \in [Messages -> {"absent", "processing", "sent", "failed"}]
  /\ body \in [Messages -> Texts \cup {None}]
=============================================================================
